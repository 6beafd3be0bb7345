-------------------------- MODULE IndexSlotsProofs --------------------------
(***************************************************************************)
(* What holds of IndexSlots, for any numbers of slots, documents, buckets  *)
(* and searches, and of PostLine, for any doctypes, docids, base of the    *)
(* numbers and limit.                                                      *)
(***************************************************************************)
EXTENDS IndexSlots, PostLine, SortedSetsProofs, SequenceTheorems

-----------------------------------------------------------------------------
(***************************************************************************)
(* First part.  The payload that the slots share is freed once, and by the *)
(* last that uses it.                                                      *)
(***************************************************************************)

(* No slot has a payload twice: queued, in its thread's hands, or to come. *)
HeldOnce ==
  \A s \in Slots :
    /\ \A i, j \in 1..Len(queue[s]) : queue[s][i] = queue[s][j] => i = j
    /\ worker[s].step # "idle" => \A i \in 1..Len(queue[s]) : queue[s][i] # worker[s].payload
    /\ adding # 0 /\ s >= adding =>
         /\ worker[s].payload # Len(payloads)
         /\ \A i \in 1..Len(queue[s]) : queue[s][i] # Len(payloads)

Holders(p) == {s \in Slots : HandedTo(p, s)}

(* slots_left_ counts the slots that have a payload still to work on.      *)
Counted == \A p \in Made : payloads[p].slots_left = Cardinality(Holders(p))

(* Only a payload that is counted down is freed, by one thread.            *)
FreedLast ==
  \A p \in Made :
    /\ payloads[p].freed <= 1
    /\ payloads[p].freed = 1 => payloads[p].slots_left = 0
    /\ \A s \in Slots : worker[s].step = "free" /\ worker[s].payload = p =>
         /\ payloads[p].slots_left = 0
         /\ payloads[p].freed = 0
         /\ \A r \in Slots : worker[r].step = "free" /\ worker[r].payload = p => r = s

Inv == TypeOK /\ HeldOnce /\ Counted /\ FreedLast

-----------------------------------------------------------------------------
LEMMA SlotsFinite ==
  ASSUME SlotAssumptions
  PROVE  /\ IsFiniteSet(Slots) /\ Cardinality(Slots) = SlotCount
         /\ \A S \in SUBSET Slots :
              IsFiniteSet(S) /\ Cardinality(S) \in 0..SlotCount /\ (Cardinality(S) = 0 <=> S = {})
<1>1. IsFiniteSet(Slots) /\ Cardinality(Slots) = SlotCount
  BY FS_Interval DEF SlotAssumptions, Slots
<1>2. ASSUME NEW S \in SUBSET Slots
      PROVE  IsFiniteSet(S) /\ Cardinality(S) \in 0..SlotCount /\ (Cardinality(S) = 0 <=> S = {})
  <2>1. IsFiniteSet(S) /\ Cardinality(S) <= Cardinality(Slots)
    BY <1>1, FS_Subset
  <2>2. Cardinality(S) \in Nat
    BY <2>1, FS_CardinalityType
  <2> QED
    BY <1>1, <2>1, <2>2, FS_EmptySet DEF SlotAssumptions
<1> QED
  BY <1>1, <1>2

LEMMA InvInitial == ASSUME SlotAssumptions, Init PROVE Inv
<1> USE DEF Init, Made
<1>1. TypeOK
  BY DEF TypeOK, WorkerStates, SearchStates, SlotAssumptions, Slots, IdleWorker, IdleSearch
<1> QED
  BY <1>1 DEF Inv, HeldOnce, Counted, FreedLast, IdleWorker

(* What a step leaves to the holders, it leaves to the count.              *)
LEMMA SameCount ==
  ASSUME Counted, Made' = Made,
         \A p \in Made : payloads'[p].slots_left = payloads[p].slots_left,
         \A p \in Made, s \in Slots : HandedTo(p, s)' <=> HandedTo(p, s)
  PROVE  Counted'
<1>1. \A p \in Made : Holders(p)' = Holders(p)
  BY DEF Holders
<1> QED
  BY <1>1 DEF Counted

(* A search's record stays one when it goes to another step and slot.      *)
LEMMA NextSlot ==
  ASSUME NEW st \in SearchStates, NEW l \in 0..SlotCount,
         NEW a \in {"idle", "lock", "read", "unlock", "done"}
  PROVE  [st EXCEPT !.step = a, !.slot = l] \in SearchStates
BY DEF SearchStates

(* The steps of searches touch nothing the invariant speaks of but their   *)
(* own state.                                                              *)
LEMMA SearchStep ==
  ASSUME SlotAssumptions, Inv, NEW q \in Searchers, BeginSearch(q) \/ Search(q)
  PROVE  Inv'
<1> USE DEF Inv
<1>0. 0 \in 0..SlotCount /\ Slots \subseteq 0..SlotCount
  BY DEF SlotAssumptions, Slots
<1>1. UNCHANGED <<stored, payloads, adding, queue, worker, index>>
  BY DEF BeginSearch, Search, LockSlot, SearchBucket, UnlockSlot
<1>2. readers \in [Slots -> SUBSET Searchers] /\ search \in [Searchers -> SearchStates]
  BY DEF TypeOK
<1>3. /\ search[q] \in SearchStates
      /\ search[q].step = "lock" => search[q].slot \in Slots
      /\ search[q].step \in {"read", "unlock"} => search[q].slot + 1 \in Slots
  BY DEF TypeOK
<1>4. /\ readers' \in [Slots -> SUBSET Searchers]
      /\ searches' \in Nat
      /\ \E st \in SearchStates :
           /\ search' = [search EXCEPT ![q] = st]
           /\ st.step = "lock" => st.slot \in Slots
           /\ st.step \in {"read", "unlock"} => st.slot + 1 \in Slots
  <2>1. CASE BeginSearch(q)
    <3> DEFINE st == [step |-> "lock", slot |-> 1, todo |-> Hashes, found |-> {}]
    <3>1. st \in SearchStates /\ 1 \in Slots
      BY DEF SearchStates, SlotAssumptions, Slots
    <3>2. readers' \in [Slots -> SUBSET Searchers] /\ searches' \in Nat
      BY <1>2, <2>1 DEF BeginSearch, TypeOK
    <3>3. search' = [search EXCEPT ![q] = st]
      BY <2>1 DEF BeginSearch
    <3> QED
      BY <3>1, <3>2, <3>3
  <2>2. CASE LockSlot(q)
    <3> DEFINE s == search[q].slot
               st == IF s = SlotCount THEN [search[q] EXCEPT !.step = "read", !.slot = 0]
                                      ELSE [search[q] EXCEPT !.slot = s + 1]
    <3>1. s \in Slots
      BY <1>3, <2>2 DEF LockSlot
    <3>2. st \in SearchStates
      <4>1. [search[q] EXCEPT !.step = "read", !.slot = 0] \in SearchStates
        BY <1>3, <1>0, NextSlot
      <4>2. ASSUME s # SlotCount
            PROVE  [search[q] EXCEPT !.slot = s + 1] \in SearchStates
        BY <1>3, <3>1, <4>2 DEF SearchStates, SlotAssumptions, Slots
      <4> QED
        BY <4>1, <4>2
    <3>3. st.step = "lock" => st.slot \in Slots
      BY <1>3, <3>1 DEF SearchStates, SlotAssumptions, Slots
    <3>4. st.step \in {"read", "unlock"} => st.slot + 1 \in Slots
      BY <1>3, <2>2, <3>1 DEF LockSlot, SearchStates, SlotAssumptions, Slots
    <3>5. search' = [search EXCEPT ![q] = st]
      BY <1>2, <2>2 DEF LockSlot
    <3>6. readers' \in [Slots -> SUBSET Searchers] /\ searches' \in Nat
      BY <1>2, <2>2, <3>1 DEF LockSlot, TypeOK
    <3> QED
      BY <3>2, <3>3, <3>4, <3>5, <3>6
  <2>3. CASE SearchBucket(q)
    <3>1. PICK h \in search[q].todo :
            search' = [search EXCEPT ![q].todo = @ \ {h},
                                     ![q].found = @ \cup {e \in index : e[1] = h}]
      BY <2>3 DEF SearchBucket
    <3> DEFINE st == [search[q] EXCEPT !.todo = @ \ {h},
                                       !.found = @ \cup {e \in index : e[1] = h}]
    <3>2. st \in SearchStates
      <4>1. {e \in index : e[1] = h} \in SUBSET (Hashes \X Docs)
        BY DEF TypeOK
      <4> QED
        BY <1>3, <4>1 DEF SearchStates
    <3>3. search' = [search EXCEPT ![q] = st] /\ st.step = "read" /\ st.slot + 1 \in Slots
      BY <1>2, <1>3, <2>3, <3>1 DEF SearchBucket, SearchStates
    <3> QED
      BY <1>2, <2>3, <3>2, <3>3 DEF SearchBucket, TypeOK
  <2>4. CASE UnlockSlot(q)
    <3> DEFINE s == search[q].slot + 1
               st == IF s = SlotCount THEN [search[q] EXCEPT !.step = "done", !.slot = 0]
                                      ELSE [search[q] EXCEPT !.step = "unlock", !.slot = s]
    <3>1. s \in Slots
      BY <1>3, <2>4 DEF UnlockSlot
    <3>2. st \in SearchStates
      <4>1. [search[q] EXCEPT !.step = "done", !.slot = 0] \in SearchStates
        BY <1>3, <1>0, NextSlot
      <4>2. ASSUME s # SlotCount
            PROVE  [search[q] EXCEPT !.step = "unlock", !.slot = s] \in SearchStates
        BY <1>0, <1>3, <3>1, NextSlot
      <4> QED
        BY <4>1, <4>2
    <3>3. st.step # "lock" /\ st.step # "read" /\ (st.step = "unlock" => st.slot + 1 \in Slots)
      BY <1>3, <3>1 DEF SearchStates, SlotAssumptions, Slots
    <3>4. search' = [search EXCEPT ![q] = st]
      BY <1>2, <2>4 DEF UnlockSlot
    <3>5. readers' \in [Slots -> SUBSET Searchers] /\ searches' \in Nat
      BY <1>2, <2>4, <3>1 DEF UnlockSlot, TypeOK
    <3> QED
      BY <3>2, <3>3, <3>4, <3>5
  <2> QED
    BY <2>1, <2>2, <2>3, <2>4 DEF Search
<1>5. TypeOK'
  <2>1. /\ search' \in [Searchers -> SearchStates]
        /\ \A r \in Searchers :
             /\ search'[r].step = "lock" => search'[r].slot \in Slots
             /\ search'[r].step \in {"read", "unlock"} => search'[r].slot + 1 \in Slots
    BY <1>2, <1>4 DEF TypeOK
  <2>2. WorkerStates' = WorkerStates /\ Made' = Made
    BY <1>1 DEF WorkerStates, Made
  <2> QED
    BY <1>1, <1>4, <2>1, <2>2 DEF TypeOK
<1>6. HeldOnce' /\ FreedLast'
  BY <1>1 DEF HeldOnce, FreedLast, Made
<1>7. Counted'
  BY <1>1, SameCount DEF HandedTo, Made
<1> QED
  BY <1>5, <1>6, <1>7

-----------------------------------------------------------------------------
(* What the types say of a slot's thread and of its queue.                 *)
LEMMA SlotFacts ==
  ASSUME SlotAssumptions, TypeOK, NEW s \in Slots
  PROVE  /\ Len(payloads) \in Nat
         /\ queue[s] \in Seq(Made) /\ Len(queue[s]) \in Nat
         /\ \A i \in 1..Len(queue[s]) : queue[s][i] \in Made
         /\ worker[s] \in WorkerStates
         /\ worker[s].step = "idle" => worker[s] = IdleWorker
         /\ worker[s].step # "idle" =>
              /\ worker[s].step \in {"alter", "swap", "free"}
              /\ worker[s].payload \in Made
              /\ worker[s].todo \in SUBSET Hashes
              /\ worker[s].slots_left \in 0..SlotCount
              /\ worker[s] = [step |-> worker[s].step, payload |-> worker[s].payload,
                              todo |-> worker[s].todo, slots_left |-> worker[s].slots_left]
<1>1. payloads \in Seq(Payloads) /\ queue[s] \in Seq(Made) /\ worker[s] \in WorkerStates
  BY DEF TypeOK
<1>2. CASE worker[s] = IdleWorker
  BY <1>1, <1>2 DEF IdleWorker
<1>3. CASE worker[s] # IdleWorker
  <2>1. worker[s] \in [step : {"alter", "swap", "free"}, payload : Made, todo : SUBSET Hashes,
                       slots_left : 0..SlotCount]
    BY <1>1, <1>3 DEF WorkerStates
  <2> QED
    BY <1>1, <2>1
<1> QED
  BY <1>2, <1>3

LEMMA WiderSeq ==
  ASSUME NEW S, NEW T, S \subseteq T, NEW q \in Seq(S)
  PROVE  q \in Seq(T)
OBVIOUS

LEMMA NewPayloadStep ==
  ASSUME SlotAssumptions, Inv, NEW d \in Docs, NEW op \in {"Add", "Delete"},
         NewPayload(d, op), stored' \subseteq Docs
  PROVE  Inv'
<1> USE DEF Inv
<1>0. PICK n : n = Len(payloads) + 1
  OBVIOUS
<1> DEFINE new == [doc |-> d, op |-> op, slots_left |-> SlotCount, freed |-> 0]
<1>1. /\ Len(payloads) \in Nat /\ n \in Nat \ {0}
      /\ payloads' = Append(payloads, new) /\ payloads' \in Seq(Payloads) /\ Len(payloads') = n
      /\ payloads'[n] = new /\ \A p \in Made : payloads'[p] = payloads[p]
  <2>1. payloads \in Seq(Payloads) /\ new \in Payloads
    BY DEF TypeOK, Payloads, SlotAssumptions
  <2> QED
    BY <1>0, <2>1 DEF NewPayload, Made
<1>2. /\ Made' = Made \cup {n} /\ n \notin Made /\ 0 \notin Made'
      /\ adding = 0 /\ adding' = 1 /\ n # 0
      /\ UNCHANGED <<queue, worker, index, readers, search, searches>>
  BY <1>0, <1>1 DEF Made, NewPayload
<1>3. TypeOK'
  <2>1. queue' \in [Slots -> Seq(Made')] /\ worker' \in [Slots -> WorkerStates']
    <3>1. ASSUME NEW s \in Slots
          PROVE  queue[s] \in Seq(Made') /\ worker[s] \in WorkerStates'
      <4>1. queue[s] \in Seq(Made')
        <5>1. Made \subseteq Made' /\ queue[s] \in Seq(Made)
          BY <1>2, SlotFacts
        <5> QED
          BY <5>1, WiderSeq
      <4>2. worker[s] \in WorkerStates'
        BY <1>2, SlotFacts DEF WorkerStates
      <4> QED
        BY <4>1, <4>2
    <3>2. queue' = [s \in Slots |-> queue[s]] /\ worker' = [s \in Slots |-> worker[s]]
      BY <1>2 DEF TypeOK
    <3> QED
      BY <3>1, <3>2
  <2>2. adding' \in 0..SlotCount /\ payloads' # <<>>
    BY <1>1, <1>2 DEF SlotAssumptions
  <2> QED
    BY <1>1, <1>2, <2>1, <2>2 DEF TypeOK
<1>4. \A s \in Slots :
        /\ worker[s].payload # n
        /\ \A i \in 1..Len(queue[s]) : queue[s][i] # n
  <2>1. ASSUME NEW s \in Slots
        PROVE  worker[s].payload # n /\ \A i \in 1..Len(queue[s]) : queue[s][i] # n
    <3>1. worker[s].payload \in Made \cup {0} /\ \A i \in 1..Len(queue[s]) : queue[s][i] \in Made
      <4>1. CASE worker[s].step = "idle"
        <5>1. worker[s] = IdleWorker /\ \A i \in 1..Len(queue[s]) : queue[s][i] \in Made
          BY <4>1, SlotFacts
        <5> QED
          BY <5>1 DEF IdleWorker
      <4>2. CASE worker[s].step # "idle"
        BY <4>2, SlotFacts
      <4> QED
        BY <4>1, <4>2
    <3> QED
      BY <1>2, <3>1
  <2> QED
    BY <2>1
<1>5. HeldOnce'
  BY <1>1, <1>2, <1>4 DEF HeldOnce
<1>6. Counted'
  <2>1. ASSUME NEW p \in Made
        PROVE  payloads'[p].slots_left = Cardinality(Holders(p)')
    <3>1. \A s \in Slots : HandedTo(p, s)' <=> HandedTo(p, s)
      BY <1>1, <1>2 DEF HandedTo
    <3>2. Holders(p)' = Holders(p)
      BY <3>1 DEF Holders
    <3> QED
      BY <1>1, <3>2 DEF Counted
  <2>2. payloads'[n].slots_left = Cardinality(Holders(n)')
    <3>1. \A s \in Slots : HandedTo(n, s)'
      BY <1>1, <1>2 DEF HandedTo, Slots
    <3>2. Holders(n)' = Slots
      BY <3>1 DEF Holders
    <3> QED
      BY <1>1, <3>2, SlotsFinite
  <2> QED
    BY <1>2, <2>1, <2>2 DEF Counted
<1>7. FreedLast'
  <2>1. ASSUME NEW p \in Made'
        PROVE  /\ payloads'[p].freed <= 1
               /\ payloads'[p].freed = 1 => payloads'[p].slots_left = 0
               /\ \A s \in Slots : worker[s].step = "free" /\ worker[s].payload = p =>
                    /\ payloads'[p].slots_left = 0
                    /\ payloads'[p].freed = 0
                    /\ \A r \in Slots : worker[r].step = "free" /\ worker[r].payload = p => r = s
    <3>1. CASE p = n
      BY <1>1, <1>4, <3>1
    <3>2. CASE p \in Made
      BY <1>1, <3>2 DEF FreedLast
    <3> QED
      BY <1>2, <3>1, <3>2
  <2> QED
    BY <1>2, <2>1 DEF FreedLast
<1> QED
  BY <1>3, <1>5, <1>6, <1>7

LEMMA AddTaskStep == ASSUME SlotAssumptions, Inv, AddTask PROVE Inv'
<1> USE DEF Inv
<1>0. PICK n : n = Len(payloads)
  OBVIOUS
<1>1. /\ adding \in Slots /\ adding # 0 /\ n \in Made
      /\ UNCHANGED <<stored, payloads, worker, index, readers, search, searches>>
      /\ Made' = Made /\ WorkerStates' = WorkerStates
  <2>1. payloads \in Seq(Payloads) /\ payloads # <<>>
    BY DEF AddTask, TypeOK, Slots
  <2> QED
    BY <1>0, <2>1 DEF AddTask, Made, WorkerStates, Slots
<1>2. /\ queue \in [Slots -> Seq(Made)]
      /\ queue' = [queue EXCEPT ![adding] = Append(@, n)]
      /\ queue' \in [Slots -> Seq(Made)]
  BY <1>0, <1>1 DEF AddTask, TypeOK
<1>3. /\ adding' \in 0..SlotCount
      /\ \A s \in Slots : adding' # 0 /\ s >= adding' <=> s >= adding /\ s # adding
  BY <1>1 DEF AddTask, Slots, SlotAssumptions
<1>4. TypeOK'
  BY <1>1, <1>2, <1>3 DEF TypeOK
<1>5. /\ queue'[adding] = Append(queue[adding], n)
      /\ \A s \in Slots \ {adding} : queue'[s] = queue[s]
  BY <1>1, <1>2
<1>6. /\ Len(queue[adding]) \in Nat
      /\ Len(queue'[adding]) = Len(queue[adding]) + 1
      /\ queue'[adding][Len(queue[adding]) + 1] = n
      /\ \A i \in 1..Len(queue[adding]) : queue'[adding][i] = queue[adding][i]
  BY <1>1, <1>5, SlotFacts
<1>7. 1..Len(queue'[adding]) = 1..Len(queue[adding]) \cup {Len(queue[adding]) + 1}
  BY <1>6
<1>8. HeldOnce'
  <2>1. ASSUME NEW s \in Slots, s # adding
        PROVE  /\ \A i, j \in 1..Len(queue'[s]) : queue'[s][i] = queue'[s][j] => i = j
               /\ worker[s].step # "idle" => \A i \in 1..Len(queue'[s]) : queue'[s][i] # worker[s].payload
               /\ adding' # 0 /\ s >= adding' =>
                    /\ worker[s].payload # n
                    /\ \A i \in 1..Len(queue'[s]) : queue'[s][i] # n
    BY <1>0, <1>1, <1>3, <1>5, <2>1 DEF HeldOnce
  <2>2. /\ worker[adding].payload # n
        /\ \A i \in 1..Len(queue[adding]) : queue[adding][i] # n
    BY <1>0, <1>1 DEF HeldOnce, Slots, SlotAssumptions
  <2>3. \A i, j \in 1..Len(queue'[adding]) : queue'[adding][i] = queue'[adding][j] => i = j
    BY <1>1, <1>6, <1>7, <2>2 DEF HeldOnce
  <2>4. worker[adding].step # "idle" =>
          \A i \in 1..Len(queue'[adding]) : queue'[adding][i] # worker[adding].payload
    BY <1>1, <1>6, <1>7, <2>2 DEF HeldOnce
  <2>5. ~(adding' # 0 /\ adding >= adding')
    BY <1>1, <1>3
  <2> QED
    BY <1>0, <1>1, <2>1, <2>3, <2>4, <2>5 DEF HeldOnce
<1>9. Counted'
  <2>1. ASSUME NEW p \in Made, NEW s \in Slots
        PROVE  HandedTo(p, s)' <=> HandedTo(p, s)
    <3>1. CASE s # adding
      BY <1>0, <1>1, <1>3, <1>5, <3>1 DEF HandedTo
    <3>2. CASE s = adding
      <4>1. (\E i \in 1..Len(queue'[s]) : queue'[s][i] = p) <=>
              p = n \/ \E i \in 1..Len(queue[s]) : queue[s][i] = p
        BY <1>6, <1>7, <3>2
      <4>2. s >= adding /\ ~(adding' # 0 /\ s >= adding')
        BY <1>1, <1>3, <3>2 DEF Slots
      <4> QED
        BY <1>0, <1>1, <3>2, <4>1, <4>2 DEF HandedTo
    <3> QED
      BY <3>1, <3>2
  <2> QED
    BY <1>1, <2>1, SameCount
<1>10. FreedLast'
  BY <1>1 DEF FreedLast
<1> QED
  BY <1>4, <1>8, <1>9, <1>10

(* A step that changes the state of one slot's thread and nothing else of  *)
(* what the invariant speaks of.                                           *)
LEMMA WorkerStep ==
  ASSUME SlotAssumptions, Inv, NEW s \in Slots, NEW w,
         w \in WorkerStates, w.step \in {"alter", "swap"}, worker[s].step \in {"alter", "swap"},
         w.payload = worker[s].payload, worker' = [worker EXCEPT ![s] = w],
         index' \subseteq Hashes \X Docs,
         UNCHANGED <<stored, payloads, adding, queue, readers, search, searches>>
  PROVE  Inv'
<1> USE DEF Inv
<1>1. Made' = Made /\ WorkerStates' = WorkerStates
  BY DEF Made, WorkerStates
<1>2. worker'[s] = w /\ \A r \in Slots \ {s} : worker'[r] = worker[r]
  BY DEF TypeOK
<1>3. TypeOK'
  <2>1. worker' \in [Slots -> WorkerStates]
    BY DEF TypeOK
  <2> QED
    BY <1>1, <2>1 DEF TypeOK
<1>4. \A r \in Slots : /\ worker'[r].payload = worker[r].payload
                       /\ worker'[r].step = "idle" <=> worker[r].step = "idle"
                       /\ worker'[r].step = "free" <=> worker[r].step = "free"
                       /\ worker'[r].step \in {"alter", "swap"} <=> worker[r].step \in {"alter", "swap"}
  <2>1. ASSUME NEW r \in Slots, r = s
        PROVE  /\ worker'[r].payload = worker[r].payload
               /\ worker'[r].step = "idle" <=> worker[r].step = "idle"
               /\ worker'[r].step = "free" <=> worker[r].step = "free"
               /\ worker'[r].step \in {"alter", "swap"} <=> worker[r].step \in {"alter", "swap"}
    BY <1>2, <2>1
  <2> QED
    BY <1>2, <2>1
<1>5. HeldOnce'
  BY <1>4 DEF HeldOnce
<1>6. Counted'
  BY <1>1, <1>4, SameCount DEF HandedTo
<1>7. FreedLast'
  BY <1>1, <1>4 DEF FreedLast
<1> QED
  BY <1>3, <1>5, <1>6, <1>7

LEMMA TakeTaskStep ==
  ASSUME SlotAssumptions, Inv, NEW s \in Slots, TakeTask(s)
  PROVE  Inv'
<1> USE DEF Inv
<1>0. PICK p : p = Head(queue[s])
  OBVIOUS
<1> DEFINE w == [step |-> "alter", payload |-> p, slots_left |-> 0,
                 todo |-> {h \in PostingHashes[payloads[p].doc] : SlotOf[h] = s}]
           L == Len(queue[s])
<1>1. /\ queue[s] \in Seq(Made) /\ queue[s] # <<>> /\ worker[s].step = "idle" /\ worker[s] = IdleWorker
      /\ queue' = [queue EXCEPT ![s] = Tail(@)]
      /\ worker' = [worker EXCEPT ![s] = w]
      /\ UNCHANGED <<stored, payloads, adding, index, readers, search, searches>>
      /\ Made' = Made /\ WorkerStates' = WorkerStates
  BY <1>0, SlotFacts DEF TakeTask, Made, WorkerStates
<1>2. /\ p = queue[s][1] /\ p \in Made /\ L \in Nat \ {0}
      /\ Tail(queue[s]) \in Seq(Made) /\ Len(Tail(queue[s])) = L - 1
      /\ \A i \in 1..(L - 1) : Tail(queue[s])[i] = queue[s][i + 1]
  BY <1>0, <1>1
<1>3. w \in WorkerStates
  <2>1. payloads[p].doc \in Docs
    <3>1. payloads[p] \in Payloads
      BY <1>2 DEF TypeOK, Made
    <3> QED
      BY <3>1 DEF Payloads
  <2>2. w.todo \in SUBSET Hashes
    BY <2>1 DEF SlotAssumptions
  <2> QED
    BY <1>2, <2>2 DEF WorkerStates, SlotAssumptions
<1>4. /\ worker'[s] = w /\ \A r \in Slots \ {s} : worker'[r] = worker[r]
      /\ queue'[s] = Tail(queue[s]) /\ \A r \in Slots \ {s} : queue'[r] = queue[r]
      /\ worker' \in [Slots -> WorkerStates] /\ queue' \in [Slots -> Seq(Made)]
  BY <1>1, <1>2, <1>3 DEF TypeOK
<1>5. TypeOK'
  BY <1>1, <1>4 DEF TypeOK
<1>6. HeldOnce'
  <2>1. \A i, j \in 1..(L - 1) : Tail(queue[s])[i] = Tail(queue[s])[j] => i = j
    <3>1. ASSUME NEW i \in 1..(L - 1), NEW j \in 1..(L - 1), Tail(queue[s])[i] = Tail(queue[s])[j]
          PROVE  i = j
      <4>1. i + 1 \in 1..L /\ j + 1 \in 1..L /\ queue[s][i + 1] = queue[s][j + 1]
        BY <1>2, <3>1
      <4>2. i + 1 = j + 1
        BY <4>1 DEF HeldOnce
      <4> QED
        BY <4>2
    <3> QED
      BY <3>1
  <2>2. \A i \in 1..(L - 1) : Tail(queue[s])[i] # p
    <3>1. ASSUME NEW i \in 1..(L - 1), Tail(queue[s])[i] = p
          PROVE  FALSE
      <4>1. i + 1 \in 1..L /\ 1 \in 1..L /\ queue[s][i + 1] = queue[s][1]
        BY <1>2, <3>1
      <4>2. i + 1 = 1
        BY <4>1 DEF HeldOnce
      <4> QED
        BY <4>2
    <3> QED
      BY <3>1
  <2>3. adding # 0 /\ s >= adding =>
          p # Len(payloads) /\ \A i \in 1..(L - 1) : Tail(queue[s])[i] # Len(payloads)
    <3>1. 1 \in 1..L /\ \A i \in 1..(L - 1) : i + 1 \in 1..L
      BY <1>2
    <3> QED
      BY <1>2, <3>1 DEF HeldOnce
  <2> QED
    BY <1>1, <1>2, <1>4, <2>1, <2>2, <2>3 DEF HeldOnce
<1>7. Counted'
  <2>1. ASSUME NEW x \in Made, NEW r \in Slots
        PROVE  HandedTo(x, r)' <=> HandedTo(x, r)
    <3>1. CASE r # s
      BY <1>1, <1>4, <3>1 DEF HandedTo
    <3>2. CASE r = s
      <4>1. (\E i \in 1..L : queue[s][i] = x) <=>
              p = x \/ \E i \in 1..(L - 1) : Tail(queue[s])[i] = x
        <5>1. ASSUME NEW i \in 1..L, queue[s][i] = x
              PROVE  p = x \/ \E j \in 1..(L - 1) : Tail(queue[s])[j] = x
          <6>1. CASE i = 1
            BY <1>2, <5>1, <6>1
          <6>2. CASE i # 1
            <7>1. i - 1 \in 1..(L - 1) /\ (i - 1) + 1 = i
              BY <1>2, <6>2
            <7>2. Tail(queue[s])[i - 1] = x
              BY <1>2, <5>1, <7>1
            <7> QED
              BY <7>1, <7>2
          <6> QED
            BY <6>1, <6>2
        <5>2. ASSUME NEW j \in 1..(L - 1), Tail(queue[s])[j] = x
              PROVE  \E i \in 1..L : queue[s][i] = x
          <6>1. j + 1 \in 1..L /\ queue[s][j + 1] = x
            BY <1>2, <5>2
          <6> QED
            BY <6>1
        <5>3. p = x => \E i \in 1..L : queue[s][i] = x
          <6>1. 1 \in 1..L
            BY <1>2
          <6> QED
            BY <1>2, <6>1
        <5> QED
          BY <5>1, <5>2, <5>3
      <4>2. worker'[s].payload = p /\ worker'[s].step = "alter" /\ worker[s].step = "idle"
        BY <1>1, <1>4
      <4>3. (\E i \in 1..Len(queue'[s]) : queue'[s][i] = x) <=>
              \E i \in 1..(L - 1) : Tail(queue[s])[i] = x
        BY <1>2, <1>4
      <4> QED
        BY <1>1, <3>2, <4>1, <4>2, <4>3 DEF HandedTo
    <3> QED
      BY <3>1, <3>2
  <2> QED
    BY <1>1, <2>1, SameCount
<1>8. FreedLast'
  <2>1. \A r \in Slots : worker'[r].step = "free" <=> worker[r].step = "free" /\ r # s
    BY <1>1, <1>4
  <2> QED
    BY <1>1, <1>4, <2>1 DEF FreedLast
<1> QED
  BY <1>5, <1>6, <1>7, <1>8

LEMMA AlterBucketStep ==
  ASSUME SlotAssumptions, Inv, NEW s \in Slots, AlterBucket(s) \/ ReadSlotsLeft(s)
  PROVE  Inv'
<1> USE DEF Inv
<1>1. /\ worker[s].step = "alter" /\ worker[s] \in WorkerStates /\ worker[s].payload \in Made
      /\ worker[s].todo \in SUBSET Hashes /\ worker[s].slots_left \in 0..SlotCount
      /\ worker[s] = [step |-> worker[s].step, payload |-> worker[s].payload,
                      todo |-> worker[s].todo, slots_left |-> worker[s].slots_left]
  BY SlotFacts DEF AlterBucket, ReadSlotsLeft
<1>2. payloads[worker[s].payload] \in Payloads
  BY <1>1 DEF TypeOK, Made
<1>3. CASE AlterBucket(s)
  <2>1. PICK h \in worker[s].todo :
          /\ index' = IF payloads[worker[s].payload].op = "Add"
                         THEN index \cup {<<h, payloads[worker[s].payload].doc>>}
                         ELSE index \ {<<h, payloads[worker[s].payload].doc>>}
          /\ worker' = [worker EXCEPT ![s].todo = @ \ {h}]
    BY <1>3 DEF AlterBucket
  <2> DEFINE w == [worker[s] EXCEPT !.todo = @ \ {h}]
  <2>2. index' \subseteq Hashes \X Docs
    <3>1. h \in Hashes /\ payloads[worker[s].payload].doc \in Docs /\ index \subseteq Hashes \X Docs
      BY <1>1, <1>2 DEF TypeOK, Payloads
    <3> QED
      BY <2>1, <3>1
  <2>3. w \in WorkerStates /\ w.step = "alter" /\ w.payload = worker[s].payload
    BY <1>1 DEF WorkerStates
  <2>4. worker' = [worker EXCEPT ![s] = w]
    BY <2>1 DEF TypeOK
  <2> QED
    BY <1>1, <1>3, <2>2, <2>3, <2>4, WorkerStep DEF AlterBucket
<1>4. CASE ReadSlotsLeft(s)
  <2> DEFINE w == [worker[s] EXCEPT !.step = "swap",
                                    !.slots_left = payloads[worker[s].payload].slots_left]
  <2>1. w \in WorkerStates /\ w.step = "swap" /\ w.payload = worker[s].payload
    BY <1>1, <1>2 DEF WorkerStates, Payloads
  <2>2. worker' = [worker EXCEPT ![s] = w]
    BY <1>4 DEF ReadSlotsLeft, TypeOK
  <2>3. index' \subseteq Hashes \X Docs
    BY <1>4 DEF ReadSlotsLeft, TypeOK
  <2> QED
    BY <1>1, <1>4, <2>1, <2>2, <2>3, WorkerStep DEF ReadSlotsLeft
<1> QED
  BY <1>3, <1>4

(* The swap that succeeds takes the slot off the count and off the holders *)
(* of its payload.                                                         *)
LEMMA SwapSlotsLeftStep ==
  ASSUME SlotAssumptions, Inv, NEW s \in Slots, SwapSlotsLeft(s)
  PROVE  Inv'
<1> USE DEF Inv
<1>0. PICK p, o : p = worker[s].payload /\ o = worker[s].slots_left
  OBVIOUS
<1>1. /\ worker[s].step = "swap" /\ worker[s] \in WorkerStates /\ p \in Made
      /\ worker[s].todo \in SUBSET Hashes /\ o \in 0..SlotCount
      /\ worker[s] = [step |-> worker[s].step, payload |-> p,
                      todo |-> worker[s].todo, slots_left |-> o]
      /\ UNCHANGED <<stored, adding, queue, index, readers, search, searches>>
  BY <1>0, SlotFacts DEF SwapSlotsLeft
<1>2. /\ payloads \in Seq(Payloads) /\ payloads[p] \in Payloads
      /\ payloads[p].slots_left \in 0..SlotCount /\ payloads[p].freed \in Nat
  <2>1. payloads \in Seq(Payloads) /\ payloads[p] \in Payloads
    BY <1>1 DEF TypeOK, Made
  <2> QED
    BY <2>1 DEF Payloads
<1>3. CASE payloads[p].slots_left # o
  <2> DEFINE w == [worker[s] EXCEPT !.slots_left = payloads[p].slots_left]
  <2>1. w \in WorkerStates /\ w.step = "swap" /\ w.payload = worker[s].payload
    BY <1>1, <1>2 DEF WorkerStates
  <2>2. worker' = [worker EXCEPT ![s] = w] /\ UNCHANGED payloads
    BY <1>0, <1>3 DEF SwapSlotsLeft, TypeOK
  <2>3. index' \subseteq Hashes \X Docs
    BY <1>1 DEF TypeOK
  <2> QED
    BY <1>1, <2>1, <2>2, <2>3, WorkerStep
<1>4. CASE payloads[p].slots_left = o
  <2> DEFINE w == IF o = 1 THEN [worker[s] EXCEPT !.step = "free"] ELSE IdleWorker
  <2>1. worker' = [worker EXCEPT ![s] = w] /\ payloads' = [payloads EXCEPT ![p].slots_left = o - 1]
    BY <1>0, <1>4 DEF SwapSlotsLeft, TypeOK
  <2>2. /\ s \in Holders(p) /\ Holders(p) \in SUBSET Slots
        /\ o = Cardinality(Holders(p)) /\ o \in 1..SlotCount
    <3>1. s \in Holders(p) /\ Holders(p) \in SUBSET Slots
      BY <1>0, <1>1 DEF Holders, HandedTo
    <3>2. o = Cardinality(Holders(p)) /\ o # 0
      BY <1>1, <1>4, <3>1, SlotsFinite DEF Counted
    <3> QED
      BY <1>1, <3>1, <3>2 DEF SlotAssumptions
  <2>3. /\ payloads' \in Seq(Payloads) /\ Len(payloads') = Len(payloads)
        /\ payloads'[p].slots_left = o - 1 /\ payloads'[p].freed = payloads[p].freed
        /\ \A x \in Made \ {p} : payloads'[x] = payloads[x]
    <3>1. [payloads[p] EXCEPT !.slots_left = o - 1] \in Payloads
      <4>1. o - 1 \in 0..SlotCount
        BY <2>2 DEF SlotAssumptions
      <4> QED
        BY <1>2, <4>1 DEF Payloads
    <3>2. payloads' = [payloads EXCEPT ![p] = [payloads[p] EXCEPT !.slots_left = o - 1]]
      BY <1>1, <1>2, <2>1 DEF Made
    <3>3. payloads[p] = [doc |-> payloads[p].doc, op |-> payloads[p].op,
                         slots_left |-> payloads[p].slots_left, freed |-> payloads[p].freed]
      BY <1>2 DEF Payloads
    <3> QED
      BY <1>1, <1>2, <3>1, <3>2, <3>3 DEF Made
  <2>4. Made' = Made /\ WorkerStates' = WorkerStates
    BY <2>3 DEF Made, WorkerStates
  <2>5. w \in WorkerStates /\ (o = 1 => w.step = "free" /\ w.payload = p) /\ (o # 1 => w = IdleWorker)
    BY <1>1 DEF WorkerStates
  <2>6. /\ worker'[s] = w /\ \A r \in Slots \ {s} : worker'[r] = worker[r]
        /\ worker' \in [Slots -> WorkerStates]
    BY <2>1, <2>5 DEF TypeOK
  <2>7. TypeOK'
    <3>1. adding' # 0 => payloads' # <<>>
      BY <1>1, <2>3 DEF TypeOK
    <3> QED
      BY <1>1, <2>3, <2>4, <2>6, <3>1 DEF TypeOK
  <2>8. HeldOnce'
    <3>1. \A r \in Slots : /\ worker'[r].payload \in {worker[r].payload, 0}
                           /\ worker'[r].step # "idle" => worker'[r] = worker[r] \/ r = s
                           /\ worker'[r].step # "idle" => worker'[r].payload = worker[r].payload
                           /\ worker'[r].step # "idle" => worker[r].step # "idle"
      <4>1. ASSUME NEW r \in Slots, r = s
            PROVE  /\ worker'[r].payload \in {worker[r].payload, 0}
                   /\ worker'[r].step # "idle" => worker'[r].payload = worker[r].payload
                   /\ worker'[r].step # "idle" => worker[r].step # "idle"
        BY <1>0, <1>1, <2>5, <2>6, <4>1 DEF IdleWorker
      <4> QED
        BY <2>6, <4>1
    <3>2. adding # 0 => Len(payloads) # 0
      BY <1>2 DEF TypeOK
    <3> QED
      BY <1>1, <2>3, <3>1, <3>2 DEF HeldOnce
  <2>9. Counted'
    <3>1. ASSUME NEW x \in Made, NEW r \in Slots, x # p \/ r # s
          PROVE  HandedTo(x, r)' <=> HandedTo(x, r)
      <4>1. CASE r # s
        BY <1>1, <2>3, <2>6, <4>1 DEF HandedTo
      <4>2. CASE r = s
        <5>1. ~(worker[s].payload = x) /\ ~(worker'[s].payload = x /\ worker'[s].step \in {"alter", "swap"})
          BY <1>0, <2>5, <2>6, <3>1, <4>2 DEF IdleWorker
        <5> QED
          BY <1>1, <2>3, <4>2, <5>1 DEF HandedTo
      <4> QED
        BY <4>1, <4>2
    <3>2. ~HandedTo(p, s)'
      <4>1. worker'[s].step \notin {"alter", "swap"}
        BY <2>5, <2>6 DEF IdleWorker
      <4>2. \A i \in 1..Len(queue[s]) : queue[s][i] # p
        BY <1>0, <1>1 DEF HeldOnce
      <4>3. ~(adding # 0 /\ p = Len(payloads) /\ s >= adding)
        BY <1>0, <1>1 DEF HeldOnce
      <4> QED
        BY <1>1, <2>3, <4>1, <4>2, <4>3 DEF HandedTo
    <3>3. Holders(p)' = Holders(p) \ {s} /\ \A x \in Made \ {p} : Holders(x)' = Holders(x)
      BY <1>1, <3>1, <3>2 DEF Holders
    <3>4. Cardinality(Holders(p) \ {s}) = o - 1
      BY <2>2, SlotsFinite, FS_RemoveElement
    <3> QED
      BY <2>3, <2>4, <3>3, <3>4 DEF Counted
  <2>10. FreedLast'
    <3>1. payloads[p].freed = 0 /\ \A r \in Slots : ~(worker[r].step = "free" /\ worker[r].payload = p)
      BY <1>1, <1>2, <1>4, <2>2 DEF FreedLast
    <3>2. ASSUME NEW x \in Made
          PROVE  /\ payloads'[x].freed <= 1
                 /\ payloads'[x].freed = 1 => payloads'[x].slots_left = 0
                 /\ \A r \in Slots : worker'[r].step = "free" /\ worker'[r].payload = x =>
                      /\ payloads'[x].slots_left = 0
                      /\ payloads'[x].freed = 0
                      /\ \A t \in Slots : worker'[t].step = "free" /\ worker'[t].payload = x => t = r
      <4>1. CASE x = p
        <5>1. \A r \in Slots : worker'[r].step = "free" /\ worker'[r].payload = p => r = s /\ o = 1
          BY <2>5, <2>6, <3>1 DEF IdleWorker
        <5> QED
          BY <2>3, <3>1, <4>1, <5>1
      <4>2. CASE x # p
        <5>1. \A r \in Slots : worker'[r].step = "free" /\ worker'[r].payload = x =>
                worker'[r] = worker[r]
          <6>1. ~(worker'[s].step = "free" /\ worker'[s].payload = x)
            BY <2>5, <2>6, <4>2 DEF IdleWorker
          <6> QED
            BY <2>6, <6>1
        <5> QED
          BY <2>3, <4>2, <5>1 DEF FreedLast
      <4> QED
        BY <4>1, <4>2
    <3> QED
      BY <2>4, <3>2 DEF FreedLast
  <2> QED
    BY <2>7, <2>8, <2>9, <2>10
<1> QED
  BY <1>3, <1>4

LEMMA FreePayloadStep ==
  ASSUME SlotAssumptions, Inv, NEW s \in Slots, FreePayload(s)
  PROVE  Inv'
<1> USE DEF Inv
<1>0. PICK p : p = worker[s].payload
  OBVIOUS
<1>1. /\ worker[s].step = "free" /\ p \in Made
      /\ payloads' = [payloads EXCEPT ![p].freed = @ + 1]
      /\ worker' = [worker EXCEPT ![s] = IdleWorker]
      /\ UNCHANGED <<stored, adding, queue, index, readers, search, searches>>
  BY <1>0, SlotFacts DEF FreePayload
<1>2. payloads \in Seq(Payloads) /\ payloads[p] \in Payloads
  BY <1>1 DEF TypeOK, Made
<1>3. payloads[p].freed = 0 /\ payloads[p].slots_left = 0
  BY <1>0, <1>1 DEF FreedLast
<1>4. /\ payloads' \in Seq(Payloads) /\ Len(payloads') = Len(payloads)
      /\ payloads'[p].freed = 1 /\ payloads'[p].slots_left = 0
      /\ \A x \in Made \ {p} : payloads'[x] = payloads[x]
  <2>1. [payloads[p] EXCEPT !.freed = 1] \in Payloads
    BY <1>2 DEF Payloads
  <2>2. payloads' = [payloads EXCEPT ![p] = [payloads[p] EXCEPT !.freed = 1]]
    BY <1>1, <1>2, <1>3 DEF Made
  <2>3. payloads[p] = [doc |-> payloads[p].doc, op |-> payloads[p].op,
                       slots_left |-> payloads[p].slots_left, freed |-> payloads[p].freed]
    BY <1>2 DEF Payloads
  <2> QED
    BY <1>1, <1>2, <1>3, <2>1, <2>2, <2>3 DEF Made
<1>5. Made' = Made /\ WorkerStates' = WorkerStates
  BY <1>4 DEF Made, WorkerStates
<1>6. /\ worker'[s] = IdleWorker /\ \A r \in Slots \ {s} : worker'[r] = worker[r]
      /\ worker' \in [Slots -> WorkerStates]
  BY <1>1 DEF TypeOK, WorkerStates
<1>7. TypeOK'
  <2>1. adding' # 0 => payloads' # <<>>
    BY <1>1, <1>4 DEF TypeOK
  <2> QED
    BY <1>1, <1>4, <1>5, <1>6, <2>1 DEF TypeOK
<1>8. worker'[s].step = "idle" /\ worker'[s].payload = 0
  BY <1>6 DEF IdleWorker
<1>9. HeldOnce'
  <2>1. adding # 0 => Len(payloads) # 0
    BY <1>2 DEF TypeOK
  <2>2. \A r \in Slots : worker'[r] = worker[r] \/ (worker'[r].step = "idle" /\ worker'[r].payload = 0)
    BY <1>6, <1>8
  <2> QED
    BY <1>1, <1>4, <2>1, <2>2 DEF HeldOnce
<1>10. Counted'
  <2>1. \A x \in Made, r \in Slots : HandedTo(x, r)' <=> HandedTo(x, r)
    BY <1>1, <1>4, <1>6, <1>8 DEF HandedTo
  <2>2. \A x \in Made : payloads'[x].slots_left = payloads[x].slots_left
    BY <1>3, <1>4
  <2> QED
    BY <1>5, <2>1, <2>2, SameCount
<1>11. FreedLast'
  <2>1. \A r \in Slots : worker'[r].step = "free" =>
          r # s /\ worker'[r] = worker[r] /\ worker[r].payload # p
    BY <1>0, <1>1, <1>6, <1>8 DEF FreedLast
  <2>2. ASSUME NEW x \in Made
        PROVE  /\ payloads'[x].freed <= 1
               /\ payloads'[x].freed = 1 => payloads'[x].slots_left = 0
               /\ \A r \in Slots : worker'[r].step = "free" /\ worker'[r].payload = x =>
                    /\ payloads'[x].slots_left = 0
                    /\ payloads'[x].freed = 0
                    /\ \A t \in Slots : worker'[t].step = "free" /\ worker'[t].payload = x => t = r
    <3>1. CASE x = p
      BY <1>4, <2>1, <3>1
    <3>2. CASE x # p
      BY <1>4, <2>1, <3>2 DEF FreedLast
    <3> QED
      BY <3>1, <3>2
  <2> QED
    BY <1>5, <2>2 DEF FreedLast
<1> QED
  BY <1>7, <1>9, <1>10, <1>11

LEMMA InvPreserved == ASSUME SlotAssumptions, Inv, [Next]_vars PROVE Inv'
<1>1. CASE UNCHANGED vars
  <2>1. UNCHANGED <<stored, payloads, adding, queue, worker, index, readers, search, searches>>
    BY <1>1 DEF vars
  <2>2. Made' = Made /\ WorkerStates' = WorkerStates
    BY <2>1 DEF Made, WorkerStates
  <2>3. TypeOK'
    BY <2>1, <2>2 DEF Inv, TypeOK
  <2>4. HeldOnce' /\ FreedLast'
    BY <2>1, <2>2 DEF Inv, HeldOnce, FreedLast
  <2>5. Counted'
    BY <2>1, <2>2, SameCount DEF Inv, HandedTo
  <2> QED
    BY <2>3, <2>4, <2>5 DEF Inv
<1>2. CASE Process
  <2>1. ASSUME NEW d \in Docs \ stored, NewPayload(d, "Add"), stored' = stored \cup {d}
        PROVE  Inv'
    BY <2>1, NewPayloadStep DEF Inv, TypeOK
  <2>2. ASSUME NEW d \in stored, NewPayload(d, "Delete"), stored' = stored \ {d}
        PROVE  Inv'
    <3>1. d \in Docs /\ stored' \subseteq Docs
      BY <2>2 DEF Inv, TypeOK
    <3> QED
      BY <2>2, <3>1, NewPayloadStep
  <2> QED
    BY <1>2, <2>1, <2>2, AddTaskStep DEF Process, AddDocument, DeleteDocument
<1>3. ASSUME NEW s \in Slots, Work(s)
      PROVE  Inv'
  BY <1>3, TakeTaskStep, AlterBucketStep, SwapSlotsLeftStep, FreePayloadStep DEF Work
<1>4. ASSUME NEW q \in Searchers, BeginSearch(q) \/ Search(q)
      PROVE  Inv'
  BY <1>4, SearchStep
<1> QED
  BY <1>1, <1>2, <1>3, <1>4 DEF Next

-----------------------------------------------------------------------------
(* The payload is freed once, by the last of the slots that work on it,    *)
(* however their threads interleave (task.cc:19-25, 43-48).                *)
THEOREM PayloadFreedLast == ASSUME SlotAssumptions PROVE Spec => []PayloadOutlivesTasks
<1>1. Inv => PayloadOutlivesTasks
  <2>1. ASSUME Inv, NEW p \in Made, payloads[p].freed = 1, NEW s \in Slots
        PROVE  ~HandedTo(p, s) /\ worker[s].payload # p
    <3>1. payloads[p].slots_left = 0
      BY <2>1 DEF Inv, FreedLast
    <3>2. Holders(p) \in SUBSET Slots /\ Cardinality(Holders(p)) = 0
      BY <2>1, <3>1 DEF Inv, Counted, Holders
    <3>3. ~HandedTo(p, s)
      BY <3>2, SlotsFinite DEF Holders
    <3>4. worker[s].step \notin {"alter", "swap"} \/ worker[s].payload # p
      BY <3>3 DEF HandedTo
    <3>5. worker[s].step = "free" => worker[s].payload # p
      BY <2>1 DEF Inv, FreedLast
    <3>6. worker[s].step = "idle" => worker[s].payload # p
      <4>1. worker[s].step = "idle" => worker[s] = IdleWorker
        BY <2>1, SlotFacts DEF Inv
      <4> QED
        BY <4>1 DEF IdleWorker, Made
    <3> QED
      BY <2>1, <3>3, <3>4, <3>5, <3>6, SlotFacts DEF Inv
  <2> QED
    BY <2>1 DEF PayloadOutlivesTasks, Inv, FreedLast
<1> QED
  BY <1>1, InvInitial, InvPreserved, PTL DEF Spec

-----------------------------------------------------------------------------
(***************************************************************************)
(* Second part.  What the index holds and what a search reads of it.       *)
(***************************************************************************)

(* A search that takes the locks has taken those of the slots behind it,   *)
(* one that reads holds them all, one that gives them back still holds     *)
(* those of the slots before it.                                           *)
HoldsLocks(q) ==
  /\ search[q].step = "lock" => \A s \in Slots : s < search[q].slot => q \in readers[s]
  /\ search[q].step = "read" => \A s \in Slots : q \in readers[s]

(* It has read nothing before it holds them.                               *)
UnreadYet(q) ==
  search[q].step = "lock" => search[q].todo = Hashes /\ search[q].found = {}

Unread(q) == {e \in index : e[1] \notin search[q].todo}

Consistent(q) ==
  /\ HoldsLocks(q)
  /\ UnreadYet(q)
  /\ search[q].step = "read" => search[q].found = Unread(q)

SearchInv == \A q \in Searchers : Consistent(q)

-----------------------------------------------------------------------------
LEMMA SearchInvInitial == ASSUME Init PROVE SearchInv
  BY DEF Init, SearchInv, Consistent, HoldsLocks, UnreadYet, IdleSearch

(* A search that a step leaves alone stays consistent, if the step takes   *)
(* no lock from it and, while it reads, leaves the index alone too.        *)
LEMMA OthersConsistent ==
  ASSUME NEW q \in Searchers, Consistent(q), search'[q] = search[q],
         \A s \in Slots : q \in readers[s] => q \in readers'[s],
         search[q].step = "read" => index' = index
  PROVE  Consistent(q)'
<1>1. HoldsLocks(q)'
  BY DEF Consistent, HoldsLocks
<1>2. UnreadYet(q)'
  BY DEF Consistent, UnreadYet
<1>3. search[q].step = "read" => Unread(q)' = Unread(q)
  BY DEF Unread
<1> QED
  BY <1>1, <1>2, <1>3 DEF Consistent

(* While a search reads, no bucket of any slot is altered: the thread of   *)
(* the slot waits for the lock.                                            *)
LEMMA NoBucketAltered ==
  ASSUME SearchInv, NEW s \in Slots, AlterBucket(s), NEW q \in Searchers
  PROVE  search[q].step # "read"
  BY DEF SearchInv, Consistent, HoldsLocks, AlterBucket, WriterLock

LEMMA WorkConsistent ==
  ASSUME SearchInv, NEW s \in Slots, Work(s)
  PROVE  SearchInv'
<1>1. UNCHANGED <<readers, search>>
  BY DEF Work, TakeTask, AlterBucket, ReadSlotsLeft, SwapSlotsLeft, FreePayload
<1>2. index' = index \/ AlterBucket(s)
  BY DEF Work, TakeTask, ReadSlotsLeft, SwapSlotsLeft, FreePayload
<1>3. ASSUME NEW q \in Searchers
      PROVE  Consistent(q)'
  <2>1. search[q].step = "read" => index' = index
    BY <1>2, NoBucketAltered
  <2>2. Consistent(q)
    BY DEF SearchInv
  <2> QED
    BY <1>1, <2>1, <2>2, OthersConsistent
<1> QED
  BY <1>3 DEF SearchInv

(* The index as a search finds it when it has read no bucket.              *)
LEMMA NothingUnread ==
  ASSUME TypeOK, NEW q \in Searchers, search[q].todo = Hashes
  PROVE  Unread(q) = {}
<1>1. \A e \in index : e[1] \in Hashes
  BY DEF TypeOK
<1> QED
  BY <1>1 DEF Unread

LEMMA LockConsistent ==
  ASSUME SlotAssumptions, TypeOK, SearchInv, NEW q \in Searchers, LockSlot(q)
  PROVE  Consistent(q)'
<1> DEFINE s == search[q].slot
<1>1. /\ search[q].step = "lock" /\ s \in Slots
      /\ search \in [Searchers -> SearchStates] /\ readers \in [Slots -> SUBSET Searchers]
      /\ index' = index
  BY DEF LockSlot, TypeOK
<1>2. search[q].todo = Hashes /\ search[q].found = {}
  BY <1>1 DEF SearchInv, Consistent, UnreadYet
<1>3. \A r \in Slots : r < s \/ r = s => q \in readers'[r]
  <2>1. readers' = [readers EXCEPT ![s] = @ \cup {q}]
    BY DEF LockSlot
  <2>2. q \in readers'[s]
    BY <1>1, <2>1
  <2>3. \A r \in Slots : r < s => q \in readers[r]
    BY <1>1 DEF SearchInv, Consistent, HoldsLocks
  <2> QED
    BY <1>1, <2>1, <2>2, <2>3
<1>4. CASE s = SlotCount
  <2>1. search'[q] = [search[q] EXCEPT !.step = "read", !.slot = 0]
    BY <1>1, <1>4 DEF LockSlot
  <2>2. search'[q].step = "read" /\ search'[q].todo = Hashes /\ search'[q].found = {}
    BY <1>1, <1>2, <2>1 DEF SearchStates
  <2>3. \A r \in Slots : q \in readers'[r]
    BY <1>3, <1>4 DEF Slots, SlotAssumptions
  <2>4. Unread(q)' = {}
    <3>1. \A e \in index : e[1] \in Hashes
      BY DEF TypeOK
    <3> QED
      BY <1>1, <2>2, <3>1 DEF Unread
  <2> QED
    BY <2>2, <2>3, <2>4 DEF Consistent, HoldsLocks, UnreadYet
<1>5. CASE s # SlotCount
  <2>1. search'[q] = [search[q] EXCEPT !.slot = s + 1]
    BY <1>1, <1>5 DEF LockSlot
  <2>2. /\ search'[q].step = "lock" /\ search'[q].slot = s + 1
        /\ search'[q].todo = Hashes /\ search'[q].found = {}
    BY <1>1, <1>2, <2>1 DEF SearchStates
  <2>3. \A r \in Slots : r < s + 1 => q \in readers'[r]
    BY <1>1, <1>3 DEF Slots, SlotAssumptions
  <2> QED
    BY <2>2, <2>3 DEF Consistent, HoldsLocks, UnreadYet
<1> QED
  BY <1>4, <1>5

(* A bucket that is read adds to what was read the entries of the bucket.  *)
LEMMA ReadConsistent ==
  ASSUME TypeOK, SearchInv, NEW q \in Searchers, SearchBucket(q)
  PROVE  Consistent(q)'
<1>1. PICK h \in search[q].todo :
        search' = [search EXCEPT ![q].todo = @ \ {h},
                                 ![q].found = @ \cup {e \in index : e[1] = h}]
  BY DEF SearchBucket
<1>2. /\ search[q].step = "read" /\ search \in [Searchers -> SearchStates]
      /\ UNCHANGED <<readers, index>>
  BY DEF SearchBucket, TypeOK
<1>3. /\ search'[q].step = "read" /\ search'[q].todo = search[q].todo \ {h}
      /\ search'[q].found = search[q].found \cup {e \in index : e[1] = h}
  BY <1>1, <1>2 DEF SearchStates
<1>4. search[q].found = Unread(q) /\ \A r \in Slots : q \in readers[r]
  BY <1>2 DEF SearchInv, Consistent, HoldsLocks
<1>5. Unread(q)' = Unread(q) \cup {e \in index : e[1] = h}
  BY <1>1, <1>2, <1>3 DEF Unread
<1> QED
  BY <1>2, <1>3, <1>4, <1>5 DEF Consistent, HoldsLocks, UnreadYet

LEMMA UnlockConsistent ==
  ASSUME TypeOK, NEW q \in Searchers, UnlockSlot(q)
  PROVE  Consistent(q)'
<1>1. search[q] \in SearchStates /\ search \in [Searchers -> SearchStates]
  BY DEF TypeOK
<1>2. search'[q].step \in {"done", "unlock"}
  BY <1>1 DEF UnlockSlot, SearchStates
<1> QED
  BY <1>2 DEF Consistent, HoldsLocks, UnreadYet

LEMMA BeginConsistent ==
  ASSUME SlotAssumptions, TypeOK, NEW q \in Searchers, BeginSearch(q)
  PROVE  Consistent(q)'
<1>1. search'[q] = [step |-> "lock", slot |-> 1, todo |-> Hashes, found |-> {}]
  BY DEF BeginSearch, TypeOK
<1> QED
  BY <1>1 DEF Consistent, HoldsLocks, UnreadYet, Slots, SlotAssumptions

(* One search takes its own locks and gives back its own.                  *)
LEMMA SearchLeavesOthers ==
  ASSUME TypeOK, NEW q \in Searchers, BeginSearch(q) \/ Search(q), NEW r \in Searchers, r # q
  PROVE  /\ search'[r] = search[r] /\ index' = index
         /\ \A s \in Slots : r \in readers[s] => r \in readers'[s]
<1>1. search \in [Searchers -> SearchStates] /\ readers \in [Slots -> SUBSET Searchers]
  BY DEF TypeOK
<1>2. CASE BeginSearch(q)
  BY <1>1, <1>2 DEF BeginSearch
<1>3. CASE LockSlot(q)
  BY <1>1, <1>3 DEF LockSlot
<1>4. CASE SearchBucket(q)
  BY <1>1, <1>4 DEF SearchBucket
<1>5. CASE UnlockSlot(q)
  BY <1>1, <1>5 DEF UnlockSlot
<1> QED
  BY <1>2, <1>3, <1>4, <1>5 DEF Search

LEMMA SearchConsistent ==
  ASSUME SlotAssumptions, TypeOK, SearchInv,
         NEW q \in Searchers, BeginSearch(q) \/ Search(q)
  PROVE  SearchInv'
<1>1. Consistent(q)'
  BY BeginConsistent, LockConsistent, ReadConsistent, UnlockConsistent DEF Search
<1>2. ASSUME NEW r \in Searchers, r # q
      PROVE  Consistent(r)'
  <2>1. Consistent(r)
    BY DEF SearchInv
  <2> QED
    BY <1>2, <2>1, SearchLeavesOthers, OthersConsistent
<1> QED
  BY <1>1, <1>2 DEF SearchInv

LEMMA SearchInvPreserved ==
  ASSUME SlotAssumptions, TypeOK, SearchInv, [Next]_vars
  PROVE  SearchInv'
<1>1. ASSUME UNCHANGED <<readers, search, index>>
      PROVE  SearchInv'
  <2>1. ASSUME NEW q \in Searchers
        PROVE  Consistent(q)'
    <3>1. Consistent(q)
      BY DEF SearchInv
    <3> QED
      BY <1>1, <3>1, OthersConsistent
  <2> QED
    BY <2>1 DEF SearchInv
<1>2. Process \/ UNCHANGED vars => UNCHANGED <<readers, search, index>>
  BY DEF Process, AddDocument, DeleteDocument, NewPayload, AddTask, vars
<1> QED
  BY <1>1, <1>2, WorkConsistent, SearchConsistent DEF Next

(* What a search has read is what the index holds: no entry comes or goes  *)
(* under it, whatever the slots' threads do (posting.cc:381-391).          *)
THEOREM SearchIsAtomic == ASSUME SlotAssumptions PROVE Spec => []SearchSeesOneMoment
<1>1. SearchInv => SearchSeesOneMoment
  BY DEF SearchInv, Consistent, Unread, SearchSeesOneMoment
<1>2. Init => Inv /\ SearchInv
  BY InvInitial, SearchInvInitial
<1>3. Inv /\ SearchInv /\ [Next]_vars => (Inv /\ SearchInv)'
  BY InvPreserved, SearchInvPreserved DEF Inv
<1> QED
  BY <1>1, <1>2, <1>3, PTL DEF Spec

-----------------------------------------------------------------------------
(* Payload p has entry e still to be altered.                              *)
Due(p, e) ==
  /\ e[2] = payloads[p].doc
  /\ e[1] \in PostingHashes[e[2]]
  /\ \/ adding # 0 /\ p = Len(payloads) /\ SlotOf[e[1]] >= adding
     \/ \E i \in 1..Len(queue[SlotOf[e[1]]]) : queue[SlotOf[e[1]]][i] = p
     \/ /\ worker[SlotOf[e[1]]].step = "alter"
        /\ worker[SlotOf[e[1]]].payload = p
        /\ e[1] \in worker[SlotOf[e[1]]].todo

Entries == Hashes \X Docs

(* A slot's thread has only its own buckets to alter, of its document.     *)
TodoOK ==
  \A s \in Slots : worker[s].step = "alter" =>
    \A h \in worker[s].todo :
      SlotOf[h] = s /\ h \in PostingHashes[payloads[worker[s].payload].doc]

(* Additions and deletions are never due at the same time.                 *)
OneKind ==
  \A p \in Made, e \in Entries : Due(p, e) => payloads[p].op = payloads[Len(payloads)].op

Wanted(e) == e[2] \in stored /\ e[1] \in PostingHashes[e[2]]

DueTo(op, e) == \E p \in Made : payloads[p].op = op /\ Due(p, e)

(* The index, with what is due, is what the stored documents call for.     *)
Exact == \A e \in Entries : Wanted(e) <=> (e \in index \/ DueTo("Add", e)) /\ ~DueTo("Delete", e)

ContentsInv == TodoOK /\ OneKind /\ Exact

-----------------------------------------------------------------------------
LEMMA ContentsInitial == ASSUME Init PROVE ContentsInv
<1>1. Made = {}
  BY DEF Init, Made
<1>2. \A e \in Entries : ~Wanted(e) /\ ~DueTo("Add", e) /\ e \notin index
  BY <1>1 DEF Init, Wanted, DueTo
<1> QED
  BY <1>1, <1>2 DEF Init, ContentsInv, TodoOK, OneKind, Exact, IdleWorker

LEMMA EntryFacts ==
  ASSUME SlotAssumptions, NEW e \in Entries
  PROVE  e[1] \in Hashes /\ e[2] \in Docs /\ SlotOf[e[1]] \in Slots /\ e = <<e[1], e[2]>>
  BY DEF SlotAssumptions, Entries

(* With nothing handed out and every slot through, nothing is due.         *)
LEMMA NothingDue ==
  ASSUME SlotAssumptions, adding = 0, Settled, NEW p, NEW e \in Entries
  PROVE  ~Due(p, e)
<1>1. queue[SlotOf[e[1]]] = <<>> /\ worker[SlotOf[e[1]]] = IdleWorker
  BY EntryFacts DEF Settled
<1> QED
  BY <1>1 DEF Due, IdleWorker

(* What a queue holds with one more at its end, or with its first taken.   *)
LEMMA InAppended ==
  ASSUME NEW S, NEW seq \in Seq(S), NEW x, NEW p
  PROVE  (\E i \in 1..Len(Append(seq, x)) : Append(seq, x)[i] = p)
           <=> p = x \/ \E i \in 1..Len(seq) : seq[i] = p
<1>1. Len(Append(seq, x)) = Len(seq) + 1 /\ Len(seq) \in Nat
  OBVIOUS
<1>2. \A i \in 1..Len(seq) : Append(seq, x)[i] = seq[i] /\ i \in 1..(Len(seq) + 1)
  BY <1>1
<1>3. Append(seq, x)[Len(seq) + 1] = x /\ Len(seq) + 1 \in 1..(Len(seq) + 1)
  BY <1>1
<1>4. \A i \in 1..(Len(seq) + 1) : i \in 1..Len(seq) \/ i = Len(seq) + 1
  BY <1>1
<1> QED
  BY <1>1, <1>2, <1>3, <1>4

LEMMA HeadOrTail ==
  ASSUME NEW S, NEW seq \in Seq(S), seq # <<>>, NEW p
  PROVE  (\E i \in 1..Len(seq) : seq[i] = p)
           <=> p = Head(seq) \/ \E i \in 1..Len(Tail(seq)) : Tail(seq)[i] = p
<1>1. /\ Len(seq) \in Nat /\ Len(seq) # 0 /\ Len(Tail(seq)) = Len(seq) - 1
      /\ Head(seq) = seq[1] /\ 1 \in 1..Len(seq)
  OBVIOUS
<1>2. ASSUME NEW i \in 1..Len(Tail(seq))
      PROVE  i + 1 \in 1..Len(seq) /\ Tail(seq)[i] = seq[i + 1]
  BY <1>1
<1>3. ASSUME NEW i \in 1..Len(seq), i # 1
      PROVE  i - 1 \in 1..Len(Tail(seq)) /\ Tail(seq)[i - 1] = seq[i]
  <2>1. i - 1 \in 1..Len(Tail(seq)) /\ (i - 1) + 1 = i
    BY <1>1, <1>3
  <2> QED
    BY <1>2, <2>1
<1>4. ASSUME NEW i \in 1..Len(seq), seq[i] = p
      PROVE  p = Head(seq) \/ \E j \in 1..Len(Tail(seq)) : Tail(seq)[j] = p
  BY <1>1, <1>3, <1>4
<1>5. ASSUME NEW i \in 1..Len(Tail(seq)), Tail(seq)[i] = p
      PROVE  \E j \in 1..Len(seq) : seq[j] = p
  BY <1>2, <1>5
<1> QED
  BY <1>1, <1>4, <1>5

(* A step that leaves what is due and the index alone.                     *)
LEMMA DueKept ==
  ASSUME OneKind, Exact, UNCHANGED <<stored, index>>, Len(payloads') = Len(payloads),
         Len(payloads) \in Nat,
         \A p \in Made : payloads'[p].op = payloads[p].op,
         \A p \in Made, e \in Entries : Due(p, e)' <=> Due(p, e)
  PROVE  OneKind' /\ Exact'
<1>1. Made' = Made
  BY DEF Made
<1>2. \A op : \A e \in Entries : DueTo(op, e)' <=> DueTo(op, e)
  BY <1>1 DEF DueTo
<1>3. Exact'
  BY <1>2 DEF Exact, Wanted, Entries
<1>4. OneKind'
  <2>1. \A p \in Made : Len(payloads) \in Made
    BY DEF Made
  <2> QED
    BY <1>1, <2>1 DEF OneKind, Entries
<1> QED
  BY <1>3, <1>4

(* A new payload makes all the entries of its document due.                *)
LEMMA NewPayloadContents ==
  ASSUME SlotAssumptions, TypeOK, ContentsInv, NEW d \in Docs, NEW op \in {"Add", "Delete"},
         NewPayload(d, op),
         stored' = IF op = "Add" THEN stored \cup {d} ELSE stored \ {d}
  PROVE  ContentsInv'
<1>0. PICK n, new : /\ n = Len(payloads) + 1
                    /\ new = [doc |-> d, op |-> op, slots_left |-> SlotCount, freed |-> 0]
  OBVIOUS
<1>1. /\ adding = 0 /\ adding' = 1 /\ payloads' = Append(payloads, new)
      /\ UNCHANGED <<queue, worker, index>>
      /\ payloads \in Seq(Payloads) /\ Len(payloads) \in Nat
  BY <1>0 DEF NewPayload, TypeOK
<1>2. /\ Len(payloads') = n /\ payloads'[n] = new
      /\ \A p \in Made : payloads'[p] = payloads[p] /\ p # n
      /\ Made' = Made \cup {n} /\ n = Len(payloads) + 1
      /\ new.doc = d /\ new.op = op
  BY <1>0, <1>1 DEF Made
<1>3. TodoOK'
  <2>1. \A s \in Slots : worker[s].step = "alter" => worker[s].payload \in Made
    BY SlotFacts
  <2> QED
    BY <1>1, <1>2, <2>1 DEF ContentsInv, TodoOK
<1>4. \A p \in Made, e \in Entries : Due(p, e)' <=> Due(p, e)
  BY <1>1, <1>2 DEF Due
<1>5. \A e \in Entries : Due(n, e)' <=> e[2] = d /\ e[1] \in PostingHashes[d]
  <2>1. ASSUME NEW e \in Entries, e[2] = d, e[1] \in PostingHashes[d]
        PROVE  Due(n, e)'
    <3>1. SlotOf[e[1]] >= 1
      BY EntryFacts DEF Slots
    <3>2. adding' # 0 /\ n = Len(payloads') /\ SlotOf[e[1]] >= adding'
      BY <1>1, <1>2, <3>1
    <3>3. payloads'[n].doc = d
      BY <1>2
    <3> QED
      BY <2>1, <3>2, <3>3 DEF Due
  <2>2. payloads'[n].doc = d
    BY <1>2
  <2>3. \A e \in Entries : Due(n, e)' => e[2] = d /\ e[1] \in PostingHashes[e[2]]
    BY <2>2 DEF Due
  <2> QED
    BY <2>1, <2>3
<1>6. ASSUME NEW p \in Made, NEW e \in Entries, Due(p, e)
      PROVE  payloads[p].op = op
  <2>1. ~(payloads[Len(payloads)].op # op)
    <3>1. payloads # <<>>
      BY <1>1 DEF Made
    <3> QED
      BY <1>1, <1>6, <3>1, NothingDue DEF NewPayload
  <2> QED
    BY <1>6, <2>1 DEF ContentsInv, OneKind
<1>7. OneKind'
  <2>1. ASSUME NEW p \in Made', NEW e \in Entries, Due(p, e)'
        PROVE  payloads'[p].op = op
    BY <1>2, <1>4, <1>6, <2>1
  <2> QED
    BY <1>2, <2>1 DEF OneKind, Entries
<1>8. ASSUME NEW e \in Entries
      PROVE  DueTo(op, e)' <=> DueTo(op, e) \/ (e[2] = d /\ e[1] \in PostingHashes[d])
  BY <1>2, <1>4, <1>5 DEF DueTo
<1>9. ASSUME NEW o, o # op, NEW e \in Entries
      PROVE  ~DueTo(o, e)' /\ ~DueTo(o, e)
  <2>1. \A p \in Made : Due(p, e) => payloads[p].op = op
    BY <1>6
  <2>2. \A p \in Made' : Due(p, e)' => payloads'[p].op = op
    BY <1>2, <1>4, <2>1
  <2> QED
    BY <1>9, <2>1, <2>2 DEF DueTo
<1>10. Exact'
  <2>1. ASSUME NEW e \in Entries
        PROVE  Wanted(e)' <=> (e \in index' \/ DueTo("Add", e)') /\ ~DueTo("Delete", e)'
    <3>1. Wanted(e) <=> (e \in index \/ DueTo("Add", e)) /\ ~DueTo("Delete", e)
      BY DEF ContentsInv, Exact
    <3>2. CASE op = "Add"
      <4>1. ~DueTo("Delete", e)' /\ ~DueTo("Delete", e)
        BY <1>9, <3>2
      <4>2. DueTo("Add", e)' <=> DueTo("Add", e) \/ (e[2] = d /\ e[1] \in PostingHashes[d])
        BY <1>8, <3>2
      <4> QED
        BY <1>1, <3>1, <3>2, <4>1, <4>2 DEF Wanted
    <3>3. CASE op = "Delete"
      <4>1. ~DueTo("Add", e)' /\ ~DueTo("Add", e)
        BY <1>9, <3>3
      <4>2. DueTo("Delete", e)' <=> DueTo("Delete", e) \/ (e[2] = d /\ e[1] \in PostingHashes[d])
        BY <1>8, <3>3
      <4> QED
        BY <1>1, <3>1, <3>3, <4>1, <4>2 DEF Wanted
    <3> QED
      BY <3>2, <3>3
  <2> QED
    BY <2>1 DEF Exact, Entries
<1> QED
  BY <1>3, <1>7, <1>10 DEF ContentsInv

LEMMA AddTaskContents ==
  ASSUME SlotAssumptions, TypeOK, ContentsInv, AddTask
  PROVE  ContentsInv'
<1>1. /\ adding \in Slots /\ adding' = IF adding = SlotCount THEN 0 ELSE adding + 1
      /\ queue' = [queue EXCEPT ![adding] = Append(@, Len(payloads))]
      /\ UNCHANGED <<stored, payloads, worker, index>>
      /\ queue \in [Slots -> Seq(Made)] /\ Len(payloads) \in Nat
  BY DEF AddTask, TypeOK
<1>2. ASSUME NEW p \in Made, NEW s \in Slots
      PROVE  \/ adding' # 0 /\ p = Len(payloads) /\ s >= adding'
             \/ \E i \in 1..Len(queue'[s]) : queue'[s][i] = p
             <=>
             \/ adding # 0 /\ p = Len(payloads) /\ s >= adding
             \/ \E i \in 1..Len(queue[s]) : queue[s][i] = p
  <2>1. CASE s = adding
    <3>1. queue'[s] = Append(queue[s], Len(payloads)) /\ queue[s] \in Seq(Made)
      BY <1>1, <2>1
    <3>2. (\E i \in 1..Len(queue'[s]) : queue'[s][i] = p)
            <=> p = Len(payloads) \/ \E i \in 1..Len(queue[s]) : queue[s][i] = p
      BY <3>1, InAppended
    <3>3. adding # 0 /\ s >= adding /\ ~(adding' # 0 /\ s >= adding')
      BY <1>1, <2>1 DEF Slots, SlotAssumptions
    <3> QED
      BY <3>2, <3>3
  <2>2. CASE s # adding
    <3>1. queue'[s] = queue[s]
      BY <1>1, <2>2
    <3>2. adding # 0 /\ s >= adding <=> adding' # 0 /\ s >= adding'
      BY <1>1, <2>2 DEF Slots, SlotAssumptions
    <3> QED
      BY <3>1, <3>2
  <2> QED
    BY <2>1, <2>2
<1>3. \A p \in Made, e \in Entries : Due(p, e)' <=> Due(p, e)
  <2>1. ASSUME NEW p \in Made, NEW e \in Entries
        PROVE  Due(p, e)' <=> Due(p, e)
    <3>1. PICK s \in Slots : s = SlotOf[e[1]]
      BY EntryFacts
    <3>2. UNCHANGED <<payloads, worker>>
      BY <1>1
    <3> QED
      BY <1>2, <3>1, <3>2 DEF Due
  <2> QED
    BY <2>1
<1>4. TodoOK'
  BY <1>1 DEF ContentsInv, TodoOK
<1> QED
  BY <1>1, <1>3, <1>4, DueKept DEF ContentsInv

LEMMA TakeTaskContents ==
  ASSUME SlotAssumptions, TypeOK, ContentsInv, NEW s \in Slots, TakeTask(s)
  PROVE  ContentsInv'
<1> DEFINE todo == {h \in PostingHashes[payloads[Head(queue[s])].doc] : SlotOf[h] = s}
<1>1. /\ worker[s].step = "idle" /\ queue[s] # <<>>
      /\ queue' = [queue EXCEPT ![s] = Tail(@)]
      /\ worker' = [worker EXCEPT ![s] =
           [step |-> "alter", payload |-> Head(queue[s]), slots_left |-> 0, todo |-> todo]]
      /\ UNCHANGED <<stored, payloads, adding, index>>
      /\ queue \in [Slots -> Seq(Made)] /\ Len(payloads) \in Nat
  BY DEF TakeTask, TypeOK
<1>2. /\ queue'[s] = Tail(queue[s])
      /\ worker'[s].step = "alter" /\ worker'[s].payload = Head(queue[s]) /\ worker'[s].todo = todo
      /\ \A r \in Slots \ {s} : queue'[r] = queue[r] /\ worker'[r] = worker[r]
  BY <1>1 DEF TypeOK
<1>3. TodoOK'
  BY <1>1, <1>2 DEF ContentsInv, TodoOK
<1>4. ASSUME NEW p \in Made
      PROVE  (\E i \in 1..Len(queue[s]) : queue[s][i] = p)
               <=> p = Head(queue[s]) \/ \E i \in 1..Len(queue'[s]) : queue'[s][i] = p
  <2>1. queue[s] \in Seq(Made) /\ queue[s] # <<>> /\ queue'[s] = Tail(queue[s])
    BY <1>1, <1>2
  <2>2. PICK seq \in Seq(Made) : seq = queue[s]
    BY <2>1
  <2>3. (\E i \in 1..Len(seq) : seq[i] = p)
          <=> p = Head(seq) \/ \E i \in 1..Len(Tail(seq)) : Tail(seq)[i] = p
    BY <2>1, <2>2, HeadOrTail
  <2> QED
    BY <2>1, <2>2, <2>3
<1>5. ASSUME NEW p \in Made, NEW e \in Entries
      PROVE  Due(p, e)' <=> Due(p, e)
  <2>1. SlotOf[e[1]] \in Slots
    BY EntryFacts
  <2>2. CASE SlotOf[e[1]] # s
    BY <1>1, <1>2, <2>1, <2>2 DEF Due
  <2>3. CASE SlotOf[e[1]] = s
    <3>1. e[2] = payloads[p].doc /\ e[1] \in PostingHashes[e[2]] /\ p = Head(queue[s]) =>
            e[1] \in todo
      BY <2>3
    <3> QED
      BY <1>1, <1>2, <1>4, <2>3, <3>1 DEF Due
  <2> QED
    BY <2>2, <2>3
<1> QED
  BY <1>1, <1>3, <1>5, DueKept DEF ContentsInv

(* The entry that is altered is as the stored documents want it, since     *)
(* nothing of the other kind is due.                                       *)
LEMMA AlterBucketContents ==
  ASSUME SlotAssumptions, TypeOK, ContentsInv, NEW s \in Slots, AlterBucket(s)
  PROVE  ContentsInv'
<1>0. PICK p0, d0 : p0 = worker[s].payload /\ d0 = payloads[p0].doc
  OBVIOUS
<1>1. PICK h \in worker[s].todo :
        /\ index' = IF payloads[p0].op = "Add" THEN index \cup {<<h, d0>>} ELSE index \ {<<h, d0>>}
        /\ worker' = [worker EXCEPT ![s].todo = @ \ {h}]
  BY <1>0 DEF AlterBucket
<1>2. /\ worker[s].step = "alter" /\ p0 \in Made /\ h \in Hashes /\ d0 \in Docs
      /\ payloads[p0].op \in {"Add", "Delete"}
      /\ worker[s].payload = p0 /\ payloads[p0].doc = d0
      /\ UNCHANGED <<stored, payloads, adding, queue>> /\ Len(payloads) \in Nat
  <2>1. worker[s].step = "alter" /\ UNCHANGED <<stored, payloads, adding, queue>>
    BY DEF AlterBucket
  <2>2. p0 \in Made /\ worker[s].todo \subseteq Hashes /\ Len(payloads) \in Nat
    BY <1>0, <2>1, SlotFacts
  <2>3. payloads[p0] \in Payloads
    BY <2>2 DEF TypeOK, Made
  <2> QED
    BY <1>0, <1>1, <2>1, <2>2, <2>3 DEF Payloads
<1>3. /\ worker'[s].step = "alter" /\ worker'[s].payload = p0
      /\ worker'[s].todo = worker[s].todo \ {h}
      /\ \A r \in Slots \ {s} : worker'[r] = worker[r]
  <2>1. worker \in [Slots -> WorkerStates]
    BY DEF TypeOK
  <2>2. worker[s] = [step |-> worker[s].step, payload |-> p0, todo |-> worker[s].todo,
                     slots_left |-> worker[s].slots_left]
    BY <1>2, SlotFacts
  <2> QED
    BY <1>1, <1>2, <2>1, <2>2
<1>4. SlotOf[h] = s /\ h \in PostingHashes[d0]
  BY <1>2 DEF ContentsInv, TodoOK
<1>5. PICK e0 \in Entries : e0 = <<h, d0>>
  BY <1>2 DEF Entries
<1>6. ASSUME NEW p \in Made, NEW e \in Entries
      PROVE  /\ Due(p, e)' => Due(p, e)
             /\ e # e0 /\ Due(p, e) => Due(p, e)'
  <2>1. SlotOf[e[1]] \in Slots /\ e = <<e[1], e[2]>>
    BY EntryFacts
  <2>2. CASE SlotOf[e[1]] # s
    BY <1>2, <1>3, <2>1, <2>2 DEF Due
  <2>3. CASE SlotOf[e[1]] = s
    <3>1. Due(p, e)' => Due(p, e)
      BY <1>2, <1>3, <2>3 DEF Due
    <3>2. ASSUME e # e0, Due(p, e)
          PROVE  Due(p, e)'
      <4>1. p = p0 => e[1] # h
        BY <1>2, <1>5, <2>1, <3>2 DEF Due
      <4> QED
        BY <1>2, <1>3, <2>3, <3>2, <4>1 DEF Due
    <3> QED
      BY <3>1, <3>2
  <2> QED
    BY <2>2, <2>3
<1>7. Made' = Made /\ Due(p0, e0)
  BY <1>2, <1>4, <1>5 DEF Made, Due
<1>8. OneKind'
  <2>1. ASSUME NEW p \in Made, NEW e \in Entries, Due(p, e)'
        PROVE  payloads[p].op = payloads[Len(payloads)].op
    BY <1>6, <2>1 DEF ContentsInv, OneKind
  <2> QED
    BY <1>2, <1>7, <2>1 DEF OneKind, Entries
<1>9. TodoOK'
  <2>1. ASSUME NEW r \in Slots, worker'[r].step = "alter", NEW x \in worker'[r].todo
        PROVE  SlotOf[x] = r /\ x \in PostingHashes[payloads'[worker'[r].payload].doc]
    BY <1>2, <1>3, <2>1 DEF ContentsInv, TodoOK
  <2> QED
    BY <2>1 DEF TodoOK
<1>10. ASSUME NEW o, NEW e \in Entries
       PROVE  /\ DueTo(o, e)' => DueTo(o, e)
              /\ e # e0 => (DueTo(o, e)' <=> DueTo(o, e))
  BY <1>2, <1>6, <1>7 DEF DueTo
<1>11. DueTo(payloads[p0].op, e0) /\ \A o : DueTo(o, e0) => o = payloads[p0].op
  BY <1>2, <1>7 DEF DueTo, ContentsInv, OneKind
<1>12. Exact'
  <2>1. ASSUME NEW e \in Entries
        PROVE  Wanted(e)' <=> (e \in index' \/ DueTo("Add", e)') /\ ~DueTo("Delete", e)'
    <3>1. /\ Wanted(e) <=> (e \in index \/ DueTo("Add", e)) /\ ~DueTo("Delete", e)
          /\ Wanted(e)' <=> Wanted(e)
      BY <1>2 DEF ContentsInv, Exact, Wanted
    <3>2. CASE e # e0
      <4>1. e \in index' <=> e \in index
        BY <1>1, <1>5, <3>2
      <4>2. /\ DueTo("Add", e)' <=> DueTo("Add", e)
            /\ DueTo("Delete", e)' <=> DueTo("Delete", e)
        BY <1>10, <3>2
      <4> QED
        BY <3>1, <4>1, <4>2
    <3>3. CASE e = e0 /\ payloads[p0].op = "Add"
      <4>1. e \in index' /\ DueTo("Add", e) /\ ~DueTo("Delete", e)
        BY <1>1, <1>5, <1>11, <3>3
      <4>2. ~DueTo("Delete", e)'
        BY <1>10, <4>1
      <4> QED
        BY <3>1, <4>1, <4>2
    <3>4. CASE e = e0 /\ payloads[p0].op = "Delete"
      <4>1. e \notin index' /\ DueTo("Delete", e) /\ ~DueTo("Add", e)
        BY <1>1, <1>5, <1>11, <3>4
      <4>2. ~DueTo("Add", e)'
        BY <1>10, <4>1
      <4> QED
        BY <3>1, <4>1, <4>2
    <3> QED
      BY <1>2, <3>2, <3>3, <3>4
  <2> QED
    BY <2>1 DEF Exact, Entries
<1> QED
  BY <1>8, <1>9, <1>12 DEF ContentsInv

(* Counting the payload down and freeing it alter nothing.                 *)
LEMMA CountContents ==
  ASSUME SlotAssumptions, TypeOK, ContentsInv, NEW s \in Slots,
         ReadSlotsLeft(s) \/ SwapSlotsLeft(s) \/ FreePayload(s)
  PROVE  ContentsInv'
<1>1. UNCHANGED <<stored, adding, queue, index>> /\ worker[s].step # "idle"
  BY DEF ReadSlotsLeft, SwapSlotsLeft, FreePayload
<1>2. /\ payloads \in Seq(Payloads) /\ Len(payloads) \in Nat /\ worker[s].payload \in Made
      /\ worker \in [Slots -> WorkerStates]
      /\ worker[s] = [step |-> worker[s].step, payload |-> worker[s].payload,
                      todo |-> worker[s].todo, slots_left |-> worker[s].slots_left]
  BY <1>1, SlotFacts DEF TypeOK
<1>3. /\ Len(payloads') = Len(payloads)
      /\ \A p \in Made : payloads'[p].op = payloads[p].op /\ payloads'[p].doc = payloads[p].doc
  <2>1. payloads[worker[s].payload] \in Payloads
    BY <1>2 DEF Made
  <2>2. CASE UNCHANGED payloads
    BY <2>2
  <2>3. ASSUME NEW v, payloads' = [payloads EXCEPT ![worker[s].payload].slots_left = v]
        PROVE  /\ Len(payloads') = Len(payloads)
               /\ \A p \in Made : payloads'[p].op = payloads[p].op /\ payloads'[p].doc = payloads[p].doc
    <3>1. payloads' = [payloads EXCEPT ![worker[s].payload] =
                         [payloads[worker[s].payload] EXCEPT !.slots_left = v]]
      BY <1>2, <2>3 DEF Made
    <3> QED
      BY <1>2, <2>1, <3>1 DEF Made, Payloads
  <2>4. ASSUME NEW v, payloads' = [payloads EXCEPT ![worker[s].payload].freed = v]
        PROVE  /\ Len(payloads') = Len(payloads)
               /\ \A p \in Made : payloads'[p].op = payloads[p].op /\ payloads'[p].doc = payloads[p].doc
    <3>1. payloads' = [payloads EXCEPT ![worker[s].payload] =
                         [payloads[worker[s].payload] EXCEPT !.freed = v]]
      BY <1>2, <2>4 DEF Made
    <3> QED
      BY <1>2, <2>1, <3>1 DEF Made, Payloads
  <2> QED
    BY <2>2, <2>3, <2>4 DEF ReadSlotsLeft, SwapSlotsLeft, FreePayload
<1>4. /\ \A r \in Slots \ {s} : worker'[r] = worker[r]
      /\ worker'[s].step # "alter"
      /\ worker[s].step = "alter" => worker[s].todo = {}
  BY <1>2 DEF ReadSlotsLeft, SwapSlotsLeft, FreePayload, IdleWorker
<1>5. ASSUME NEW p \in Made, NEW e \in Entries
      PROVE  Due(p, e)' <=> Due(p, e)
  <2>1. SlotOf[e[1]] \in Slots
    BY EntryFacts
  <2> QED
    BY <1>1, <1>3, <1>4, <2>1 DEF Due
<1>6. TodoOK'
  <2>1. \A r \in Slots : worker[r].step = "alter" => worker[r].payload \in Made
    BY SlotFacts
  <2> QED
    BY <1>3, <1>4, <2>1 DEF ContentsInv, TodoOK
<1> QED
  BY <1>1, <1>2, <1>3, <1>5, <1>6, DueKept DEF ContentsInv

LEMMA ContentsPreserved ==
  ASSUME SlotAssumptions, TypeOK, ContentsInv, [Next]_vars
  PROVE  ContentsInv'
<1>1. CASE AddDocument
  <2>1. PICK d \in Docs \ stored : NewPayload(d, "Add") /\ stored' = stored \cup {d}
    BY <1>1 DEF AddDocument
  <2> QED
    BY <2>1, NewPayloadContents
<1>2. CASE DeleteDocument
  <2>1. PICK d \in stored : NewPayload(d, "Delete") /\ stored' = stored \ {d}
    BY <1>2 DEF DeleteDocument
  <2>2. d \in Docs
    BY DEF TypeOK
  <2> QED
    BY <2>1, <2>2, NewPayloadContents
<1>3. ASSUME NEW s \in Slots, Work(s)
      PROVE  ContentsInv'
  BY <1>3, TakeTaskContents, AlterBucketContents, CountContents DEF Work
<1>4. ASSUME UNCHANGED <<stored, payloads, adding, queue, worker, index>>
      PROVE  ContentsInv'
  BY <1>4 DEF ContentsInv, TodoOK, OneKind, Exact, Wanted, DueTo, Due, Made
<1>5. CASE (\E q \in Searchers : BeginSearch(q) \/ Search(q)) \/ UNCHANGED vars
  BY <1>4, <1>5 DEF BeginSearch, Search, LockSlot, SearchBucket, UnlockSlot, vars
<1> QED
  BY <1>1, <1>2, <1>3, <1>5, AddTaskContents DEF Next, Process

(* When the slots are through, each bucket holds the stored documents it   *)
(* should, and no other (posting.cc alterIndex, finishTasks).              *)
THEOREM SettledIndexIsExact == ASSUME SlotAssumptions PROVE Spec => []SettledIsExact
<1>1. ASSUME TypeOK, ContentsInv
      PROVE  SettledIsExact
  <2>1. SUFFICES ASSUME adding = 0, Settled
                 PROVE  index = {e \in Hashes \X Docs : e[2] \in stored /\ e[1] \in PostingHashes[e[2]]}
    BY DEF SettledIsExact
  <2>2. \A e \in Entries : e \in index <=> Wanted(e)
    BY <1>1, <2>1, NothingDue DEF ContentsInv, Exact, DueTo
  <2>3. index \subseteq Entries
    BY <1>1 DEF TypeOK, Entries
  <2> QED
    BY <2>2, <2>3 DEF Wanted, Entries
<1>2. Init => Inv /\ ContentsInv
  BY InvInitial, ContentsInitial
<1>3. Inv /\ ContentsInv /\ [Next]_vars => (Inv /\ ContentsInv)'
  BY InvPreserved, ContentsPreserved DEF Inv
<1>4. Inv /\ ContentsInv => SettledIsExact
  BY <1>1 DEF Inv
<1> QED
  BY <1>2, <1>3, <1>4, PTL DEF Spec

-----------------------------------------------------------------------------
(***************************************************************************)
(* Third part.  The line of a hash.  Sums and the bytes of numbers; the    *)
(* sections found by counting bytes; what adding and deleting a docid does *)
(* to a section, and a section to a line; then LineInv.                    *)
(***************************************************************************)

(* Sums.                                                                   *)
Sums(f, s) ==
  /\ f \in [0..Len(s) -> Nat] /\ f[0] = 0
  /\ \A k \in 1..Len(s) : f[k] = f[k - 1] + s[k]

LEMMA SumSteps ==
  ASSUME NEW s \in Seq(Nat)
  PROVE  \E f : Sums(f, s) /\ SumOf(s) = f[Len(s)]
<1> DEFINE n == Len(s)
           g == [p \in Nat \X Nat |-> IF p[2] \in 1..n THEN p[1] + s[p[2]] ELSE p[1]]
           Is(f) == f = [k \in 0..n |-> IF k = 0 THEN 0 ELSE f[k - 1] + s[k]]
<1>1. n \in Nat /\ 0 \in Nat /\ 0 <= n /\ \A k \in 1..n : s[k] \in Nat
  OBVIOUS
<1>2. g \in [Nat \X Nat -> Nat]
  BY <1>1
<1>3. PICK f \in [0..n -> Nat] : Recurs(f, 0, g, 0, n)
  <2> HIDE DEF g, n
  <2> QED
    BY <1>1, <1>2, RecursionHolds
<1>4. ASSUME NEW k \in 0..n, k # 0
      PROVE  g[<<f[k - 1], k>>] = f[k - 1] + s[k]
  <2>1. k - 1 \in 0..n /\ k \in Nat /\ k \in 1..n
    BY <1>1, <1>4
  <2>2. f[k - 1] \in Nat
    BY <1>3, <2>1
  <2> QED
    BY <2>1, <2>2
<1>5. Is(f)
  <2> HIDE DEF g
  <2> QED
    BY <1>3, <1>4 DEF Recurs
<1>6. SumOf(s) = (CHOOSE h : Is(h))[n]
  BY DEF SumOf
<1> DEFINE h == CHOOSE x : Is(x)
<1>7. Is(h)
  <2> HIDE DEF Is
  <2> QED
    BY <1>5
<1> HIDE DEF h
<1> DEFINE e(k) == IF k = 0 THEN 0 ELSE h[k - 1] + s[k]
<1>8. h = [k \in 0..n |-> e(k)]
  BY <1>7
<1>9. \A k \in 0..n : h[k] = e(k)
  <2> HIDE DEF e
  <2> QED
    BY <1>8
<1>10. h[0] = 0 /\ \A k \in 1..n : h[k] = h[k - 1] + s[k]
  <2>1. 0 \in 0..n /\ \A k \in 1..n : k \in 0..n /\ k # 0
    BY <1>1
  <2> QED
    BY <1>9, <2>1
<1>11. \A k \in 0..n : h[k] \in Nat
  <2> DEFINE Bad == {k \in Nat : k \in 0..n /\ h[k] \notin Nat}
  <2>1. SUFFICES ASSUME Bad # {}
                 PROVE  FALSE
    BY <1>1
  <2>2. PICK k \in Bad : \A j \in Bad : k <= j
    BY <2>1, HasLeast
  <2>3. k \in 0..n /\ h[k] \notin Nat /\ k # 0
    BY <1>10, <2>2
  <2>4. k - 1 \in 0..n /\ h[k - 1] \in Nat /\ k \in 1..n
    BY <1>1, <2>2, <2>3
  <2>5. s[k] \in Nat /\ h[k] = h[k - 1] + s[k]
    BY <1>1, <1>10, <2>4
  <2> HIDE DEF Bad
  <2> QED
    BY <2>3, <2>4, <2>5
<1>12. h \in [0..n -> Nat]
  <2> HIDE DEF e
  <2>1. h = [k \in 0..n |-> h[k]]
    BY <1>8
  <2> QED
    BY <1>11, <2>1
<1> QED
  BY <1>6, <1>10, <1>12 DEF Sums, h

LEMMA SumsAgree ==
  ASSUME NEW s \in Seq(Nat), NEW f, NEW g, Sums(f, s), Sums(g, s)
  PROVE  \A k \in 0..Len(s) : f[k] = g[k]
<1> DEFINE Bad == {k \in Nat : k \in 0..Len(s) /\ f[k] # g[k]}
<1>1. SUFFICES ASSUME Bad # {}
               PROVE  FALSE
  OBVIOUS
<1>2. PICK k \in Bad : \A j \in Bad : k <= j
  BY <1>1, HasLeast
<1>3. k \in 0..Len(s) /\ f[k] # g[k] /\ k # 0
  BY <1>2 DEF Sums
<1>4. k - 1 \in 0..Len(s) /\ f[k - 1] = g[k - 1] /\ k \in 1..Len(s)
  BY <1>2, <1>3
<1> QED
  BY <1>3, <1>4 DEF Sums

LEMMA SumIs ==
  ASSUME NEW s \in Seq(Nat), NEW f, Sums(f, s)
  PROVE  SumOf(s) = f[Len(s)]
<1>1. PICK g : Sums(g, s) /\ SumOf(s) = g[Len(s)]
  BY SumSteps
<1> QED
  BY <1>1, SumsAgree

LEMMA SumType ==
  ASSUME NEW s \in Seq(Nat)
  PROVE  SumOf(s) \in Nat
<1>1. PICK f : Sums(f, s) /\ SumOf(s) = f[Len(s)]
  BY SumSteps
<1> QED
  BY <1>1 DEF Sums

LEMMA SumOfFew ==
  /\ SumOf(<<>>) = 0
  /\ \A x \in Nat : SumOf(<<x>>) = x
  /\ \A x, y \in Nat : SumOf(<<x, y>>) = x + y
<1>1. SumOf(<<>>) = 0
  <2>1. Sums([k \in 0..0 |-> 0], <<>>)
    BY DEF Sums
  <2> QED
    BY <2>1, SumIs
<1>2. ASSUME NEW x \in Nat PROVE SumOf(<<x>>) = x
  <2>1. Sums([k \in 0..1 |-> IF k = 0 THEN 0 ELSE x], <<x>>)
    BY DEF Sums
  <2> QED
    BY <2>1, SumIs
<1>3. ASSUME NEW x \in Nat, NEW y \in Nat PROVE SumOf(<<x, y>>) = x + y
  <2> DEFINE f == [k \in 0..2 |-> IF k = 0 THEN 0 ELSE IF k = 1 THEN x ELSE x + y]
  <2>1. Sums(f, <<x, y>>) /\ f[2] = x + y
    BY DEF Sums
  <2>2. <<x, y>> \in Seq(Nat) /\ Len(<<x, y>>) = 2
    OBVIOUS
  <2> HIDE DEF f
  <2>3. SumOf(<<x, y>>) = f[Len(<<x, y>>)]
    BY <2>1, <2>2, SumIs
  <2> QED
    BY <2>1, <2>2, <2>3
<1> QED
  BY <1>1, <1>2, <1>3

(* The sums of a sequence of m numbers, which f has, then those of another. *)
SumsOn(f, g, m, n) == [k \in 0..(m + n) |-> IF k <= m THEN f[k] ELSE f[m] + g[k - m]]

LEMMA SumsJoined ==
  ASSUME NEW s \in Seq(Nat), NEW t \in Seq(Nat), NEW f, NEW g, Sums(f, s), Sums(g, t)
  PROVE  Sums(SumsOn(f, g, Len(s), Len(t)), s \o t)
<1> DEFINE m == Len(s)
           n == Len(t)
           h == [k \in 0..(m + n) |-> IF k <= m THEN f[k] ELSE f[m] + g[k - m]]
<1>3. /\ m \in Nat /\ n \in Nat /\ s \o t \in Seq(Nat) /\ Len(s \o t) = m + n
      /\ \A k \in 1..(m + n) : (s \o t)[k] = IF k <= m THEN s[k] ELSE t[k - m]
  BY ConcatProperties
<1>4. /\ \A k \in 0..m : f[k] \in Nat
      /\ \A k \in 0..n : g[k] \in Nat
      /\ f[0] = 0 /\ g[0] = 0
      /\ \A k \in 1..m : f[k] = f[k - 1] + s[k]
      /\ \A k \in 1..n : g[k] = g[k - 1] + t[k]
  BY DEF Sums
<1> HIDE DEF m, n
<1>5. h \in [0..(m + n) -> Nat] /\ h[0] = 0
  <2> SUFFICES ASSUME NEW k \in 0..(m + n)
               PROVE  (IF k <= m THEN f[k] ELSE f[m] + g[k - m]) \in Nat
    BY <1>3, <1>4
  <2>1. CASE k <= m
    BY <1>3, <1>4, <2>1
  <2>2. CASE ~(k <= m)
    <3>1. k - m \in 0..n /\ m \in 0..m
      BY <1>3, <2>2
    <3>2. g[k - m] \in Nat /\ f[m] \in Nat
      BY <1>4, <3>1
    <3> QED
      BY <2>2, <3>2
  <2> QED
    BY <2>1, <2>2
<1>6. ASSUME NEW k \in 1..(m + n)
      PROVE  h[k] = h[k - 1] + (s \o t)[k]
  <2>1. k \in 0..(m + n) /\ k - 1 \in 0..(m + n) /\ k \in Nat
    BY <1>3
  <2>2. CASE k <= m
    <3>1. k \in 1..m /\ k - 1 <= m
      BY <1>3, <2>1, <2>2
    <3> QED
      BY <1>3, <1>4, <2>1, <2>2, <3>1
  <2>3. CASE ~(k <= m)
    <3>1. k - m \in 1..n /\ (k - 1) - m = (k - m) - 1
      BY <1>3, <2>1, <2>3
    <3>2. PICK j \in 1..n : j = k - m
      BY <3>1
    <3>3. g[j] = g[j - 1] + t[j] /\ g[j - 1] \in Nat /\ t[j] \in Nat /\ f[m] \in Nat
      <4>1. j - 1 \in 0..n /\ m \in 0..m
        BY <1>3, <3>2
      <4>2. t[j] \in Nat
        BY <3>2 DEF n
      <4> QED
        BY <1>4, <3>2, <4>1, <4>2
    <3>4. h[k] = f[m] + g[j] /\ (s \o t)[k] = t[j]
      BY <1>3, <2>1, <2>3, <3>2
    <3>5. h[k - 1] = f[m] + g[j - 1]
      <4>1. CASE k - 1 <= m
        <5>1. k - 1 = m /\ j = 1
          BY <1>3, <2>1, <2>3, <3>2, <4>1
        <5> QED
          BY <1>4, <2>1, <3>3, <5>1
      <4>2. CASE ~(k - 1 <= m)
        BY <2>1, <3>1, <3>2, <4>2
      <4> QED
        BY <4>1, <4>2
    <3> HIDE DEF h
    <3> QED
      BY <3>3, <3>4, <3>5
  <2> QED
    BY <2>2, <2>3
<1>7. Sums(h, s \o t)
  <2> HIDE DEF h
  <2> QED
    BY <1>3, <1>5, <1>6 DEF Sums
<1> QED
  BY <1>7 DEF SumsOn, h, m, n

LEMMA SumOfJoined ==
  ASSUME NEW s \in Seq(Nat), NEW t \in Seq(Nat)
  PROVE  SumOf(s \o t) = SumOf(s) + SumOf(t)
<1>1. PICK f : Sums(f, s) /\ SumOf(s) = f[Len(s)]
  BY SumSteps
<1>2. PICK g : Sums(g, t) /\ SumOf(t) = g[Len(t)]
  BY SumSteps
<1>3. PICK m, n \in Nat : m = Len(s) /\ n = Len(t)
  OBVIOUS
<1>4. s \o t \in Seq(Nat) /\ Len(s \o t) = m + n
  BY <1>3, ConcatProperties
<1>5. PICK h : h = SumsOn(f, g, m, n) /\ Sums(h, s \o t)
  BY <1>1, <1>2, <1>3, SumsJoined
<1>6. SumOf(s \o t) = h[m + n]
  BY <1>4, <1>5, SumIs
<1>7. f[m] \in Nat /\ g[0] = 0
  BY <1>1, <1>2, <1>3 DEF Sums
<1>8. h[m + n] = f[m] + g[n]
  <2>1. m + n \in 0..(m + n)
    OBVIOUS
  <2>2. h[m + n] = IF m + n <= m THEN f[m + n] ELSE f[m] + g[m + n - m]
    BY <1>5, <2>1 DEF SumsOn
  <2>3. CASE n = 0
    <3>1. m + n = m
      BY <2>3
    <3> QED
      BY <1>7, <2>2, <2>3, <3>1
  <2>4. CASE n # 0
    <3>1. ~(m + n <= m) /\ m + n - m = n
      BY <2>4
    <3> QED
      BY <2>2, <3>1
  <2> QED
    BY <2>3, <2>4
<1> QED
  BY <1>1, <1>2, <1>3, <1>6, <1>8

-----------------------------------------------------------------------------
(* The bytes of a number.                                                  *)
CapacityFacts ==
  /\ \A k \in 0..5 : Capacity[k] \in Nat
  /\ Capacity[0] = 1 /\ 8 <= Capacity[3]
  /\ \A k \in 1..5 : 2 * Capacity[k - 1] <= Capacity[k]
  /\ \A j, k \in 0..5 : j < k => Capacity[j] < Capacity[k]

LEMMA Capacities == LineAssumptions => CapacityFacts
<1> SUFFICES ASSUME LineAssumptions
             PROVE  CapacityFacts
  OBVIOUS
<1> DEFINE g == [p \in Nat \X Nat |-> Base * p[1]]
           Is(f) == f = [k \in 0..5 |-> IF k = 0 THEN 1 ELSE Base * f[k - 1]]
<1>1. Base \in Nat /\ 2 <= Base
  BY DEF LineAssumptions
<1>2. g \in [Nat \X Nat -> Nat]
  BY <1>1
<1>3. PICK f \in [0..5 -> Nat] : Recurs(f, 1, g, 0, 5)
  <2> HIDE DEF g
  <2>1. 0 \in Nat /\ 5 \in Nat /\ 1 \in Nat /\ 0 <= 5
    OBVIOUS
  <2> QED
    BY <1>2, <2>1, RecursionHolds
<1>4. ASSUME NEW k \in 0..5, k # 0
      PROVE  g[<<f[k - 1], k>>] = Base * f[k - 1]
  BY <1>3, <1>4
<1>5. Is(f)
  <2> HIDE DEF g
  <2> QED
    BY <1>3, <1>4 DEF Recurs
<1>6. Capacity = CHOOSE h : Is(h)
  BY DEF Capacity
<1>7. Is(Capacity)
  <2> HIDE DEF Is
  <2> QED
    BY <1>5, <1>6
<1> DEFINE e(k) == IF k = 0 THEN 1 ELSE Base * Capacity[k - 1]
<1>8. Capacity = [k \in 0..5 |-> e(k)]
  BY <1>7
<1>9. \A k \in 0..5 : Capacity[k] = e(k)
  <2> HIDE DEF e
  <2> QED
    BY <1>8
<1>10. /\ Capacity[0] = 1 /\ Capacity[1] = Base * Capacity[0]
       /\ Capacity[2] = Base * Capacity[1] /\ Capacity[3] = Base * Capacity[2]
       /\ Capacity[4] = Base * Capacity[3] /\ Capacity[5] = Base * Capacity[4]
  BY <1>9
<1> HIDE DEF e, g, Is
<1>11. \A p \in Nat : /\ Base * p \in Nat /\ 2 * p <= Base * p
                      /\ 1 <= p => 2 <= Base * p /\ 1 <= Base * p /\ p < Base * p
                      /\ 2 <= p => 4 <= Base * p
                      /\ 4 <= p => 8 <= Base * p
  <2> SUFFICES ASSUME NEW p \in Nat
               PROVE  /\ Base * p \in Nat /\ 2 * p <= Base * p
                      /\ 1 <= p => 2 <= Base * p /\ 1 <= Base * p /\ p < Base * p
                      /\ 2 <= p => 4 <= Base * p
                      /\ 4 <= p => 8 <= Base * p
    OBVIOUS
  <2>1. PICK q \in Nat : q = Base * p
    BY <1>1
  <2>2. 2 * p <= q
    BY <1>1, <2>1
  <2>3. /\ 1 <= p => 2 <= q /\ 1 <= q /\ p < q
        /\ 2 <= p => 4 <= q
        /\ 4 <= p => 8 <= q
    BY <2>2
  <2> QED
    BY <2>1, <2>2, <2>3
<1> DEFINE c(k) == Capacity[k]
           up(p) == Base * p
           twice(p) == 2 * p
<1>12. /\ c(0) = 1 /\ c(1) = up(c(0)) /\ c(2) = up(c(1)) /\ c(3) = up(c(2))
       /\ c(4) = up(c(3)) /\ c(5) = up(c(4))
  BY <1>10
<1>13. c(0) = 1 /\ c(0) \in Nat /\ 1 <= c(0)
  BY <1>12
<1> DEFINE Follows(p, q) == /\ q \in Nat /\ twice(p) <= q /\ 1 <= q /\ p < q
                            /\ 1 <= p => 2 <= q
                            /\ 2 <= p => 4 <= q
                            /\ 4 <= p => 8 <= q
<1>15. \A p : p \in Nat /\ 1 <= p => Follows(p, up(p))
  <2> SUFFICES ASSUME NEW p \in Nat, 1 <= p
               PROVE  Follows(p, up(p))
    OBVIOUS
  <2>1. /\ Base * p \in Nat /\ 2 * p <= Base * p
        /\ 1 <= p => 2 <= Base * p /\ 1 <= Base * p /\ p < Base * p
        /\ 2 <= p => 4 <= Base * p
        /\ 4 <= p => 8 <= Base * p
    BY <1>11
  <2> QED
    BY <2>1
<1> HIDE DEF c, up, Follows
<1>16. Follows(c(0), c(1)) /\ c(1) \in Nat /\ 1 <= c(1)
  <2>1. Follows(c(0), c(1))
    BY <1>12, <1>13, <1>15
  <2> QED
    BY <2>1 DEF Follows
<1>17. Follows(c(1), c(2)) /\ c(2) \in Nat /\ 1 <= c(2)
  <2>1. Follows(c(1), c(2))
    BY <1>12, <1>15, <1>16
  <2> QED
    BY <2>1 DEF Follows
<1>18. Follows(c(2), c(3)) /\ c(3) \in Nat /\ 1 <= c(3)
  <2>1. Follows(c(2), c(3))
    BY <1>12, <1>15, <1>17
  <2> QED
    BY <2>1 DEF Follows
<1>19. Follows(c(3), c(4)) /\ c(4) \in Nat /\ 1 <= c(4)
  <2>1. Follows(c(3), c(4))
    BY <1>12, <1>15, <1>18
  <2> QED
    BY <2>1 DEF Follows
<1>20. Follows(c(4), c(5)) /\ c(5) \in Nat
  <2>1. Follows(c(4), c(5))
    BY <1>12, <1>15, <1>19
  <2> QED
    BY <2>1 DEF Follows
<1>21. 2 * c(0) <= c(1) /\ 2 * c(1) <= c(2) /\ 2 * c(2) <= c(3) /\ 2 * c(3) <= c(4) /\ 2 * c(4) <= c(5)
  BY <1>16, <1>17, <1>18, <1>19, <1>20 DEF Follows, twice
<1> HIDE DEF twice
<1>22. 8 <= c(3)
  <2>1. 2 <= c(1)
    BY <1>13, <1>16 DEF Follows
  <2>2. 4 <= c(2)
    BY <1>17, <2>1 DEF Follows
  <2> QED
    BY <1>18, <2>2 DEF Follows
<1>23. \A k \in 0..5 : k = 0 \/ k = 1 \/ k = 2 \/ k = 3 \/ k = 4 \/ k = 5
  OBVIOUS
<1>24. \A k \in 0..5 : c(k) \in Nat
  BY <1>13, <1>16, <1>17, <1>18, <1>19, <1>20, <1>23
<1>25. ASSUME NEW k \in 1..5
       PROVE  2 * c(k - 1) <= c(k)
  <2>1. k = 1 \/ k = 2 \/ k = 3 \/ k = 4 \/ k = 5
    OBVIOUS
  <2>2. 1 - 1 = 0 /\ 2 - 1 = 1 /\ 3 - 1 = 2 /\ 4 - 1 = 3 /\ 5 - 1 = 4
    OBVIOUS
  <2>3. CASE k = 1
    BY <1>21, <2>2, <2>3
  <2>4. CASE k = 2
    BY <1>21, <2>2, <2>4
  <2>5. CASE k = 3
    BY <1>21, <2>2, <2>5
  <2>6. CASE k = 4
    BY <1>21, <2>2, <2>6
  <2>7. CASE k = 5
    BY <1>21, <2>2, <2>7
  <2> QED
    BY <2>1, <2>3, <2>4, <2>5, <2>6, <2>7
<1>26. c(0) < c(1) /\ c(1) < c(2) /\ c(2) < c(3) /\ c(3) < c(4) /\ c(4) < c(5)
  BY <1>16, <1>17, <1>18, <1>19, <1>20 DEF Follows
<1>27. \A j \in 0..1 : c(j) < c(2)
  <2>1. \A j \in 0..1 : j = 0 \/ j = 1
    OBVIOUS
  <2> QED
    BY <1>13, <1>16, <1>17, <1>26, <2>1
<1>28. \A j \in 0..2 : c(j) < c(3)
  <2>1. \A j \in 0..2 : j \in 0..1 \/ j = 2
    OBVIOUS
  <2>2. ASSUME NEW j \in 0..1
        PROVE  c(j) \in Nat
    <3>1. j \in 0..5
      OBVIOUS
    <3> QED
      BY <1>24, <3>1
  <2> QED
    BY <1>24, <1>26, <1>27, <2>1, <2>2
<1>29. \A j \in 0..3 : c(j) < c(4)
  <2>1. \A j \in 0..3 : j \in 0..2 \/ j = 3
    OBVIOUS
  <2>2. ASSUME NEW j \in 0..2
        PROVE  c(j) \in Nat
    <3>1. j \in 0..5
      OBVIOUS
    <3> QED
      BY <1>24, <3>1
  <2> QED
    BY <1>24, <1>26, <1>28, <2>1, <2>2
<1>30. \A j \in 0..4 : c(j) < c(5)
  <2>1. \A j \in 0..4 : j \in 0..3 \/ j = 4
    OBVIOUS
  <2>2. ASSUME NEW j \in 0..3
        PROVE  c(j) \in Nat
    <3>1. j \in 0..5
      OBVIOUS
    <3> QED
      BY <1>24, <3>1
  <2> QED
    BY <1>24, <1>26, <1>29, <2>1, <2>2
<1>31. ASSUME NEW j \in 0..5, NEW k \in 0..5, j < k
       PROVE  c(j) < c(k)
  <2>1. \/ (k = 1 /\ j = 0) \/ (k = 2 /\ j \in 0..1) \/ (k = 3 /\ j \in 0..2)
        \/ (k = 4 /\ j \in 0..3) \/ (k = 5 /\ j \in 0..4)
    BY <1>31
  <2> QED
    BY <1>26, <1>27, <1>28, <1>29, <1>30, <2>1
<1> QED
  BY <1>13, <1>22, <1>24, <1>25, <1>31 DEF c, CapacityFacts

LEMMA CapacityType ==
  ASSUME LineAssumptions
  PROVE  \A k \in 0..5 : Capacity[k] \in Nat
BY Capacities DEF CapacityFacts

LEMMA CapacityGrows ==
  ASSUME LineAssumptions, NEW j \in 0..5, NEW k \in 0..5, j < k
  PROVE  Capacity[j] < Capacity[k]
BY Capacities DEF CapacityFacts

LEMMA CapacityDoubles ==
  ASSUME LineAssumptions, NEW k \in 1..5
  PROVE  2 * Capacity[k - 1] <= Capacity[k]
BY Capacities DEF CapacityFacts

LEMMA CapacityOfFew ==
  ASSUME LineAssumptions
  PROVE  /\ Capacity[0] = 1 /\ 8 <= Capacity[3] /\ Capacity[3] < Capacity[5] /\ Capacity[0] < Capacity[5]
         /\ Capacity[0] \in Nat /\ Capacity[3] \in Nat /\ Capacity[5] \in Nat
<1>1. Capacity[0] \in Nat /\ Capacity[3] \in Nat /\ Capacity[5] \in Nat
  BY CapacityType
<1>2. Capacity[0] = 1 /\ 8 <= Capacity[3]
  BY Capacities DEF CapacityFacts
<1>3. Capacity[3] < Capacity[5] /\ Capacity[0] < Capacity[5]
  BY CapacityGrows
<1> QED
  BY <1>1, <1>2, <1>3

Digits(n, k) == k \in 1..5 /\ n < Capacity[k] /\ (k = 1 \/ Capacity[k - 1] <= n)

LEMMA VarNums ==
  ASSUME LineAssumptions, NEW n \in Nat, n < Capacity[5]
  PROVE  Digits(n, VarNumLength(n)) /\ VarNumLength(n) \in 1..5
<1> DEFINE Has(k) == n < Capacity[k] /\ (k = 1 \/ n >= Capacity[k - 1])
           All == {k \in 1..5 : n < Capacity[k]}
<1>1. All \subseteq Nat /\ 5 \in All
  OBVIOUS
<1>2. PICK k \in All : \A j \in All : k <= j
  BY <1>1, HasLeast
<1>3. k \in 1..5 /\ n < Capacity[k]
  BY <1>2
<1>4. k = 1 \/ n >= Capacity[k - 1]
  <2> SUFFICES ASSUME k # 1
               PROVE  n >= Capacity[k - 1]
    OBVIOUS
  <2>1. k - 1 \in 1..5 /\ k - 1 \in 0..5 /\ ~(k <= k - 1)
    BY <1>3
  <2>2. ~(n < Capacity[k - 1])
    BY <1>2, <2>1
  <2>3. Capacity[k - 1] \in Nat
    BY <2>1, CapacityType
  <2> QED
    BY <2>2, <2>3
<1> DEFINE v == CHOOSE j \in 1..5 : Has(j)
<1>5. v \in 1..5 /\ Has(v)
  <2> HIDE DEF Has
  <2>1. \E j \in 1..5 : Has(j)
    BY <1>3, <1>4 DEF Has
  <2> QED
    BY <2>1
<1>6. VarNumLength(n) = v
  BY DEF VarNumLength
<1> HIDE DEF v
<1>7. Capacity[v - 1] \in Nat
  <2>1. v - 1 \in 0..5
    BY <1>5
  <2> QED
    BY <2>1, CapacityType
<1> QED
  BY <1>5, <1>6, <1>7 DEF Digits

LEMMA DigitsGrow ==
  ASSUME LineAssumptions, NEW m \in Nat, NEW n \in Nat, m <= n,
         NEW j, NEW k, Digits(m, j), Digits(n, k)
  PROVE  j <= k
<1>1. j \in 1..5 /\ k \in 1..5 /\ n < Capacity[k] /\ (j = 1 \/ Capacity[j - 1] <= m)
  BY DEF Digits
<1> SUFFICES ASSUME ~(j <= k)
             PROVE  FALSE
  OBVIOUS
<1>2. PICK i \in 0..5 : i = j - 1
  BY <1>1
<1>3. Capacity[k] <= Capacity[i] /\ Capacity[i] <= m
  <2>1. k \in 0..5 /\ (k < i \/ k = i) /\ j # 1
    BY <1>1, <1>2
  <2>2. Capacity[k] \in Nat /\ Capacity[i] \in Nat
    BY <2>1, CapacityType
  <2>3. k < i => Capacity[k] < Capacity[i]
    BY <2>1, CapacityGrows
  <2> QED
    BY <1>1, <1>2, <2>1, <2>2, <2>3
<1>4. Capacity[k] \in Nat /\ Capacity[i] \in Nat
  <2>1. k \in 0..5
    BY <1>1
  <2> QED
    BY <2>1, CapacityType
<1> QED
  BY <1>1, <1>3, <1>4

LEMMA DigitsDouble ==
  ASSUME LineAssumptions, NEW m \in Nat, NEW n \in Nat, n <= 2 * m,
         NEW j, NEW k, Digits(m, j), Digits(n, k)
  PROVE  k <= j + 1
<1>1. j \in 1..5 /\ k \in 1..5 /\ m < Capacity[j] /\ (k = 1 \/ Capacity[k - 1] <= n)
  BY DEF Digits
<1> SUFFICES ASSUME ~(k <= j + 1)
             PROVE  FALSE
  OBVIOUS
<1>2. PICK i \in 1..5 : i = j + 1
  BY <1>1
<1>3. PICK h \in 0..5 : h = k - 1
  BY <1>1
<1>4. 2 * Capacity[j] <= Capacity[i]
  <2>1. 2 * Capacity[i - 1] <= Capacity[i]
    BY CapacityDoubles
  <2>2. i - 1 = j
    BY <1>1, <1>2
  <2> QED
    BY <2>1, <2>2
<1>5. Capacity[i] <= Capacity[h] /\ Capacity[h] <= n
  <2>1. i \in 0..5 /\ (i < h \/ i = h) /\ k # 1
    BY <1>1, <1>2, <1>3
  <2>2. Capacity[i] \in Nat /\ Capacity[h] \in Nat
    BY <2>1, CapacityType
  <2>3. i < h => Capacity[i] < Capacity[h]
    BY <2>1, CapacityGrows
  <2> QED
    BY <1>1, <1>3, <2>1, <2>2, <2>3
<1>6. Capacity[i] \in Nat /\ Capacity[h] \in Nat /\ Capacity[j] \in Nat
  <2>1. i \in 0..5 /\ j \in 0..5
    BY <1>1
  <2> QED
    BY <2>1, CapacityType
<1> QED
  BY <1>1, <1>4, <1>5, <1>6

LEMMA VarNumsGrow ==
  ASSUME LineAssumptions, NEW m \in Nat, NEW n \in Nat
  PROVE  /\ m <= n /\ n < Capacity[5] => VarNumLength(m) <= VarNumLength(n)
         /\ m + n < Capacity[5] => VarNumLength(m + n) <= VarNumLength(m) + VarNumLength(n)
<1>1. Capacity[5] \in Nat
  BY CapacityOfFew
<1>2. ASSUME m <= n, n < Capacity[5]
      PROVE  VarNumLength(m) <= VarNumLength(n)
  <2>1. m < Capacity[5]
    BY <1>1, <1>2
  <2>2. Digits(m, VarNumLength(m)) /\ Digits(n, VarNumLength(n))
    BY <1>2, <2>1, VarNums
  <2> QED
    BY <1>2, <2>2, DigitsGrow
<1>3. ASSUME m + n < Capacity[5]
      PROVE  VarNumLength(m + n) <= VarNumLength(m) + VarNumLength(n)
  <2>1. m < Capacity[5] /\ n < Capacity[5] /\ m + n \in Nat
    BY <1>1, <1>3
  <2>2. PICK k : k = VarNumLength(m + n) /\ Digits(m + n, k) /\ k \in 1..5
    BY <1>3, <2>1, VarNums
  <2>3. PICK i : i = VarNumLength(m) /\ Digits(m, i) /\ i \in 1..5
    BY <2>1, VarNums
  <2>4. PICK j : j = VarNumLength(n) /\ Digits(n, j) /\ j \in 1..5
    BY <2>1, VarNums
  <2>5. CASE m <= n
    <3>1. m + n <= 2 * n
      BY <2>5
    <3>2. k <= j + 1
      BY <2>1, <2>2, <2>4, <3>1, DigitsDouble
    <3> QED
      BY <2>2, <2>3, <2>4, <3>2
  <2>6. CASE ~(m <= n)
    <3>1. m + n <= 2 * m
      BY <2>6
    <3>2. k <= i + 1
      BY <2>1, <2>2, <2>3, <3>1, DigitsDouble
    <3> QED
      BY <2>2, <2>3, <2>4, <3>2
  <2> QED
    BY <2>5, <2>6
<1> QED
  BY <1>2, <1>3

LEMMA SmallVarNums ==
  ASSUME LineAssumptions
  PROVE  /\ VarNumLength(0) = 1
         /\ \A n \in 0..5 : VarNumLength(n) <= 3
         /\ \A n \in Nat : n + 1 < Capacity[5] => VarNumLength(n + 1) <= VarNumLength(n) + 1
<1>1. /\ Capacity[0] \in Nat /\ Capacity[3] \in Nat /\ Capacity[5] \in Nat
      /\ Capacity[0] = 1 /\ 8 <= Capacity[3] /\ Capacity[3] < Capacity[5]
  BY CapacityOfFew
<1>2. ASSUME NEW n \in 0..5
      PROVE  VarNumLength(n) <= 3 /\ (n = 0 => VarNumLength(n) = 1)
  <2>1. n \in Nat /\ n < Capacity[5]
    BY <1>1
  <2>2. PICK k : k = VarNumLength(n) /\ Digits(n, k) /\ k \in 1..5
    BY <2>1, VarNums
  <2>3. k = 1 \/ Capacity[k - 1] <= n
    BY <2>2 DEF Digits
  <2>4. PICK j \in 0..5 : j = k - 1
    BY <2>2
  <2>5. /\ Capacity[j] \in Nat
        /\ 3 < j => Capacity[3] < Capacity[j]
        /\ 0 < j => Capacity[0] < Capacity[j]
    <3>1. 0 \in 0..5 /\ 3 \in 0..5
      OBVIOUS
    <3> QED
      BY <3>1, CapacityType, CapacityGrows
  <2>6. k <= 3
    <3>1. j <= 2 \/ j = 3 \/ 3 < j
      BY <2>4
    <3> QED
      BY <1>1, <2>2, <2>3, <2>4, <2>5, <3>1
  <2>7. n = 0 => k = 1
    BY <1>1, <2>2, <2>3, <2>4, <2>5
  <2> QED
    BY <2>2, <2>6, <2>7
<1>3. ASSUME NEW n \in Nat, n + 1 < Capacity[5]
      PROVE  VarNumLength(n + 1) <= VarNumLength(n) + 1
  <2>1. VarNumLength(1) \in 1..5 /\ VarNumLength(n) \in 1..5 /\ VarNumLength(n + 1) \in 1..5
    <3>1. 1 < Capacity[5] /\ n < Capacity[5] /\ n + 1 \in Nat
      BY <1>1, <1>3
    <3> QED
      BY <1>3, <3>1, VarNums
  <2>2. CASE n = 0
    <3>1. VarNumLength(1) <= 2
      <4>1. Digits(1, VarNumLength(1)) /\ Digits(0, VarNumLength(0))
        BY <1>1, VarNums
      <4>2. PICK k \in 1..5 : k = VarNumLength(1) /\ (k = 1 \/ Capacity[k - 1] <= 1)
        BY <2>1, <4>1 DEF Digits
      <4>3. PICK j \in 0..5 : j = k - 1
        BY <4>2
      <4>4. /\ Capacity[j] \in Nat
            /\ 0 < j => Capacity[0] < Capacity[j]
        <5>1. 0 \in 0..5
          OBVIOUS
        <5> QED
          BY <5>1, CapacityType, CapacityGrows
      <4> QED
        BY <1>1, <4>2, <4>3, <4>4
    <3> QED
      BY <2>1, <2>2, <3>1
  <2>3. CASE n # 0
    <3>1. n + 1 <= 2 * n /\ n < Capacity[5] /\ n + 1 \in Nat
      BY <1>1, <1>3, <2>3
    <3>2. Digits(n, VarNumLength(n)) /\ Digits(n + 1, VarNumLength(n + 1))
      BY <1>3, <3>1, VarNums
    <3> QED
      BY <3>1, <3>2, DigitsDouble
  <2> QED
    BY <2>2, <2>3
<1> QED
  BY <1>2, <1>3

-----------------------------------------------------------------------------
(* The bytes of a sequence of numbers.                                     *)
Numbers == {n \in Nat : n < Capacity[5]}

LEMMA EncodedNumbers ==
  ASSUME LineAssumptions, NEW s \in Seq(Numbers)
  PROVE  LET v == [k \in DOMAIN s |-> VarNumLength(s[k])]
         IN  /\ v \in Seq(1..5) /\ v \in Seq(Nat) /\ Len(v) = Len(s)
             /\ \A k \in 1..Len(s) : v[k] = VarNumLength(s[k]) /\ v[k] \in 1..5
             /\ EncodedLength(s) = SumOf(v) /\ EncodedLength(s) \in Nat
<1> DEFINE v == [k \in DOMAIN s |-> VarNumLength(s[k])]
<1>1. \A k \in 1..Len(s) : VarNumLength(s[k]) \in 1..5
  <2> TAKE k \in 1..Len(s)
  <2>1. s[k] \in Nat /\ s[k] < Capacity[5]
    BY DEF Numbers
  <2> QED
    BY <2>1, VarNums
<1>2. v = [k \in 1..Len(s) |-> VarNumLength(s[k])]
  OBVIOUS
<1>3. v \in Seq(1..5) /\ Len(v) = Len(s) /\ \A k \in 1..Len(s) : v[k] = VarNumLength(s[k])
  BY <1>1, <1>2
<1>4. EncodedLength(s) = SumOf(v)
  BY DEF EncodedLength
<1> HIDE DEF v
<1>5. v \in Seq(Nat)
  BY <1>3, SeqMonotonic, 1..5 \subseteq Nat
<1>6. SumOf(v) \in Nat
  BY <1>5, SumType
<1> QED
  BY <1>1, <1>3, <1>4, <1>5, <1>6 DEF v

LEMMA EncodedFew ==
  ASSUME LineAssumptions
  PROVE  /\ EncodedLength(<<>>) = 0
         /\ \A x \in Numbers : EncodedLength(<<x>>) = VarNumLength(x)
         /\ \A x, y \in Numbers : EncodedLength(<<x, y>>) = VarNumLength(x) + VarNumLength(y)
<1>1. EncodedLength(<<>>) = 0
  <2>1. [k \in DOMAIN <<>> |-> VarNumLength(<<>>[k])] = <<>>
    OBVIOUS
  <2> QED
    BY <2>1, SumOfFew DEF EncodedLength
<1>2. \A x \in Numbers : VarNumLength(x) \in Nat
  BY VarNums DEF Numbers
<1>3. ASSUME NEW x \in Numbers PROVE EncodedLength(<<x>>) = VarNumLength(x)
  <2>1. [k \in DOMAIN <<x>> |-> VarNumLength(<<x>>[k])] = <<VarNumLength(x)>>
    OBVIOUS
  <2> QED
    BY <1>2, <2>1, SumOfFew DEF EncodedLength
<1>4. ASSUME NEW x \in Numbers, NEW y \in Numbers
      PROVE  EncodedLength(<<x, y>>) = VarNumLength(x) + VarNumLength(y)
  <2>1. [k \in DOMAIN <<x, y>> |-> VarNumLength(<<x, y>>[k])] = <<VarNumLength(x), VarNumLength(y)>>
    OBVIOUS
  <2> QED
    BY <1>2, <2>1, SumOfFew DEF EncodedLength
<1> QED
  BY <1>1, <1>3, <1>4

LEMMA EncodedJoined ==
  ASSUME LineAssumptions, NEW s \in Seq(Numbers), NEW t \in Seq(Numbers)
  PROVE  EncodedLength(s \o t) = EncodedLength(s) + EncodedLength(t)
<1> DEFINE Coded(x) == [k \in DOMAIN x |-> VarNumLength(x[k])]
<1>1. /\ s \o t \in Seq(Numbers) /\ Len(s \o t) = Len(s) + Len(t)
      /\ Len(s) \in Nat /\ Len(t) \in Nat
      /\ \A k \in 1..(Len(s) + Len(t)) :
           (s \o t)[k] = IF k <= Len(s) THEN s[k] ELSE t[k - Len(s)]
  BY ConcatProperties
<1>2. \A x \in Seq(Numbers) : /\ Coded(x) \in Seq(Nat) /\ Len(Coded(x)) = Len(x)
                              /\ \A k \in 1..Len(x) : Coded(x)[k] = VarNumLength(x[k])
                              /\ EncodedLength(x) = SumOf(Coded(x))
  BY EncodedNumbers
<1> HIDE DEF Coded
<1>3. PICK a \in Seq(Nat) : a = Coded(s)
  BY <1>2
<1>4. PICK b \in Seq(Nat) : b = Coded(t)
  BY <1>2
<1>5. PICK c \in Seq(Nat) : c = Coded(s \o t)
  BY <1>1, <1>2
<1>6. /\ a \o b \in Seq(Nat) /\ Len(a \o b) = Len(s) + Len(t)
      /\ \A k \in 1..(Len(s) + Len(t)) :
           (a \o b)[k] = IF k <= Len(s) THEN a[k] ELSE b[k - Len(s)]
  <2>1. Len(a) = Len(s) /\ Len(b) = Len(t)
    BY <1>2, <1>3, <1>4
  <2>2. /\ a \o b \in Seq(Nat) /\ Len(a \o b) = Len(a) + Len(b)
        /\ \A k \in 1..(Len(a) + Len(b)) :
             (a \o b)[k] = IF k <= Len(a) THEN a[k] ELSE b[k - Len(a)]
    BY ConcatProperties
  <2> QED
    BY <2>1, <2>2
<1>7. /\ Len(c) = Len(s) + Len(t)
      /\ \A k \in 1..(Len(s) + Len(t)) : c[k] = VarNumLength((s \o t)[k])
      /\ \A k \in 1..Len(s) : a[k] = VarNumLength(s[k])
      /\ \A k \in 1..Len(t) : b[k] = VarNumLength(t[k])
  BY <1>1, <1>2, <1>3, <1>4, <1>5
<1>8. c = a \o b
  <2>1. ASSUME NEW k \in 1..(Len(s) + Len(t))
        PROVE  c[k] = (a \o b)[k]
    <3>1. CASE k <= Len(s)
      <4>1. k \in 1..Len(s)
        BY <1>1, <3>1
      <4> QED
        BY <1>1, <1>6, <1>7, <3>1, <4>1
    <3>2. CASE ~(k <= Len(s))
      <4>1. PICK j \in 1..Len(t) : j = k - Len(s)
        BY <1>1, <3>2
      <4>2. (s \o t)[k] = t[j] /\ (a \o b)[k] = b[j]
        BY <1>1, <1>6, <3>2, <4>1
      <4> QED
        BY <1>7, <4>1, <4>2
    <3> QED
      BY <3>1, <3>2
  <2> QED
    BY <1>6, <1>7, <2>1, SeqEqual
<1>9. SumOf(c) = SumOf(a) + SumOf(b)
  BY <1>8, SumOfJoined
<1> QED
  BY <1>1, <1>2, <1>3, <1>4, <1>5, <1>9

(* Every number takes a byte at least, so sequences of more are longer.    *)
LEMMA EncodedEmpty ==
  ASSUME LineAssumptions, NEW s \in Seq(Numbers)
  PROVE  /\ EncodedLength(s) = 0 <=> s = <<>>
         /\ s # <<>> => EncodedLength(s) >= 1
<1>1. s = <<>> => EncodedLength(s) = 0
  BY EncodedFew
<1>2. ASSUME s # <<>>
      PROVE  EncodedLength(s) >= 1
  <2>1. PICK t \in Seq(Numbers), x \in Numbers : s = Append(t, x)
    BY <1>2, SequenceEmptyOrAppend
  <2>2. s = t \o <<x>> /\ <<x>> \in Seq(Numbers)
    BY <2>1, AppendIsConcat
  <2>3. EncodedLength(s) = EncodedLength(t) + VarNumLength(x)
    BY <2>2, EncodedJoined, EncodedFew
  <2>4. VarNumLength(x) \in 1..5
    BY VarNums DEF Numbers
  <2>5. EncodedLength(t) \in Nat
    BY EncodedNumbers
  <2> QED
    BY <2>3, <2>4, <2>5
<1> QED
  BY <1>1, <1>2

(* The numbers that begin before the end of a prefix are the prefix's.     *)
LEMMA PrefixBegins ==
  ASSUME LineAssumptions, NEW s \in Seq(Numbers), NEW m \in 0..Len(s)
  PROVE  Cardinality({k \in DOMAIN s : EncodedLength(SubSeq(s, 1, k - 1))
                                         < EncodedLength(SubSeq(s, 1, m))}) = m
<1> DEFINE e(k) == EncodedLength(SubSeq(s, 1, k))
<1>1. Len(s) \in Nat /\ DOMAIN s = 1..Len(s) /\ m \in Nat
  OBVIOUS
<1>2. \A j, k \in 0..Len(s) : SubSeq(s, j + 1, k) \in Seq(Numbers)
  <2> TAKE j, k \in 0..Len(s)
  <2>1. \A i \in (j + 1)..k : s[i] \in Numbers
    BY <1>1
  <2> QED
    BY <1>1, <2>1, SubSeqProperties
<1>3. \A k \in 0..Len(s) : SubSeq(s, 1, k) \in Seq(Numbers) /\ e(k) \in Nat
  <2> TAKE k \in 0..Len(s)
  <2>1. \A i \in 1..k : s[i] \in Numbers
    BY <1>1
  <2>2. SubSeq(s, 1, k) \in Seq(Numbers)
    BY <1>1, <2>1, SubSeqProperties
  <2> QED
    BY <2>2, EncodedNumbers
<1>4. ASSUME NEW j \in 0..Len(s), NEW k \in 0..Len(s), j < k
      PROVE  e(j) < e(k)
  <2>1. SubSeq(s, 1, j) \o SubSeq(s, j + 1, k) = SubSeq(s, 1, k)
    <3>1. 1 \in 1..(Len(s) + 1) /\ j \in (1 - 1)..Len(s) /\ k \in j..Len(s)
      BY <1>1, <1>4
    <3> QED
      BY <3>1, ConcatAdjacentSubSeq
  <2>2. SubSeq(s, j + 1, k) # <<>>
    <3>1. \A i \in (j + 1)..k : s[i] \in Numbers
      BY <1>1
    <3>2. Len(SubSeq(s, j + 1, k)) = k - (j + 1) + 1
      BY <1>1, <1>4, <3>1, SubSeqProperties
    <3> QED
      BY <1>1, <1>4, <3>2
  <2>3. e(k) = e(j) + EncodedLength(SubSeq(s, j + 1, k))
    BY <1>2, <1>3, <2>1, EncodedJoined
  <2>4. EncodedLength(SubSeq(s, j + 1, k)) >= 1 /\ EncodedLength(SubSeq(s, j + 1, k)) \in Nat
    BY <1>2, <2>2, EncodedEmpty, EncodedNumbers
  <2> HIDE DEF e
  <2> QED
    BY <1>3, <2>3, <2>4
<1> HIDE DEF e
<1>5. {k \in DOMAIN s : e(k - 1) < e(m)} = 1..m
  <2> SUFFICES ASSUME NEW k \in 1..Len(s)
               PROVE  e(k - 1) < e(m) <=> k <= m
    BY <1>1
  <2>1. PICK j \in 0..Len(s) : j = k - 1
    BY <1>1
  <2>2. e(j) \in Nat /\ e(m) \in Nat
    BY <1>3
  <2>3. j < m => e(j) < e(m)
    BY <1>4
  <2>4. m < j => e(m) < e(j)
    BY <1>4
  <2> QED
    BY <1>1, <2>1, <2>2, <2>3, <2>4
<1>6. Cardinality(1..m) = m
  BY <1>1, FS_Interval
<1> QED
  BY <1>5, <1>6 DEF e

-----------------------------------------------------------------------------
(* Sequences with one element more or less.                                *)
LEMMA Halves ==
  ASSUME NEW X, NEW s \in Seq(X), NEW i \in 0..Len(s)
  PROVE  /\ SubSeq(s, 1, i) \in Seq(X) /\ Len(SubSeq(s, 1, i)) = i
         /\ \A k \in 1..i : SubSeq(s, 1, i)[k] = s[k]
         /\ SubSeq(s, i + 1, Len(s)) \in Seq(X) /\ Len(SubSeq(s, i + 1, Len(s))) = Len(s) - i
         /\ \A k \in 1..(Len(s) - i) : SubSeq(s, i + 1, Len(s))[k] = s[i + k]
         /\ SubSeq(s, 1, i) \o SubSeq(s, i + 1, Len(s)) = s
<1>1. Len(s) \in Nat /\ i \in Nat /\ \A k \in 1..Len(s) : s[k] \in X
  OBVIOUS
<1>2. PICK n \in Nat : n = Len(s)
  BY <1>1
<1>3. /\ SubSeq(s, 1, i) \in Seq(X) /\ Len(SubSeq(s, 1, i)) = i
      /\ \A k \in 1..i : SubSeq(s, 1, i)[k] = s[k]
  <2>1. 1 \in Int /\ i \in Int /\ \A k \in 1..i : s[k] \in X
    BY <1>1
  <2>2. /\ SubSeq(s, 1, i) \in Seq(X)
        /\ Len(SubSeq(s, 1, i)) = IF 1 <= i THEN i - 1 + 1 ELSE 0
        /\ \A k \in 1..(i - 1 + 1) : SubSeq(s, 1, i)[k] = s[1 + k - 1]
    BY <2>1, SubSeqProperties
  <2>3. i - 1 + 1 = i /\ \A k \in 1..i : 1 + k - 1 = k
    BY <1>1
  <2> QED
    BY <1>1, <2>2, <2>3
<1>4. /\ SubSeq(s, i + 1, n) \in Seq(X) /\ Len(SubSeq(s, i + 1, n)) = n - i
      /\ \A k \in 1..(n - i) : SubSeq(s, i + 1, n)[k] = s[i + k]
  <2>1. i + 1 \in Int /\ n \in Int /\ \A k \in (i + 1)..n : s[k] \in X
    BY <1>1, <1>2
  <2>2. /\ SubSeq(s, i + 1, n) \in Seq(X)
        /\ Len(SubSeq(s, i + 1, n)) = IF i + 1 <= n THEN n - (i + 1) + 1 ELSE 0
        /\ \A k \in 1..(n - (i + 1) + 1) : SubSeq(s, i + 1, n)[k] = s[i + 1 + k - 1]
    BY <2>1, SubSeqProperties
  <2>3. n - (i + 1) + 1 = n - i /\ \A k \in 1..(n - i) : i + 1 + k - 1 = i + k
    BY <1>1, <1>2
  <2> QED
    BY <1>1, <1>2, <2>2, <2>3
<1>5. SubSeq(s, 1, i) \o SubSeq(s, i + 1, n) = s
  <2>1. 1 \in 1..(Len(s) + 1) /\ i \in (1 - 1)..Len(s) /\ Len(s) \in i..Len(s)
    BY <1>1
  <2>2. SubSeq(s, 1, i) \o SubSeq(s, i + 1, Len(s)) = SubSeq(s, 1, Len(s))
    BY <2>1, ConcatAdjacentSubSeq
  <2> QED
    BY <1>2, <2>2, SubSeqFull
<1> QED
  BY <1>2, <1>3, <1>4, <1>5

(* a and b are the parts of s before and after x, when x is put at i.      *)
Parted(X, s, i, x, t, a, b, c) ==
  /\ a \in Seq(X) /\ Len(a) = i - 1 /\ b \in Seq(X)
  /\ <<x>> \in Seq(X) /\ c \in Seq(X) /\ c = a \o <<x>>
  /\ s = a \o b /\ t = c \o b

LEMMA InsertedBetween ==
  ASSUME NEW X, NEW s \in Seq(X), NEW i \in 1..(Len(s) + 1), NEW x \in X
  PROVE  \E a, b, c : Parted(X, s, i, x, InsertAt(s, i, x), a, b, c)
<1>1. Len(s) \in Nat /\ i \in Nat /\ i <= Len(s) + 1 /\ 1 <= i
  OBVIOUS
<1>2. PICK j \in 0..Len(s) : i = j + 1 /\ i - 1 = j
  <2>1. i - 1 \in 0..Len(s) /\ i = (i - 1) + 1
    BY <1>1
  <2> QED
    BY <2>1
<1>3. SubSeq(s, 1, j) \in Seq(X) /\ Len(SubSeq(s, 1, j)) = j
  BY Halves
<1> PICK a \in Seq(X) : a = SubSeq(s, 1, j) /\ Len(a) = j
  BY <1>3
<1>4. PICK b \in Seq(X) : b = SubSeq(s, j + 1, Len(s))
  BY Halves
<1>5. a \o b = s
  BY <1>3, <1>4, Halves
<1>6. <<x>> \in Seq(X)
  OBVIOUS
<1>7. PICK c \in Seq(X) : c = a \o <<x>>
  BY <1>6, ConcatProperties
<1>8. InsertAt(s, i, x) = c \o b
  BY <1>2, <1>3, <1>4, <1>7 DEF InsertAt
<1>9. Parted(X, s, i, x, InsertAt(s, i, x), a, b, c)
  BY <1>2, <1>3, <1>5, <1>6, <1>7, <1>8 DEF Parted
<1> QED
  BY <1>9

(* t is s with x put at i.                                                 *)
Inserted(X, s, i, x, t) ==
  /\ t \in Seq(X) /\ Len(t) = Len(s) + 1
  /\ \A k \in 1..(Len(s) + 1) : t[k] = IF k < i THEN s[k] ELSE IF k = i THEN x ELSE s[k - 1]

LEMMA Inserting ==
  ASSUME NEW X, NEW s \in Seq(X), NEW i \in 1..(Len(s) + 1), NEW x \in X
  PROVE  Inserted(X, s, i, x, InsertAt(s, i, x))
<1>1. Len(s) \in Nat /\ i \in Nat /\ i <= Len(s) + 1 /\ 1 <= i
  OBVIOUS
<1>2. PICK n \in Nat : n = Len(s)
  BY <1>1
<1>3. PICK a, b, c : Parted(X, s, i, x, InsertAt(s, i, x), a, b, c)
  BY InsertedBetween
<1> a \in Seq(X) /\ b \in Seq(X) /\ c \in Seq(X) /\ <<x>> \in Seq(X)
  BY <1>3 DEF Parted
<1>4. PICK j \in Nat : j = i - 1 /\ i = j + 1 /\ j <= n
  BY <1>1, <1>2
<1>5. /\ Len(a) = j /\ Len(b) \in Nat /\ n = j + Len(b)
      /\ \A k \in 1..n : s[k] = IF k <= j THEN a[k] ELSE b[k - j]
  <2>1. /\ Len(s) = Len(a) + Len(b)
        /\ \A k \in 1..(Len(a) + Len(b)) : s[k] = IF k <= Len(a) THEN a[k] ELSE b[k - Len(a)]
    BY <1>3, ConcatProperties DEF Parted
  <2>2. Len(a) = j /\ Len(b) \in Nat
    BY <1>3, <1>4 DEF Parted
  <2> QED
    BY <1>2, <1>4, <2>1, <2>2
<1>6. Len(c) = i /\ \A k \in 1..i : c[k] = IF k <= j THEN a[k] ELSE x
  <2>1. /\ Len(c) = Len(a) + Len(<<x>>)
        /\ \A k \in 1..(Len(a) + Len(<<x>>)) : c[k] = IF k <= Len(a) THEN a[k] ELSE <<x>>[k - Len(a)]
    BY <1>3, ConcatProperties DEF Parted
  <2>2. Len(<<x>>) = 1 /\ <<x>>[1] = x
    OBVIOUS
  <2>3. Len(c) = i /\ \A k \in 1..i : c[k] = IF k <= j THEN a[k] ELSE <<x>>[k - j]
    BY <1>4, <1>5, <2>1, <2>2
  <2>4. \A k \in 1..i : ~(k <= j) => k - j = 1
    BY <1>4
  <2> QED
    BY <2>2, <2>3, <2>4
<1>7. PICK t \in Seq(X) : t = c \o b /\ t = InsertAt(s, i, x)
  BY <1>3, ConcatProperties DEF Parted
<1>8. Len(t) = n + 1 /\ \A k \in 1..(n + 1) : t[k] = IF k <= i THEN c[k] ELSE b[k - i]
  <2>1. /\ Len(t) = Len(c) + Len(b)
        /\ \A k \in 1..(Len(c) + Len(b)) : t[k] = IF k <= Len(c) THEN c[k] ELSE b[k - Len(c)]
    BY <1>7, ConcatProperties
  <2>2. Len(c) + Len(b) = n + 1
    BY <1>4, <1>5, <1>6
  <2> QED
    BY <1>6, <2>1, <2>2
<1>9. ASSUME NEW k \in 1..(n + 1)
      PROVE  t[k] = IF k < i THEN s[k] ELSE IF k = i THEN x ELSE s[k - 1]
  <2>1. CASE k < i
    <3>1. k \in 1..i /\ k <= i /\ k <= j /\ k \in 1..n
      BY <1>4, <2>1
    <3> QED
      BY <1>5, <1>6, <1>8, <2>1, <3>1
  <2>2. CASE k = i
    <3>1. k \in 1..i /\ k <= i /\ ~(k <= j) /\ ~(k < i)
      BY <1>1, <1>4, <2>2
    <3> QED
      BY <1>6, <1>8, <2>2, <3>1
  <2>3. CASE i < k
    <3>1. PICK m \in 1..n : m = k - 1 /\ m - j = k - i /\ ~(m <= j)
      BY <1>1, <1>4, <2>3
    <3>2. ~(k <= i) /\ ~(k < i) /\ k # i
      BY <1>1, <2>3
    <3>3. t[k] = b[k - i] /\ s[m] = b[m - j]
      BY <1>5, <1>8, <3>1, <3>2
    <3> QED
      BY <3>1, <3>2, <3>3
  <2> QED
    BY <1>1, <2>1, <2>2, <2>3
<1> QED
  BY <1>2, <1>7, <1>8, <1>9 DEF Inserted

(* t is s without its element at i.                                        *)
Without(X, s, i, t) ==
  /\ t \in Seq(X) /\ Len(t) = Len(s) - 1 /\ i \in 1..(Len(t) + 1)
  /\ \A k \in 1..(Len(s) - 1) : t[k] = IF k < i THEN s[k] ELSE s[k + 1]
  /\ \A x \in X : InsertAt(t, i, x) = [s EXCEPT ![i] = x]
  /\ InsertAt(t, i, s[i]) = s

LEMMA Removing ==
  ASSUME NEW X, NEW s \in Seq(X), NEW i \in 1..Len(s)
  PROVE  Without(X, s, i, RemoveAt(s, i))
<1>1. Len(s) \in Nat /\ i \in Nat /\ i <= Len(s) /\ 1 <= i /\ s[i] \in X
  OBVIOUS
<1>2. PICK j \in 0..Len(s) : i = j + 1
  <2>1. i - 1 \in 0..Len(s) /\ i = (i - 1) + 1
    BY <1>1
  <2> QED
    BY <2>1
<1>3. PICK n \in Nat : n = Len(s)
  BY <1>1
<1>4. PICK a \in Seq(X) : a = SubSeq(s, 1, j)
  BY Halves
<1>5. i \in 0..Len(s)
  BY <1>1
<1>6. PICK b \in Seq(X) : b = SubSeq(s, i + 1, n)
  BY <1>3, <1>5, Halves
<1>7. /\ Len(a) = j /\ \A k \in 1..j : a[k] = s[k]
      /\ Len(b) = n - i /\ \A k \in 1..(n - i) : b[k] = s[i + k]
  BY <1>3, <1>4, <1>5, <1>6, Halves
<1>8. PICK t \in Seq(X) : t = a \o b
  BY ConcatProperties
<1>9. t = RemoveAt(s, i)
  <2>1. i - 1 = j
    BY <1>2
  <2> QED
    BY <1>3, <1>4, <1>6, <1>8, <2>1 DEF RemoveAt
<1>10. Len(t) = n - 1 /\ \A k \in 1..(n - 1) : t[k] = IF k <= j THEN a[k] ELSE b[k - j]
  <2>1. /\ Len(t) = Len(a) + Len(b)
        /\ \A k \in 1..(Len(a) + Len(b)) : t[k] = IF k <= Len(a) THEN a[k] ELSE b[k - Len(a)]
    BY <1>8, ConcatProperties
  <2>2. Len(a) + Len(b) = n - 1
    BY <1>1, <1>2, <1>3, <1>7
  <2> QED
    BY <1>7, <2>1, <2>2
<1>11. ASSUME NEW k \in 1..(n - 1)
       PROVE  t[k] = IF k < i THEN s[k] ELSE s[k + 1]
  <2>1. CASE k < i
    <3>1. k \in 1..j /\ k <= j
      BY <1>2, <2>1
    <3> QED
      BY <1>7, <1>10, <2>1, <3>1
  <2>2. CASE ~(k < i)
    <3>1. PICK m \in 1..(n - i) : m = k - j
      BY <1>1, <1>2, <1>3, <2>2
    <3>2. ~(k <= j) /\ i + m = k + 1
      BY <1>2, <2>2, <3>1
    <3>3. t[k] = b[m] /\ b[m] = s[i + m]
      BY <1>7, <1>10, <3>1, <3>2
    <3> QED
      BY <2>2, <3>2, <3>3
  <2> QED
    BY <2>1, <2>2
<1>12. i \in 1..(Len(t) + 1)
  BY <1>1, <1>3, <1>10
<1>13. ASSUME NEW x \in X
       PROVE  InsertAt(t, i, x) = [s EXCEPT ![i] = x]
  <2>1. PICK u : u = InsertAt(t, i, x) /\ Inserted(X, t, i, x, u)
    BY <1>12, Inserting
  <2>2. u \in Seq(X) /\ Len(u) = Len(t) + 1 /\ \A k \in 1..(Len(t) + 1) :
          u[k] = IF k < i THEN t[k] ELSE IF k = i THEN x ELSE t[k - 1]
    BY <2>1 DEF Inserted
  <2>3. PICK v \in Seq(X) : v = [s EXCEPT ![i] = x]
    BY <1>13, ExceptSeq
  <2>4. Len(v) = n /\ \A k \in 1..n : v[k] = IF k = i THEN x ELSE s[k]
    BY <1>3, <1>13, <2>3, ExceptSeq
  <2>5. Len(t) + 1 = n
    BY <1>1, <1>3, <1>10
  <2>7. \A k \in 1..n : u[k] = IF k < i THEN t[k] ELSE IF k = i THEN x ELSE t[k - 1]
    BY <2>2, <2>5
  <2>6. ASSUME NEW k \in 1..n
        PROVE  u[k] = v[k]
    <3>1. CASE k < i
      <4>1. k \in 1..(n - 1)
        BY <1>1, <1>3, <3>1
      <4> QED
        BY <1>1, <1>11, <2>4, <2>7, <3>1, <4>1
    <3>2. CASE k = i
      BY <1>1, <2>4, <2>7, <3>2
    <3>3. CASE i < k
      <4>1. PICK m \in 1..(n - 1) : m = k - 1
        BY <1>1, <3>3
      <4>2. ~(m < i) /\ m + 1 = k
        BY <1>1, <3>3, <4>1
      <4>3. u[k] = t[m] /\ t[m] = s[m + 1]
        BY <1>1, <1>11, <2>7, <3>3, <4>1, <4>2
      <4>4. k # i
        BY <1>1, <3>3
      <4>5. v[k] = s[k]
        BY <2>4, <4>4
      <4> QED
        BY <4>2, <4>3, <4>5
    <3> QED
      BY <1>1, <3>1, <3>2, <3>3
  <2> QED
    BY <2>1, <2>2, <2>3, <2>4, <2>5, <2>6, SeqEqual
<1>14. [s EXCEPT ![i] = s[i]] = s
  OBVIOUS
<1> QED
  BY <1>1, <1>3, <1>9, <1>10, <1>11, <1>12, <1>13, <1>14 DEF Without

LEMMA SumOfInserted ==
  ASSUME NEW s \in Seq(Nat), NEW i \in 1..(Len(s) + 1), NEW x \in Nat
  PROVE  SumOf(InsertAt(s, i, x)) = SumOf(s) + x
<1>0. PICK a, b, c : Parted(Nat, s, i, x, InsertAt(s, i, x), a, b, c)
  BY InsertedBetween
<1>1. /\ a \in Seq(Nat) /\ b \in Seq(Nat) /\ c \in Seq(Nat) /\ <<x>> \in Seq(Nat)
      /\ s = a \o b /\ c = a \o <<x>> /\ InsertAt(s, i, x) = c \o b
  BY <1>0 DEF Parted
<1>2. SumOf(c) = SumOf(a) + SumOf(<<x>>) /\ SumOf(<<x>>) = x
  BY <1>1, SumOfJoined, SumOfFew
<1>3. SumOf(c \o b) = SumOf(c) + SumOf(b) /\ SumOf(s) = SumOf(a) + SumOf(b)
  BY <1>1, SumOfJoined
<1>4. SumOf(a) \in Nat /\ SumOf(b) \in Nat
  BY <1>1, SumType
<1> QED
  BY <1>1, <1>2, <1>3, <1>4

LEMMA EncodedInserted ==
  ASSUME LineAssumptions, NEW s \in Seq(Numbers), NEW i \in 1..(Len(s) + 1), NEW x \in Numbers
  PROVE  EncodedLength(InsertAt(s, i, x)) = EncodedLength(s) + VarNumLength(x)
<1>0. PICK a, b, c : Parted(Numbers, s, i, x, InsertAt(s, i, x), a, b, c)
  BY InsertedBetween
<1>1. /\ a \in Seq(Numbers) /\ b \in Seq(Numbers) /\ c \in Seq(Numbers) /\ <<x>> \in Seq(Numbers)
      /\ s = a \o b /\ c = a \o <<x>> /\ InsertAt(s, i, x) = c \o b
  BY <1>0 DEF Parted
<1>2. EncodedLength(c) = EncodedLength(a) + EncodedLength(<<x>>)
  BY <1>1, EncodedJoined
<1>3. /\ EncodedLength(c \o b) = EncodedLength(c) + EncodedLength(b)
      /\ EncodedLength(s) = EncodedLength(a) + EncodedLength(b)
  BY <1>1, EncodedJoined
<1>4. EncodedLength(a) \in Nat /\ EncodedLength(b) \in Nat
  BY <1>1, EncodedNumbers
<1>5. EncodedLength(<<x>>) = VarNumLength(x) /\ VarNumLength(x) \in 1..5
  BY EncodedFew, VarNums DEF Numbers
<1> QED
  BY <1>1, <1>2, <1>3, <1>4, <1>5

-----------------------------------------------------------------------------
(* Sequences joined one after the other: f[i] is the first i of ss.        *)
Joins(X, f, ss) ==
  /\ f \in [0..Len(ss) -> Seq(X)] /\ f[0] = <<>>
  /\ \A i \in 1..Len(ss) : f[i] = f[i - 1] \o ss[i]

LEMMA JoinsExist ==
  ASSUME NEW X, NEW ss \in Seq(Seq(X))
  PROVE  \E f : Joins(X, f, ss) /\ FlattenSeq(ss) = f[Len(ss)]
<1>0. Len(ss) \in Nat /\ \A i \in 1..Len(ss) : ss[i] \in Seq(X)
  OBVIOUS
<1>1. CASE Len(ss) = 0
  <2>1. ss = <<>> /\ FlattenSeq(ss) = ss
    BY <1>1 DEF FlattenSeq
  <2>2. Joins(X, [i \in 0..0 |-> <<>>], ss)
    BY <1>1 DEF Joins
  <2> QED
    BY <1>1, <2>1, <2>2
<1>2. CASE Len(ss) # 0
  <2>1. PICK g \in [1..Len(ss) -> Seq(X)] :
          /\ FlattenSeq(ss) = g[Len(ss)]
          /\ g[1] = ss[1]
          /\ \A i \in 2..Len(ss) : g[i] = g[i - 1] \o ss[i]
    BY <1>2, FlattenSteps
  <2> DEFINE f == [i \in 0..Len(ss) |-> IF i = 0 THEN <<>> ELSE g[i]]
  <2>2. f \in [0..Len(ss) -> Seq(X)] /\ f[0] = <<>> /\ f[Len(ss)] = g[Len(ss)]
    BY <1>0, <1>2
  <2>3. ASSUME NEW i \in 1..Len(ss)
        PROVE  f[i] = f[i - 1] \o ss[i]
    <3>1. CASE i = 1
      <4>1. <<>> \o ss[1] = ss[1]
        BY <1>0, <3>1, ConcatEmptySeq
      <4> QED
        BY <1>0, <2>1, <3>1, <4>1
    <3>2. CASE i # 1
      <4>1. i \in 2..Len(ss) /\ i - 1 \in 0..Len(ss) /\ i - 1 # 0 /\ i \in 0..Len(ss) /\ i # 0
        BY <1>0, <3>2
      <4> QED
        BY <2>1, <4>1
    <3> QED
      BY <3>1, <3>2
  <2> HIDE DEF f
  <2>4. Joins(X, f, ss)
    BY <2>2, <2>3 DEF Joins
  <2> QED
    BY <2>1, <2>2, <2>4
<1> QED
  BY <1>1, <1>2

LEMMA JoinsAre ==
  ASSUME NEW X, NEW ss \in Seq(Seq(X)), NEW f, Joins(X, f, ss)
  PROVE  FlattenSeq(ss) = f[Len(ss)] /\ FlattenSeq(ss) \in Seq(X)
<1>1. PICK g : Joins(X, g, ss) /\ FlattenSeq(ss) = g[Len(ss)]
  BY JoinsExist
<1> DEFINE Bad == {k \in Nat : k \in 0..Len(ss) /\ f[k] # g[k]}
<1>2. Len(ss) \in Nat
  OBVIOUS
<1>3. Bad = {}
  <2>1. SUFFICES ASSUME Bad # {}
                 PROVE  FALSE
    OBVIOUS
  <2>2. PICK k \in Bad : \A j \in Bad : k <= j
    BY <2>1, HasLeast
  <2>3. k \in 0..Len(ss) /\ f[k] # g[k] /\ k # 0
    BY <1>1, <2>2 DEF Joins
  <2>4. k - 1 \in 0..Len(ss) /\ f[k - 1] = g[k - 1] /\ k \in 1..Len(ss)
    BY <1>2, <2>2, <2>3
  <2> QED
    BY <1>1, <2>3, <2>4 DEF Joins
<1>4. f[Len(ss)] = g[Len(ss)]
  BY <1>2, <1>3
<1> QED
  BY <1>1, <1>2, <1>4 DEF Joins

(* An empty sequence among them adds nothing.                              *)
LEMMA JoinedWithEmpty ==
  ASSUME NEW X, NEW ss \in Seq(Seq(X)), NEW i \in 1..(Len(ss) + 1)
  PROVE  FlattenSeq(InsertAt(ss, i, <<>>)) = FlattenSeq(ss)
<1>1. PICK f : Joins(X, f, ss) /\ FlattenSeq(ss) = f[Len(ss)]
  BY JoinsExist
<1>2. PICK n \in Nat : n = Len(ss)
  OBVIOUS
<1>3. <<>> \in Seq(X)
  OBVIOUS
<1>4. PICK tt : tt = InsertAt(ss, i, <<>>) /\ Inserted(Seq(X), ss, i, <<>>, tt)
  BY <1>3, Inserting
<1>5. /\ tt \in Seq(Seq(X)) /\ Len(tt) = n + 1
      /\ \A k \in 1..(n + 1) : tt[k] = IF k < i THEN ss[k] ELSE IF k = i THEN <<>> ELSE ss[k - 1]
  BY <1>2, <1>4 DEF Inserted
<1>6. /\ \A k \in 0..n : f[k] \in Seq(X)
      /\ f[0] = <<>>
      /\ \A k \in 1..n : f[k] = f[k - 1] \o ss[k]
  BY <1>1, <1>2 DEF Joins
<1>7. i \in Nat /\ 1 <= i /\ i <= n + 1
  BY <1>2
<1> DEFINE g == [k \in 0..(n + 1) |-> IF k < i THEN f[k] ELSE f[k - 1]]
<1>8. g \in [0..(n + 1) -> Seq(X)] /\ g[0] = <<>>
  <2> SUFFICES ASSUME NEW k \in 0..(n + 1)
               PROVE  (IF k < i THEN f[k] ELSE f[k - 1]) \in Seq(X)
    BY <1>2, <1>6, <1>7
  <2>1. CASE k < i
    BY <1>6, <1>7, <2>1
  <2>2. CASE ~(k < i)
    <3>1. k - 1 \in 0..n
      BY <1>7, <2>2
    <3> QED
      BY <1>6, <2>2, <3>1
  <2> QED
    BY <2>1, <2>2
<1>9. ASSUME NEW k \in 1..(n + 1)
      PROVE  g[k] = g[k - 1] \o tt[k]
  <2>0. k \in 0..(n + 1) /\ k - 1 \in 0..(n + 1)
    BY <1>2
  <2>1. CASE k < i
    <3>1. k - 1 < i /\ k \in 1..n
      BY <1>7, <2>1
    <3> QED
      BY <1>5, <1>6, <2>0, <2>1, <3>1
  <2>2. CASE k = i
    <3>1. k - 1 < i /\ ~(k < i) /\ k - 1 \in 0..n
      BY <1>7, <2>2
    <3>2. g[k] = f[k - 1] /\ g[k - 1] = f[k - 1] /\ tt[k] = <<>>
      BY <1>5, <2>0, <2>2, <3>1
    <3>3. f[k - 1] \in Seq(X)
      BY <1>6, <3>1
    <3> QED
      BY <3>2, <3>3, ConcatEmptySeq
  <2>3. CASE i < k
    <3>1. PICK m \in 1..n : m = k - 1
      BY <1>7, <2>3
    <3>2. ~(k < i) /\ ~(k - 1 < i) /\ k # i
      BY <1>7, <2>3
    <3>3. g[k] = f[m] /\ g[k - 1] = f[m - 1] /\ tt[k] = ss[m]
      BY <1>5, <2>0, <3>1, <3>2
    <3>4. f[m] = f[m - 1] \o ss[m]
      BY <1>6
    <3> HIDE DEF g
    <3> QED
      BY <3>3, <3>4
  <2>4. k < i \/ k = i \/ i < k
    BY <1>2, <1>7
  <2> HIDE DEF g
  <2> QED
    BY <2>1, <2>2, <2>3, <2>4
<1>10. g[n + 1] = f[n]
  BY <1>2, <1>7
<1> HIDE DEF g
<1>11. Joins(X, g, tt)
  BY <1>5, <1>8, <1>9 DEF Joins
<1>12. FlattenSeq(tt) = g[n + 1]
  BY <1>5, <1>11, JoinsAre
<1> QED
  BY <1>1, <1>2, <1>4, <1>10, <1>12

(* Sums of the first elements.                                             *)
LEMMA SumsOfFirst ==
  ASSUME NEW s \in Seq(Nat), NEW f, Sums(f, s), NEW i \in 0..Len(s)
  PROVE  SumOf(SubSeq(s, 1, i)) = f[i]
<1>1. /\ SubSeq(s, 1, i) \in Seq(Nat) /\ Len(SubSeq(s, 1, i)) = i
      /\ \A k \in 1..i : SubSeq(s, 1, i)[k] = s[k]
  BY Halves
<1>2. PICK t \in Seq(Nat) : t = SubSeq(s, 1, i)
  BY <1>1
<1>3. Len(s) \in Nat /\ i \in Nat /\ i <= Len(s)
  OBVIOUS
<1> DEFINE g == [k \in 0..i |-> f[k]]
<1>4. Sums(g, t)
  <2>1. g \in [0..i -> Nat] /\ g[0] = 0
    <3>1. \A k \in 0..i : f[k] \in Nat
      BY <1>3 DEF Sums
    <3>2. f[0] = 0 /\ 0 \in 0..i
      BY <1>3 DEF Sums
    <3> QED
      BY <3>1, <3>2
  <2>2. ASSUME NEW k \in 1..i
        PROVE  g[k] = g[k - 1] + t[k]
    <3>1. k \in 0..i /\ k - 1 \in 0..i /\ k \in 1..Len(s)
      BY <1>3
    <3>2. g[k] = f[k] /\ g[k - 1] = f[k - 1] /\ t[k] = s[k]
      BY <1>1, <1>2, <3>1
    <3> QED
      BY <3>1, <3>2 DEF Sums
  <2> HIDE DEF g
  <2> QED
    BY <1>1, <1>2, <2>1, <2>2 DEF Sums
<1>5. g[i] = f[i]
  BY <1>3
<1> HIDE DEF g
<1> QED
  BY <1>1, <1>2, <1>4, <1>5, SumIs

-----------------------------------------------------------------------------
(* Where a sequence lies in one that is joined from several.               *)
LEMMA BeginningOf ==
  ASSUME NEW X, NEW a \in Seq(X), NEW t \in Seq(X), NEW u, u = a \o t
  PROVE  Len(a) \in 0..Len(u) /\ SubSeq(u, 1, Len(a)) = a
<1>1. PICK m \in Nat : m = Len(a)
  OBVIOUS
<1>2. /\ u \in Seq(X) /\ Len(u) = m + Len(t) /\ Len(t) \in Nat
      /\ \A k \in 1..(m + Len(t)) : u[k] = IF k <= m THEN a[k] ELSE t[k - m]
  BY <1>1, ConcatProperties
<1>3. m \in 0..Len(u)
  BY <1>1, <1>2
<1>4. PICK v : v = SubSeq(u, 1, m) /\ v \in Seq(X) /\ Len(v) = m /\ \A k \in 1..m : v[k] = u[k]
  BY <1>2, <1>3, Halves
<1>5. \A k \in 1..m : u[k] = a[k]
  BY <1>2
<1>6. v = a
  BY <1>1, <1>4, <1>5, SeqEqual
<1> QED
  BY <1>1, <1>3, <1>4, <1>6

LEMMA RangeOf ==
  ASSUME NEW X, NEW u \in Seq(X), NEW m \in 0..Len(u), NEW n \in m..Len(u)
  PROVE  /\ SubSeq(u, m + 1, n) \in Seq(X) /\ Len(SubSeq(u, m + 1, n)) = n - m
         /\ \A k \in 1..(n - m) : SubSeq(u, m + 1, n)[k] = u[m + k]
<1>1. PICK from, to \in Int : from = m + 1 /\ to = n
  OBVIOUS
<1>2. \A k \in from..to : u[k] \in X
  BY <1>1
<1>3. /\ SubSeq(u, from, to) \in Seq(X)
      /\ Len(SubSeq(u, from, to)) = IF from <= to THEN to - from + 1 ELSE 0
      /\ \A k \in 1..(to - from + 1) : SubSeq(u, from, to)[k] = u[from + k - 1]
  BY <1>2, SubSeqProperties
<1>4. /\ (IF from <= to THEN to - from + 1 ELSE 0) = n - m /\ to - from + 1 = n - m
      /\ \A k \in 1..(n - m) : from + k - 1 = m + k
  BY <1>1
<1> QED
  BY <1>1, <1>3, <1>4

LEMMA MiddleOf ==
  ASSUME NEW X, NEW a \in Seq(X), NEW p \in Seq(X), NEW t \in Seq(X), NEW b, NEW u,
         b = a \o p, u = b \o t
  PROVE  SubSeq(u, Len(a) + 1, Len(b)) = p
<1>1. PICK m \in Nat : m = Len(a)
  OBVIOUS
<1>2. PICK l \in Nat : l = Len(p)
  OBVIOUS
<1>3. /\ b \in Seq(X) /\ Len(b) = m + l
      /\ \A k \in 1..(m + l) : b[k] = IF k <= m THEN a[k] ELSE p[k - m]
  BY <1>1, <1>2, ConcatProperties
<1>4. Len(t) \in Nat
  OBVIOUS
<1>5. /\ u \in Seq(X) /\ Len(u) = m + l + Len(t)
      /\ \A k \in 1..(m + l + Len(t)) : u[k] = IF k <= m + l THEN b[k] ELSE t[k - (m + l)]
  <2>1. /\ b \o t \in Seq(X) /\ Len(b \o t) = Len(b) + Len(t)
        /\ \A k \in 1..(Len(b) + Len(t)) : (b \o t)[k] = IF k <= Len(b) THEN b[k] ELSE t[k - Len(b)]
    BY <1>3, ConcatProperties
  <2> QED
    BY <1>3, <2>1
<1>7. PICK v : v = SubSeq(u, m + 1, m + l)
  OBVIOUS
<1>8. /\ v \in Seq(X) /\ Len(v) = l
      /\ \A k \in 1..l : v[k] = u[m + k]
  <2>0. m + l \in m..Len(u) /\ (m + l) - m = l /\ m \in 0..Len(u)
    <3>1. Len(u) = m + l + Len(t)
      BY <1>5
    <3> QED
      BY <1>4, <3>1
  <2>1. PICK n \in m..Len(u) : n = m + l /\ n - m = l /\ m \in 0..Len(u)
    BY <2>0
  <2>2. /\ SubSeq(u, m + 1, n) \in Seq(X) /\ Len(SubSeq(u, m + 1, n)) = n - m
        /\ \A k \in 1..(n - m) : SubSeq(u, m + 1, n)[k] = u[m + k]
    BY <1>5, <2>1, RangeOf
  <2> QED
    BY <1>7, <2>1, <2>2
<1>9. ASSUME NEW k \in 1..l
      PROVE  v[k] = p[k]
  <2>1. PICK j \in (m + 1)..(m + l) : j = m + k /\ j - m = k /\ ~(j <= m) /\ j <= m + l
    OBVIOUS
  <2>2. j \in 1..(m + l) /\ j \in 1..(m + l + Len(t))
    BY <1>4
  <2>3. u[j] = b[j] /\ b[j] = p[j - m]
    BY <1>3, <1>5, <2>1, <2>2
  <2> QED
    BY <1>8, <2>1, <2>3
<1>10. v = p
  BY <1>2, <1>8, <1>9, SeqEqual
<1> QED
  BY <1>1, <1>3, <1>7, <1>10

Extends(X, a, b) == \E t \in Seq(X) : b = a \o t

LEMMA ExtendsMore ==
  ASSUME NEW X, NEW a \in Seq(X), NEW b, NEW c \in Seq(X), Extends(X, a, b)
  PROVE  Extends(X, a, b \o c)
<1>1. PICK t \in Seq(X) : b = a \o t
  BY DEF Extends
<1>2. PICK u \in Seq(X) : u = t \o c
  BY ConcatProperties
<1>3. b \o c = a \o u
  BY <1>1, <1>2, ConcatAssociative
<1> QED
  BY <1>3 DEF Extends

LEMMA JoinsExtend ==
  ASSUME NEW X, NEW ss \in Seq(Seq(X)), NEW f, Joins(X, f, ss), NEW i \in 0..Len(ss)
  PROVE  Extends(X, f[i], f[Len(ss)])
<1>1. PICK n \in Nat : n = Len(ss)
  OBVIOUS
<1> DEFINE Bad == {k \in Nat : i <= k /\ k <= n /\ ~Extends(X, f[i], f[k])}
<1>2. SUFFICES ASSUME Bad # {}
               PROVE  FALSE
  BY <1>1
<1>3. PICK k \in Bad : \A j \in Bad : k <= j
  BY <1>2, HasLeast
<1>4. f[i] \in Seq(X) /\ \A j \in 1..n : f[j] = f[j - 1] \o ss[j] /\ ss[j] \in Seq(X)
  BY <1>1 DEF Joins
<1>5. Extends(X, f[i], f[i])
  <2>1. <<>> \in Seq(X) /\ f[i] \o <<>> = f[i]
    BY <1>4, ConcatEmptySeq
  <2> QED
    BY <2>1 DEF Extends
<1>6. k \in Nat /\ i <= k /\ k <= n /\ ~Extends(X, f[i], f[k]) /\ k # i
  BY <1>3, <1>5
<1>7. PICK j \in Nat : j = k - 1 /\ i <= j /\ j <= n /\ ~(k <= j)
  BY <1>1, <1>6
<1>8. Extends(X, f[i], f[j])
  BY <1>3, <1>7
<1>9. k \in 1..n
  BY <1>1, <1>6
<1>10. Extends(X, f[i], f[j] \o ss[k])
  BY <1>4, <1>8, <1>9, ExtendsMore
<1>11. f[k] = f[j] \o ss[k]
  BY <1>4, <1>7, <1>9
<1> QED
  BY <1>6, <1>10, <1>11

(* The line whose sections, with these doctypes, are these distances.      *)
Represents(line, types, parts) ==
  /\ types \in Seq(Numbers) /\ parts \in Seq(Seq(Numbers)) /\ Len(parts) = Len(types)
  /\ line.header = [i \in 1..Len(types) |->
                      [doc_type |-> types[i], length |-> EncodedLength(parts[i])]]
  /\ line.sections = FlattenSeq(parts)

LEMMA HeaderOf ==
  ASSUME LineAssumptions, NEW line, NEW types, NEW parts, Represents(line, types, parts)
  PROVE  /\ Len(types) \in Nat /\ Len(line.header) = Len(types)
         /\ DOMAIN line.header = 1..Len(types)
         /\ \A i \in 1..Len(types) : /\ line.header[i].doc_type = types[i]
                                     /\ line.header[i].length = EncodedLength(parts[i])
                                     /\ EncodedLength(parts[i]) \in Nat
                                     /\ parts[i] \in Seq(Numbers)
         /\ Lengths(line.header) \in Seq(Nat) /\ Len(Lengths(line.header)) = Len(types)
         /\ \A i \in 1..Len(types) : Lengths(line.header)[i] = EncodedLength(parts[i])
<1>1. PICK n \in Nat : n = Len(types)
  BY DEF Represents
<1>2. /\ parts \in Seq(Seq(Numbers)) /\ Len(parts) = n
      /\ line.header = [i \in 1..n |-> [doc_type |-> types[i], length |-> EncodedLength(parts[i])]]
  BY <1>1 DEF Represents
<1>3. \A i \in 1..n : parts[i] \in Seq(Numbers)
  BY <1>2
<1>4. \A i \in 1..n : EncodedLength(parts[i]) \in Nat
  BY <1>3, EncodedNumbers
<1>5. \A i \in 1..n : /\ line.header[i].doc_type = types[i]
                      /\ line.header[i].length = EncodedLength(parts[i])
  BY <1>2
<1>6. DOMAIN line.header = 1..n /\ Len(line.header) = n
  BY <1>2
<1>7. Lengths(line.header) = [i \in 1..n |-> line.header[i].length]
  BY <1>6 DEF Lengths
<1>8. \A i \in 1..n : Lengths(line.header)[i] = EncodedLength(parts[i])
  BY <1>5, <1>7
<1>9. Lengths(line.header) \in Seq(Nat) /\ Len(Lengths(line.header)) = n
  <2>1. \A i \in 1..n : line.header[i].length \in Nat
    BY <1>4, <1>5
  <2> QED
    BY <1>7, <2>1
<1> QED
  BY <1>1, <1>3, <1>4, <1>5, <1>6, <1>8, <1>9

LEMMA SectionsOf ==
  ASSUME LineAssumptions, NEW line, NEW types, NEW parts, Represents(line, types, parts)
  PROVE  /\ EncodedLength(line.sections) = SumOf(Lengths(line.header))
         /\ line.sections \in Seq(Numbers)
         /\ \A i \in 1..Len(types) : DecodeSection(line, i) = parts[i]
<1>1. PICK n \in Nat : n = Len(types)
  BY HeaderOf
<1>2. PICK lens : lens = Lengths(line.header)
  OBVIOUS
<1>3. /\ lens \in Seq(Nat) /\ Len(lens) = n
      /\ \A i \in 1..n : lens[i] = EncodedLength(parts[i])
      /\ \A i \in 1..n : line.header[i].length = EncodedLength(parts[i])
      /\ \A i \in 1..n : parts[i] \in Seq(Numbers)
  BY <1>1, <1>2, HeaderOf
<1>4. parts \in Seq(Seq(Numbers)) /\ Len(parts) = n /\ line.sections = FlattenSeq(parts)
  BY <1>1 DEF Represents
<1>5. PICK f : Joins(Numbers, f, parts) /\ line.sections = f[n]
  BY <1>4, JoinsExist
<1>6. /\ \A i \in 0..n : f[i] \in Seq(Numbers)
      /\ f[0] = <<>>
      /\ \A i \in 1..n : f[i] = f[i - 1] \o parts[i]
  BY <1>4, <1>5 DEF Joins
<1> DEFINE h == [i \in 0..n |-> EncodedLength(f[i])]
<1>7. Sums(h, lens)
  <2>1. \A i \in 0..n : EncodedLength(f[i]) \in Nat
    BY <1>6, EncodedNumbers
  <2>2. h \in [0..n -> Nat]
    BY <2>1
  <2>3. h[0] = 0
    BY <1>6, EncodedFew
  <2>4. ASSUME NEW i \in 1..n
        PROVE  h[i] = h[i - 1] + lens[i]
    <3>1. PICK j \in 0..n : j = i - 1
      OBVIOUS
    <3>2. i \in 0..n /\ f[i] = f[i - 1] \o parts[i] /\ f[j] \in Seq(Numbers) /\ parts[i] \in Seq(Numbers)
      <4>1. i \in 0..n
        OBVIOUS
      <4>2. f[i] = f[i - 1] \o parts[i]
        BY <1>6
      <4>3. f[j] \in Seq(Numbers)
        BY <1>6
      <4> QED
        BY <1>3, <4>1, <4>2, <4>3
    <3>3. EncodedLength(f[i]) = EncodedLength(f[j]) + EncodedLength(parts[i])
      BY <3>1, <3>2, EncodedJoined
    <3> QED
      BY <1>3, <3>1, <3>2, <3>3
  <2> HIDE DEF h
  <2> QED
    BY <1>3, <2>2, <2>3, <2>4 DEF Sums
<1>8. \A i \in 0..n : h[i] = EncodedLength(f[i])
  OBVIOUS
<1> HIDE DEF h
<1>9. EncodedLength(line.sections) = SumOf(lens)
  <2>1. SumOf(lens) = h[n]
    BY <1>3, <1>7, SumIs
  <2> QED
    BY <1>5, <1>8, <2>1
<1>10. PICK u \in Seq(Numbers) : u = line.sections /\ u = f[n]
  BY <1>5, <1>6
<1> DEFINE before(b) == Cardinality({k \in DOMAIN u : EncodedLength(SubSeq(u, 1, k - 1)) < b})
<1>11. ASSUME NEW i \in 0..n
       PROVE  before(h[i]) = Len(f[i])
  <2>1. Extends(Numbers, f[i], u)
    BY <1>4, <1>5, <1>10, JoinsExtend
  <2>2. PICK t \in Seq(Numbers) : u = f[i] \o t
    BY <2>1 DEF Extends
  <2>3. f[i] \in Seq(Numbers)
    BY <1>6
  <2>4. PICK m \in 0..Len(u) : m = Len(f[i]) /\ SubSeq(u, 1, m) = f[i]
    BY <2>2, <2>3, BeginningOf
  <2>5. Cardinality({k \in DOMAIN u : EncodedLength(SubSeq(u, 1, k - 1))
                                        < EncodedLength(SubSeq(u, 1, m))}) = m
    BY PrefixBegins
  <2>6. h[i] = EncodedLength(SubSeq(u, 1, m))
    BY <1>8, <2>4
  <2> QED
    BY <2>4, <2>5, <2>6
<1>12. ASSUME NEW i \in 1..n
       PROVE  DecodeSection(line, i) = parts[i]
  <2>1. PICK j \in 0..n : j = i - 1
    OBVIOUS
  <2>2. i \in 0..n /\ f[i] = f[i - 1] \o parts[i] /\ f[j] \in Seq(Numbers) /\ parts[i] \in Seq(Numbers)
    <3>1. i \in 0..n
      OBVIOUS
    <3>2. f[i] = f[i - 1] \o parts[i]
      BY <1>6
    <3>3. f[j] \in Seq(Numbers)
      BY <1>6
    <3> QED
      BY <1>3, <3>1, <3>2, <3>3
  <2>3. SumOf(SubSeq(lens, 1, i - 1)) = h[j]
    BY <1>3, <1>7, <2>1, SumsOfFirst
  <2>4. h[j] + line.header[i].length = h[i]
    <3>1. h[i] = h[i - 1] + lens[i]
      BY <1>3, <1>7 DEF Sums
    <3> QED
      BY <1>3, <2>1, <3>1
  <2>5. DecodeSection(line, i) = SubSeq(u, before(h[j]) + 1, before(h[i]))
    BY <1>2, <1>10, <2>3, <2>4 DEF DecodeSection
  <2>6. DecodeSection(line, i) = SubSeq(u, Len(f[j]) + 1, Len(f[i]))
    <3> HIDE DEF before
    <3> QED
      BY <1>11, <2>2, <2>5
  <2>7. PICK t \in Seq(Numbers) : u = f[i] \o t
    <3>1. i \in 0..Len(parts)
      BY <1>4, <2>2
    <3>2. Extends(Numbers, f[i], f[Len(parts)])
      BY <1>4, <1>5, <3>1, JoinsExtend
    <3>3. Extends(Numbers, f[i], u)
      BY <1>4, <1>10, <3>2
    <3> QED
      BY <3>3 DEF Extends
  <2>8. SubSeq(u, Len(f[j]) + 1, Len(f[i])) = parts[i]
    <3>1. PICK a, p, b : a = f[j] /\ p = parts[i] /\ b = f[i]
      OBVIOUS
    <3>2. a \in Seq(Numbers) /\ p \in Seq(Numbers) /\ b = a \o p /\ u = b \o t
      BY <2>1, <2>2, <2>7, <3>1
    <3>3. SubSeq(u, Len(a) + 1, Len(b)) = p
      BY <3>2, MiddleOf
    <3> QED
      BY <3>1, <3>3
  <2> QED
    BY <2>6, <2>8
<1> QED
  BY <1>1, <1>2, <1>9, <1>10, <1>12

-----------------------------------------------------------------------------
(* The docids of a section.                                                *)
Ids(s) == ToSet(DocIds(s))

LEMMA IdsAre ==
  ASSUME NEW s \in Seq(Nat), NEW f, Sums(f, s)
  PROVE  /\ DocIds(s) \in Seq(Nat) /\ Len(DocIds(s)) = Len(s)
         /\ \A k \in 1..Len(s) : DocIds(s)[k] = f[k]
         /\ Ids(s) = {f[k] : k \in 1..Len(s)}
<1>1. \A k \in 1..Len(s) : SumOf(SubSeq(s, 1, k)) = f[k] /\ f[k] \in Nat
  <2> TAKE k \in 1..Len(s)
  <2>1. k \in 0..Len(s)
    OBVIOUS
  <2> QED
    BY <2>1, SumsOfFirst DEF Sums
<1>2. DocIds(s) = [k \in 1..Len(s) |-> SumOf(SubSeq(s, 1, k))]
  BY DEF DocIds
<1>3. \A k \in 1..Len(s) : DocIds(s)[k] = f[k]
  BY <1>1, <1>2
<1>4. DOMAIN DocIds(s) = 1..Len(s)
  BY <1>2
<1>5. Ids(s) = {f[k] : k \in 1..Len(s)}
  BY <1>3, <1>4 DEF Ids, ToSet
<1>6. DocIds(s) \in Seq(Nat) /\ Len(DocIds(s)) = Len(s)
  BY <1>1, <1>2
<1> QED
  BY <1>3, <1>5, <1>6

LEMMA IdsJoined ==
  ASSUME NEW a \in Seq(Nat), NEW b \in Seq(Nat)
  PROVE  Ids(a \o b) = Ids(a) \cup {SumOf(a) + x : x \in Ids(b)}
<1>1. PICK f : Sums(f, a) /\ SumOf(a) = f[Len(a)]
  BY SumSteps
<1>2. PICK g : Sums(g, b)
  BY SumSteps
<1>3. PICK m, n \in Nat : m = Len(a) /\ n = Len(b)
  OBVIOUS
<1>4. PICK c \in Seq(Nat) : c = a \o b /\ Len(c) = m + n
  BY <1>3, ConcatProperties
<1>5. PICK h : h = SumsOn(f, g, m, n) /\ Sums(h, c)
  BY <1>1, <1>2, <1>3, <1>4, SumsJoined
<1>6. /\ Ids(a) = {f[k] : k \in 1..m}
      /\ Ids(b) = {g[k] : k \in 1..n}
      /\ Ids(c) = {h[k] : k \in 1..(m + n)}
  <2>1. Ids(a) = {f[k] : k \in 1..Len(a)}
    BY <1>1, IdsAre
  <2>2. Ids(b) = {g[k] : k \in 1..Len(b)}
    BY <1>2, IdsAre
  <2>3. Ids(c) = {h[k] : k \in 1..Len(c)}
    <3>1. Sums(h, c)
      BY <1>4, <1>5
    <3> QED
      BY <3>1, IdsAre
  <2> QED
    BY <1>3, <1>4, <2>1, <2>2, <2>3
<1>7. \A k \in 1..m : h[k] = f[k] /\ k \in 1..(m + n)
  BY <1>5 DEF SumsOn
<1>8. ASSUME NEW k \in 1..n
      PROVE  m + k \in 1..(m + n) /\ h[m + k] = SumOf(a) + g[k]
  <2>1. m + k \in 0..(m + n) /\ ~(m + k <= m) /\ m + k - m = k
    OBVIOUS
  <2> QED
    BY <1>1, <1>3, <1>5, <2>1 DEF SumsOn
<1>9. ASSUME NEW k \in 1..(m + n), ~(k \in 1..m)
      PROVE  \E j \in 1..n : k = m + j
  <2>1. k - m \in 1..n /\ k = m + (k - m)
    BY <1>9
  <2> QED
    BY <2>1
<1>10. ASSUME NEW x \in Ids(c)
       PROVE  x \in Ids(a) \/ \E y \in Ids(b) : x = SumOf(a) + y
  <2>1. PICK k \in 1..(m + n) : x = h[k]
    BY <1>6
  <2>2. CASE k \in 1..m
    BY <1>6, <1>7, <2>1, <2>2
  <2>3. CASE ~(k \in 1..m)
    <3>1. PICK j \in 1..n : k = m + j
      BY <1>9, <2>3
    <3> QED
      BY <1>6, <1>8, <2>1, <3>1
  <2> QED
    BY <2>2, <2>3
<1>11. \A x \in Ids(a) : x \in Ids(c)
  BY <1>6, <1>7
<1>12. \A y \in Ids(b) : SumOf(a) + y \in Ids(c)
  BY <1>6, <1>8
<1> QED
  BY <1>4, <1>10, <1>11, <1>12

LEMMA IdsOfFew ==
  /\ Ids(<<>>) = {}
  /\ \A x \in Nat : Ids(<<x>>) = {x}
<1>1. Ids(<<>>) = {}
  BY DEF Ids, DocIds, ToSet
<1>2. ASSUME NEW x \in Nat
      PROVE  Ids(<<x>>) = {x}
  <2>0. <<x>> \in Seq(Nat)
    OBVIOUS
  <2>1. PICK s \in Seq(Nat) : s = <<x>>
    BY <2>0
  <2>2. Len(s) = 1 /\ s[1] = x
    BY <2>1
  <2>3. PICK f : Sums(f, s)
    BY SumSteps
  <2>4. f[1] = x
    <3>1. f[1] = f[1 - 1] + s[1] /\ f[0] = 0
      BY <2>2, <2>3 DEF Sums
    <3> QED
      BY <2>2, <3>1
  <2>5. Ids(s) = {f[k] : k \in 1..1}
    BY <2>2, <2>3, IdsAre
  <2> QED
    BY <2>1, <2>4, <2>5
<1> QED
  BY <1>1, <1>2

(* The distances of a section: every docid is another.                     *)
Steps == Numbers \ {0}

LEMMA StepsAreNumbers ==
  ASSUME NEW s \in Seq(Steps)
  PROVE  s \in Seq(Numbers) /\ s \in Seq(Nat)
<1>1. Steps \subseteq Numbers /\ Steps \subseteq Nat
  BY DEF Steps, Numbers
<1> QED
  BY <1>1, SeqMonotonic

LEMMA IdsGrow ==
  ASSUME NEW s \in Seq(Steps), NEW f, Sums(f, s)
  PROVE  \A j, k \in 0..Len(s) : j < k => f[j] < f[k]
<1>1. PICK n \in Nat : n = Len(s)
  OBVIOUS
<1> SUFFICES ASSUME NEW j \in 0..n, NEW l \in 0..n, j < l, ~(f[j] < f[l])
             PROVE  FALSE
  BY <1>1
<1> DEFINE Bad == {k \in Nat : k \in 0..n /\ j < k /\ ~(f[j] < f[k])}
<1>2. PICK k \in Bad : \A i \in Bad : k <= i
  <2>1. Bad # {}
    OBVIOUS
  <2> QED
    BY <2>1, HasLeast
<1>3. k \in 1..n /\ j < k /\ ~(f[j] < f[k])
  BY <1>2
<1>4. PICK i \in 0..n : i = k - 1 /\ ~(k <= i) /\ j <= i
  BY <1>3
<1>5. f[k] = f[i] + s[k] /\ f[i] \in Nat /\ f[j] \in Nat /\ s[k] \in Nat /\ 0 < s[k]
  <2>1. s[k] \in Steps
    BY <1>1, <1>3
  <2>2. s[k] \in Nat /\ 0 < s[k]
    BY <2>1 DEF Steps, Numbers
  <2>3. f[k] = f[k - 1] + s[k] /\ f[i] \in Nat /\ f[j] \in Nat
    BY <1>1, <1>3 DEF Sums
  <2> QED
    BY <1>4, <2>2, <2>3
<1>6. j = i \/ f[j] < f[i]
  <2>1. i \in Nat /\ i \notin Bad
    BY <1>2, <1>4
  <2> QED
    BY <1>4, <2>1
<1> QED
  BY <1>3, <1>5, <1>6

(* The first elements of an increasing sequence are those below a number.  *)
LEMMA BelowSplits ==
  ASSUME NEW s \in Seq(Nat), NEW x \in Nat,
         \A j, k \in 1..Len(s) : j < k => s[j] < s[k]
  PROVE  /\ Below(s, x) \in 0..Len(s)
         /\ \A k \in 1..Len(s) : k <= Below(s, x) <=> s[k] < x
<1>1. PICK n \in Nat : n = Len(s)
  OBVIOUS
<1>2. \A k \in 1..n : s[k] \in Nat
  BY <1>1
<1> DEFINE Over == {k \in Nat : k \in 1..(n + 1) /\ (k = n + 1 \/ ~(s[k] < x))}
<1>3. n + 1 \in Over
  OBVIOUS
<1>4. PICK l \in Over : \A k \in Over : l <= k
  <2>1. Over # {} /\ Over \subseteq Nat
    BY <1>3
  <2> QED
    BY <2>1, HasLeast
<1>5. l \in 1..(n + 1) /\ (l = n + 1 \/ ~(s[l] < x))
  BY <1>4
<1>6. PICK m \in 0..n : m = l - 1 /\ l = m + 1
  BY <1>5
<1>7. ASSUME NEW k \in 1..n
      PROVE  k <= m <=> s[k] < x
  <2>1. CASE k <= m
    <3>1. k \in Nat /\ ~(l <= k)
      BY <1>6, <2>1
    <3>2. k \notin Over
      BY <1>4, <3>1
    <3>3. k \in 1..(n + 1) /\ k # n + 1
      OBVIOUS
    <3> QED
      BY <2>1, <3>2, <3>3
  <2>2. CASE ~(k <= m)
    <3>1. l \in 1..n /\ (l = k \/ l < k)
      BY <1>5, <1>6, <2>2
    <3>2. ~(s[l] < x) /\ s[l] \in Nat /\ s[k] \in Nat
      BY <1>2, <1>5, <3>1
    <3>3. l = k \/ s[l] < s[k]
      BY <1>1, <3>1
    <3> QED
      BY <2>2, <3>2, <3>3
  <2> QED
    BY <2>1, <2>2
<1>8. {k \in DOMAIN s : s[k] < x} = 1..m
  <2>1. DOMAIN s = 1..n
    BY <1>1
  <2> QED
    BY <1>7, <2>1
<1>9. Below(s, x) = m
  <2>1. Cardinality(1..m) = m
    BY <1>6, FS_Interval
  <2> QED
    BY <1>8, <2>1 DEF Below
<1> QED
  BY <1>1, <1>6, <1>7, <1>9

LEMMA IdsBounded ==
  ASSUME NEW s \in Seq(Steps)
  PROVE  /\ \A x \in Ids(s) : x \in Nat /\ 0 < x /\ x <= SumOf(s)
         /\ s # <<>> => Ids(s) # {}
<1>1. s \in Seq(Nat)
  BY StepsAreNumbers
<1>2. PICK f : Sums(f, s) /\ SumOf(s) = f[Len(s)]
  BY <1>1, SumSteps
<1>3. PICK n \in Nat : n = Len(s)
  OBVIOUS
<1>4. \A j, k \in 0..n : j < k => f[j] < f[k]
  BY <1>2, <1>3, IdsGrow
<1>5. (\A k \in 0..n : f[k] \in Nat) /\ f[0] = 0
  BY <1>2, <1>3 DEF Sums
<1>6. Ids(s) = {f[k] : k \in 1..n}
  BY <1>1, <1>2, <1>3, IdsAre
<1>7. ASSUME NEW k \in 1..n
      PROVE  f[k] \in Nat /\ 0 < f[k] /\ f[k] <= f[n]
  <2>1. k \in 0..n /\ 0 \in 0..n /\ n \in 0..n /\ 0 < k /\ (k = n \/ k < n)
    OBVIOUS
  <2>2. f[0] < f[k] /\ (k = n \/ f[k] < f[n]) /\ f[k] \in Nat /\ f[n] \in Nat
    BY <1>4, <1>5, <2>1
  <2> QED
    BY <1>5, <2>2
<1>8. ASSUME s # <<>>
      PROVE  Ids(s) # {}
  <2>1. 1 \in 1..n
    BY <1>3, <1>8
  <2> QED
    BY <1>6, <2>1
<1> QED
  BY <1>2, <1>3, <1>6, <1>7, <1>8

Appended(a, p, b) ==
  /\ b \in Seq(Steps) /\ SumOf(b) = SumOf(a) + p /\ p \in Nat /\ SumOf(a) \in Nat
  /\ Ids(b) = Ids(a) \cup {SumOf(a) + p}
  /\ SumOf(a) + p \notin Ids(a)
  /\ LineAssumptions => EncodedLength(b) = EncodedLength(a) + VarNumLength(p)

LEMMA IdsAppended ==
  ASSUME NEW a \in Seq(Steps), NEW p \in Steps, NEW b, b = a \o <<p>>
  PROVE  Appended(a, p, b)
<1>1. a \in Seq(Nat) /\ a \in Seq(Numbers) /\ p \in Nat /\ p \in Numbers /\ 0 < p
  BY StepsAreNumbers DEF Steps, Numbers
<1>2. PICK q : q = <<p>> /\ q \in Seq(Nat) /\ q \in Seq(Numbers) /\ q \in Seq(Steps)
  <2>1. <<p>> \in Seq(Nat)
    BY <1>1
  <2>2. <<p>> \in Seq(Numbers)
    BY <1>1
  <2>3. <<p>> \in Seq(Steps)
    OBVIOUS
  <2> QED
    BY <2>1, <2>2, <2>3
<1>3. SumOf(q) = p /\ Ids(q) = {p}
  BY <1>1, <1>2, SumOfFew, IdsOfFew
<1>4. b \in Seq(Steps)
  BY <1>2, ConcatProperties
<1>5. SumOf(b) = SumOf(a) + p
  BY <1>1, <1>2, <1>3, SumOfJoined
<1>6. Ids(b) = Ids(a) \cup {SumOf(a) + x : x \in Ids(q)}
  BY <1>1, <1>2, IdsJoined
<1>7. SumOf(a) \in Nat
  BY <1>1, SumType
<1>8. SumOf(a) + p \notin Ids(a)
  <2>1. \A x \in Ids(a) : x <= SumOf(a) /\ x \in Nat
    BY IdsBounded
  <2>2. ~(SumOf(a) + p <= SumOf(a))
    BY <1>1, <1>7
  <2> QED
    BY <2>1, <2>2
<1>9. ASSUME LineAssumptions
      PROVE  EncodedLength(b) = EncodedLength(a) + VarNumLength(p)
  <2>1. EncodedLength(b) = EncodedLength(a) + EncodedLength(q)
    BY <1>1, <1>2, <1>9, EncodedJoined
  <2>2. EncodedLength(q) = VarNumLength(p)
    BY <1>1, <1>2, <1>9, EncodedFew
  <2> QED
    BY <2>1, <2>2
<1> QED
  BY <1>1, <1>3, <1>4, <1>5, <1>6, <1>7, <1>8, <1>9 DEF Appended

(* The docids of s are those of t and one more.                            *)
OneMore(s, t, id) ==
  /\ s \in Seq(Steps) /\ t \in Seq(Steps)
  /\ Ids(s) = Ids(t) \cup {id} /\ id \notin Ids(t)
  /\ LineAssumptions => /\ EncodedLength(s) <= EncodedLength(t) + 5
                        /\ EncodedLength(t) <= EncodedLength(s)

(* A docid that falls in the distance p + q.                               *)
LEMMA IdsDivided ==
  ASSUME NEW a \in Seq(Steps), NEW g \in Seq(Steps), NEW p \in Steps, NEW q \in Steps,
         p + q \in Steps, NEW b, b = a \o <<p>>, NEW c, c = b \o <<q>>,
         NEW s, s = c \o g, NEW e, e = a \o <<p + q>>, NEW t, t = e \o g
  PROVE  OneMore(s, t, SumOf(a) + p)
<1>0. PICK r \in Steps : r = p + q
  OBVIOUS
<1>1. /\ b \in Seq(Steps) /\ SumOf(b) = SumOf(a) + p /\ p \in Nat /\ SumOf(a) \in Nat
      /\ Ids(b) = Ids(a) \cup {SumOf(a) + p} /\ SumOf(a) + p \notin Ids(a)
      /\ LineAssumptions => EncodedLength(b) = EncodedLength(a) + VarNumLength(p)
  <2>1. Appended(a, p, b)
    BY IdsAppended
  <2> QED
    BY <2>1 DEF Appended
<1>2. /\ c \in Seq(Steps) /\ SumOf(c) = SumOf(b) + q /\ q \in Nat
      /\ Ids(c) = Ids(b) \cup {SumOf(b) + q}
      /\ LineAssumptions => EncodedLength(c) = EncodedLength(b) + VarNumLength(q)
  <2>1. Appended(b, q, c)
    BY <1>1, IdsAppended
  <2> QED
    BY <2>1 DEF Appended
<1>3. /\ e \in Seq(Steps) /\ SumOf(e) = SumOf(a) + r
      /\ Ids(e) = Ids(a) \cup {SumOf(a) + r}
      /\ LineAssumptions => EncodedLength(e) = EncodedLength(a) + VarNumLength(r)
  <2>1. Appended(a, r, e)
    <3>1. e = a \o <<r>>
      BY <1>0
    <3> QED
      BY <3>1, IdsAppended
  <2> QED
    BY <2>1 DEF Appended
<1>4. SumOf(c) = SumOf(e) /\ SumOf(e) \in Nat /\ SumOf(a) + p < SumOf(e)
  <2>1. 0 < q
    BY <1>2 DEF Steps
  <2>2. PICK i, j, k \in Nat : i = SumOf(a) /\ j = p /\ k = q
    BY <1>1, <1>2
  <2>3. r = j + k /\ SumOf(c) = (i + j) + k /\ SumOf(e) = i + (j + k)
    BY <1>0, <1>1, <1>2, <1>3, <2>2
  <2>4. (i + j) + k = i + (j + k) /\ i + (j + k) \in Nat /\ i + j < i + (j + k)
    BY <2>1, <2>2
  <2> QED
    BY <2>2, <2>3, <2>4
<1>5. s \in Seq(Steps) /\ t \in Seq(Steps)
  BY <1>2, <1>3, ConcatProperties
<1>6. PICK late : late = {SumOf(e) + x : x \in Ids(g)}
  OBVIOUS
<1>7. Ids(s) = Ids(c) \cup late /\ Ids(t) = Ids(e) \cup late
  <2>1. c \in Seq(Nat) /\ e \in Seq(Nat) /\ g \in Seq(Nat)
    BY <1>2, <1>3, StepsAreNumbers
  <2>2. Ids(s) = Ids(c) \cup {SumOf(c) + x : x \in Ids(g)}
    BY <2>1, IdsJoined
  <2>3. Ids(t) = Ids(e) \cup {SumOf(e) + x : x \in Ids(g)}
    BY <2>1, IdsJoined
  <2> QED
    BY <1>4, <1>6, <2>2, <2>3
<1>8. Ids(s) = Ids(t) \cup {SumOf(a) + p}
  <2>1. SumOf(b) + q = SumOf(a) + r
    BY <1>2, <1>3, <1>4
  <2>2. Ids(c) = Ids(e) \cup {SumOf(a) + p}
    BY <1>1, <1>2, <1>3, <2>1
  <2> QED
    BY <1>7, <2>2
<1>9. SumOf(a) + p \notin Ids(t)
  <2>1. SumOf(a) + p # SumOf(a) + r
    BY <1>1, <1>3, <1>4
  <2>2. SumOf(a) + p \notin late
    <3>1. \A x \in Ids(g) : SumOf(a) + p # SumOf(e) + x
      <4> TAKE x \in Ids(g)
      <4>1. x \in Nat
        BY IdsBounded
      <4> QED
        BY <1>1, <1>4, <4>1
    <3> QED
      BY <1>6, <3>1
  <2> QED
    BY <1>1, <1>3, <1>7, <2>1, <2>2
<1>10. ASSUME LineAssumptions
       PROVE  /\ EncodedLength(s) <= EncodedLength(t) + 5
              /\ EncodedLength(t) <= EncodedLength(s)
  <2>1. c \in Seq(Numbers) /\ e \in Seq(Numbers) /\ g \in Seq(Numbers) /\ a \in Seq(Numbers)
    BY <1>2, <1>3, StepsAreNumbers
  <2>2. /\ EncodedLength(s) = EncodedLength(c) + EncodedLength(g)
        /\ EncodedLength(t) = EncodedLength(e) + EncodedLength(g)
    BY <1>10, <2>1, EncodedJoined
  <2>3. EncodedLength(g) \in Nat /\ EncodedLength(a) \in Nat
    BY <1>10, <2>1, EncodedNumbers
  <2>4. /\ p \in Nat /\ q \in Nat /\ r \in Nat /\ p < Capacity[5] /\ q < Capacity[5] /\ r < Capacity[5]
        /\ q <= r
    BY <1>0, <1>1, <1>2 DEF Steps, Numbers
  <2>5. VarNumLength(p) \in 1..5 /\ VarNumLength(q) \in 1..5 /\ VarNumLength(r) \in 1..5
    BY <1>10, <2>4, VarNums
  <2>6. VarNumLength(q) <= VarNumLength(r)
    BY <1>10, <2>4, VarNumsGrow
  <2>7. VarNumLength(r) <= VarNumLength(p) + VarNumLength(q)
    BY <1>0, <1>10, <2>4, VarNumsGrow
  <2>8. /\ EncodedLength(c) = (EncodedLength(a) + VarNumLength(p)) + VarNumLength(q)
        /\ EncodedLength(e) = EncodedLength(a) + VarNumLength(r)
    BY <1>1, <1>2, <1>3, <1>10
  <2>9. PICK x, y, z \in 1..5 :
          x = VarNumLength(p) /\ y = VarNumLength(q) /\ z = VarNumLength(r)
    BY <2>5
  <2>10. PICK l, o \in Nat : l = EncodedLength(a) /\ o = EncodedLength(g)
    BY <2>3
  <2>11. EncodedLength(s) = ((l + x) + y) + o /\ EncodedLength(t) = (l + z) + o /\ y <= z /\ z <= x + y
    BY <2>2, <2>6, <2>7, <2>8, <2>9, <2>10
  <2>12. ((l + x) + y) + o <= ((l + z) + o) + 5 /\ (l + z) + o <= ((l + x) + y) + o
    <3>1. /\ l \in Nat /\ o \in Nat /\ x \in Nat /\ y \in Nat /\ z \in Nat
          /\ x <= 5 /\ y <= z /\ z <= x + y
      BY <2>11
    <3> HIDE <2>11
    <3> QED
      BY <3>1
  <2> QED
    BY <2>11, <2>12
<1> QED
  BY <1>5, <1>8, <1>9, <1>10 DEF OneMore

(* The distances a before a docid, and b from there on.                    *)
Around(s, id, m, a, b) ==
  /\ m \in 0..Len(s) /\ a \in Seq(Steps) /\ b \in Seq(Steps)
  /\ a = SubSeq(s, 1, m) /\ b = SubSeq(s, m + 1, Len(s)) /\ s = a \o b
  /\ SumOf(a) \in Nat /\ SumOf(a) < id
  /\ SumOf(a) = IF m = 0 THEN 0 ELSE DocIds(s)[m]
  /\ Len(DocIds(s)) = Len(s)
  /\ m < Len(s) =>
       /\ s[m + 1] \in Steps /\ DocIds(s)[m + 1] = SumOf(a) + s[m + 1] /\ id <= SumOf(a) + s[m + 1]
       /\ SubSeq(s, m + 2, Len(s)) \in Seq(Steps)
       /\ a \o <<s[m + 1]>> \in Seq(Steps)
       /\ s = (a \o <<s[m + 1]>>) \o SubSeq(s, m + 2, Len(s))

LEMMA DocIdAround ==
  ASSUME NEW s \in Seq(Steps), NEW id \in Nat \ {0}
  PROVE  \E a, b : Around(s, id, Below(DocIds(s), id), a, b)
<1>1. s \in Seq(Nat)
  BY StepsAreNumbers
<1>2. PICK f : Sums(f, s)
  BY <1>1, SumSteps
<1>3. PICK n \in Nat : n = Len(s)
  OBVIOUS
<1>4. PICK ids : ids = DocIds(s) /\ ids \in Seq(Nat) /\ Len(ids) = n /\ \A k \in 1..n : ids[k] = f[k]
  BY <1>1, <1>2, <1>3, IdsAre
<1>5. \A j, k \in 1..n : j < k => ids[j] < ids[k]
  <2> TAKE j, k \in 1..n
  <2>1. j \in 0..n /\ k \in 0..n
    OBVIOUS
  <2> QED
    BY <1>2, <1>3, <1>4, <2>1, IdsGrow
<1>6. PICK m \in 0..n : m = Below(ids, id) /\ \A k \in 1..n : k <= m <=> ids[k] < id
  BY <1>4, <1>5, BelowSplits
<1>7. \A k \in 0..n : SumOf(SubSeq(s, 1, k)) = f[k] /\ f[k] \in Nat
  BY <1>1, <1>2, <1>3, SumsOfFirst DEF Sums
<1>8. PICK a : a = SubSeq(s, 1, m)
  OBVIOUS
<1>9. PICK b : b = SubSeq(s, m + 1, n)
  OBVIOUS
<1>10. a \in Seq(Steps) /\ b \in Seq(Steps) /\ s = a \o b
  BY <1>3, <1>8, <1>9, Halves
<1>11. SumOf(a) = f[m] /\ SumOf(a) \in Nat /\ SumOf(a) = IF m = 0 THEN 0 ELSE ids[m]
  <2>1. f[0] = 0
    BY <1>2 DEF Sums
  <2>2. m # 0 => m \in 1..n
    BY <1>6
  <2> QED
    BY <1>4, <1>7, <1>8, <2>1, <2>2
<1>12. SumOf(a) < id
  <2>1. CASE m = 0
    BY <1>11, <2>1
  <2>2. CASE m # 0
    <3>1. m \in 1..n /\ m <= m
      BY <1>6, <2>2
    <3> QED
      BY <1>6, <1>11, <2>2, <3>1
  <2> QED
    BY <2>1, <2>2
<1>13. ASSUME m < n
       PROVE  /\ s[m + 1] \in Steps /\ ids[m + 1] = SumOf(a) + s[m + 1] /\ id <= SumOf(a) + s[m + 1]
              /\ SubSeq(s, m + 2, n) \in Seq(Steps)
              /\ a \o <<s[m + 1]>> \in Seq(Steps)
              /\ s = (a \o <<s[m + 1]>>) \o SubSeq(s, m + 2, n)
  <2>1. PICK l \in 1..n : l = m + 1 /\ l - 1 = m /\ ~(l <= m) /\ l + 1 = m + 2
    BY <1>13
  <2>2. s[l] \in Steps /\ s[l] \in Nat /\ l \in 0..Len(s)
    BY <1>1, <1>3
  <2>3. f[l] = f[l - 1] + s[l]
    BY <1>2, <1>3 DEF Sums
  <2>4. ~(ids[l] < id) /\ ids[l] = f[l]
    BY <1>4, <1>6, <2>1
  <2>5. ids[l] = SumOf(a) + s[l] /\ id <= SumOf(a) + s[l]
    <3>1. f[l - 1] = f[m]
      BY <2>1
    <3>2. ids[l] = SumOf(a) + s[l]
      BY <1>11, <2>3, <2>4, <3>1
    <3> QED
      BY <1>11, <2>2, <2>4, <3>2
  <2>6. SubSeq(s, l + 1, n) \in Seq(Steps) /\ s = SubSeq(s, 1, l) \o SubSeq(s, l + 1, n)
    BY <1>3, <2>2, Halves
  <2>7. SubSeq(s, 1, l) = SubSeq(s, 1, l - 1) \o <<s[l]>>
    <3>1. 1 \in 1..Len(s) /\ l \in 1..Len(s)
      BY <1>3, <2>1
    <3> QED
      BY <3>1, SubSeqRecursiveSecond
  <2>8. a \o <<s[l]>> \in Seq(Steps)
    <3>1. <<s[l]>> \in Seq(Steps)
      BY <2>2
    <3> QED
      BY <1>10, <3>1, ConcatProperties
  <2> QED
    BY <1>8, <2>1, <2>2, <2>5, <2>6, <2>7, <2>8
<1>14. Around(s, id, m, a, b)
  BY <1>3, <1>4, <1>6, <1>8, <1>9, <1>10, <1>11, <1>12, <1>13 DEF Around
<1> QED
  BY <1>4, <1>6, <1>14

LEMMA PairJoined ==
  ASSUME NEW p, NEW q
  PROVE  <<p>> \o <<q>> = <<p, q>>
<1> DEFINE S == {p, q}
<1>1. PICK a \in Seq(S) : a = <<p>> /\ Len(a) = 1 /\ a[1] = p
  <2>1. <<p>> \in Seq(S)
    OBVIOUS
  <2> QED
    BY <2>1
<1>2. PICK b \in Seq(S) : b = <<q>> /\ Len(b) = 1 /\ b[1] = q
  <2>1. <<q>> \in Seq(S)
    OBVIOUS
  <2> QED
    BY <2>1
<1>3. PICK c \in Seq(S) : c = <<p, q>> /\ Len(c) = 2 /\ c[1] = p /\ c[2] = q
  <2>1. <<p, q>> \in Seq(S)
    OBVIOUS
  <2> QED
    BY <2>1
<1> HIDE DEF S
<1>4. PICK d \in Seq(S) : d = a \o b
  BY ConcatProperties
<1>5. Len(d) = 2 /\ \A k \in 1..2 : d[k] = IF k <= 1 THEN a[k] ELSE b[k - 1]
  <2>1. /\ Len(d) = Len(a) + Len(b)
        /\ \A k \in 1..(Len(a) + Len(b)) : d[k] = IF k <= Len(a) THEN a[k] ELSE b[k - Len(a)]
    BY <1>4, ConcatProperties
  <2> QED
    BY <1>1, <1>2, <2>1
<1>6. d[1] = p /\ d[2] = q
  BY <1>1, <1>2, <1>5
<1>7. d = c
  <2>1. \A k \in 1..2 : d[k] = c[k]
    BY <1>3, <1>6
  <2> QED
    BY <1>3, <1>5, <2>1, SeqEqual
<1> QED
  BY <1>1, <1>2, <1>3, <1>4, <1>7

(* What adding a docid does to a section.                                  *)
LEMMA Added ==
  ASSUME LineAssumptions, NEW s \in Seq(Steps), NEW id \in Steps,
         NEW t, t = AddToSection(s, id)
  PROVE  /\ t \in Seq(Steps) /\ t # <<>>
         /\ Ids(t) = Ids(s) \cup {id}
         /\ EncodedLength(t) <= EncodedLength(s) + 5
<1>1. id \in Nat \ {0} /\ id < Capacity[5]
  BY DEF Steps, Numbers
<1>2. PICK n \in Nat : n = Len(s)
  OBVIOUS
<1>3. PICK m : m = Below(DocIds(s), id)
  OBVIOUS
<1>4. PICK a, b : Around(s, id, m, a, b)
  BY <1>1, <1>3, DocIdAround
<1>5. /\ m \in 0..n /\ a \in Seq(Steps) /\ a = SubSeq(s, 1, m) /\ Len(DocIds(s)) = n
      /\ SumOf(a) \in Nat /\ SumOf(a) < id
      /\ SumOf(a) = IF m = 0 THEN 0 ELSE DocIds(s)[m]
  BY <1>2, <1>4 DEF Around
<1>6. PICK p \in Nat : p = id - SumOf(a) /\ p # 0 /\ p <= id /\ SumOf(a) + p = id
  <2>1. id - SumOf(a) \in Nat /\ id - SumOf(a) # 0 /\ id - SumOf(a) <= id
          /\ SumOf(a) + (id - SumOf(a)) = id
    BY <1>1, <1>5
  <2> QED
    BY <2>1
<1>7. p \in Steps
  <2>1. Capacity[5] \in Nat
    BY CapacityOfFew
  <2>2. p < Capacity[5]
    BY <1>1, <1>6, <2>1
  <2> QED
    BY <1>6, <2>2 DEF Steps, Numbers
<1>8. PICK v : v = VarNumLength(p) /\ v \in 1..5
  <2>1. p \in Nat /\ p < Capacity[5]
    BY <1>7 DEF Steps, Numbers
  <2> QED
    BY <2>1, VarNums
<1>9. s \in Seq(Numbers) /\ EncodedLength(s) \in Nat
  BY StepsAreNumbers, EncodedNumbers
<1>10. t = IF m = n THEN Append(s, id - SumOf(a))
           ELSE IF DocIds(s)[m + 1] = id THEN s
           ELSE SubSeq(s, 1, m) \o <<id - SumOf(a), DocIds(s)[m + 1] - id>> \o SubSeq(s, m + 2, n)
  BY <1>2, <1>3, <1>5 DEF AddToSection
<1>11. CASE m = n
  <2>1. a = s
    BY <1>2, <1>5, <1>11, SubSeqFull
  <2>2. t = s \o <<p>>
    <3>1. t = Append(s, p)
      BY <1>6, <1>10, <1>11
    <3> QED
      BY <1>7, <3>1, AppendIsConcat
  <2>3. Appended(s, p, t)
    BY <1>7, <2>2, IdsAppended
  <2>4. /\ t \in Seq(Steps) /\ Ids(t) = Ids(s) \cup {SumOf(s) + p}
        /\ EncodedLength(t) = EncodedLength(s) + VarNumLength(p)
    BY <2>3 DEF Appended
  <2>5. Ids(t) = Ids(s) \cup {id}
    BY <1>6, <2>1, <2>4
  <2>6. t # <<>>
    BY <2>5, IdsOfFew
  <2> QED
    BY <1>8, <1>9, <2>4, <2>5, <2>6
<1>12. CASE m # n
  <2>1. PICK d : d = s[m + 1]
    OBVIOUS
  <2>2. PICK g : g = SubSeq(s, m + 2, n)
    OBVIOUS
  <2>3. PICK e : e = a \o <<d>>
    OBVIOUS
  <2>4. /\ d \in Steps /\ DocIds(s)[m + 1] = SumOf(a) + d /\ id <= SumOf(a) + d
        /\ g \in Seq(Steps) /\ e \in Seq(Steps) /\ s = e \o g
    <3>1. m < Len(s)
      BY <1>2, <1>5, <1>12
    <3> QED
      BY <1>2, <1>4, <2>1, <2>2, <2>3, <3>1 DEF Around
  <2>5. d \in Nat /\ d < Capacity[5]
    BY <2>4 DEF Steps, Numbers
  <2>6. SumOf(e) = SumOf(a) + d /\ Ids(e) = Ids(a) \cup {SumOf(a) + d}
    <3>1. Appended(a, d, e)
      BY <1>5, <2>3, <2>4, IdsAppended
    <3> QED
      BY <3>1 DEF Appended
  <2>7. CASE SumOf(a) + d = id
    <3>1. t = s
      BY <1>10, <1>12, <2>4, <2>7
    <3>2. e \in Seq(Nat) /\ g \in Seq(Nat)
      BY <2>4, StepsAreNumbers
    <3>3. id \in Ids(s)
      BY <2>4, <2>6, <2>7, <3>2, IdsJoined
    <3>4. s # <<>>
      BY <3>3, IdsOfFew
    <3> QED
      BY <1>9, <3>1, <3>3, <3>4
  <2>8. CASE SumOf(a) + d # id
    <3>1. PICK q \in Nat : q = (SumOf(a) + d) - id /\ q # 0 /\ p + q = d
      <4>1. (SumOf(a) + d) - id \in Nat /\ (SumOf(a) + d) - id # 0 /\ p + ((SumOf(a) + d) - id) = d
        <5>1. PICK k \in Nat : k = SumOf(a)
          BY <1>5
        <5>2. k + p = id /\ id <= k + d /\ k + d # id
          BY <1>6, <2>4, <2>8, <5>1
        <5>3. (k + d) - id \in Nat /\ (k + d) - id # 0 /\ p + ((k + d) - id) = d
          <6>1. k \in Nat /\ p \in Nat /\ d \in Nat /\ id \in Nat
            BY <1>1, <2>5
          <6> QED
            BY <5>2, <6>1
        <5> QED
          BY <5>1, <5>3
      <4> QED
        BY <4>1
    <3>2. q \in Steps
      <4>1. Capacity[5] \in Nat
        BY CapacityOfFew
      <4>2. q < Capacity[5]
        BY <1>6, <2>5, <3>1, <4>1
      <4> QED
        BY <3>1, <4>2 DEF Steps, Numbers
    <3>3. t = (a \o <<p, q>>) \o g
      <4>1. id - SumOf(a) = p /\ DocIds(s)[m + 1] - id = q /\ DocIds(s)[m + 1] # id
        <5>1. DocIds(s)[m + 1] - id = q
          <6>1. PICK w : w = DocIds(s)[m + 1] /\ w = SumOf(a) + d
            BY <2>4
          <6>2. w - id = q
            BY <3>1, <6>1
          <6> QED
            BY <6>1, <6>2
        <5> QED
          BY <1>6, <2>4, <2>8, <5>1
      <4>2. t = SubSeq(s, 1, m) \o <<id - SumOf(a), DocIds(s)[m + 1] - id>> \o SubSeq(s, m + 2, n)
        BY <1>10, <1>12, <4>1
      <4> QED
        BY <1>5, <2>2, <4>1, <4>2
    <3>4. PICK f : f = a \o <<p>>
      OBVIOUS
    <3>5. PICK h : h = f \o <<q>>
      OBVIOUS
    <3>6. a \o <<p, q>> = h
      <4>1. <<p>> \in Seq(Steps) /\ <<q>> \in Seq(Steps) /\ <<p>> \o <<q>> = <<p, q>>
        <5>1. <<p>> \in Seq(Steps)
          BY <1>7
        <5>2. <<q>> \in Seq(Steps)
          BY <3>2
        <5>3. <<p>> \o <<q>> = <<p, q>>
          BY PairJoined
        <5> QED
          BY <5>1, <5>2, <5>3
      <4>2. (a \o <<p>>) \o <<q>> = a \o (<<p>> \o <<q>>)
        BY <1>5, <4>1, ConcatAssociative
      <4> QED
        BY <3>4, <3>5, <4>1, <4>2
    <3>7. /\ t \in Seq(Steps) /\ Ids(t) = Ids(s) \cup {SumOf(a) + p}
          /\ EncodedLength(t) <= EncodedLength(s) + 5
      <4>1. e = a \o <<p + q>> /\ p + q \in Steps /\ t = h \o g
        BY <2>3, <2>4, <3>1, <3>3, <3>6
      <4>2. OneMore(t, s, SumOf(a) + p)
        BY <1>5, <1>7, <2>4, <3>2, <3>4, <3>5, <4>1, IdsDivided
      <4> QED
        BY <4>2 DEF OneMore
    <3>8. Ids(t) = Ids(s) \cup {id}
      BY <1>6, <3>7
    <3>9. t # <<>>
      BY <3>8, IdsOfFew
    <3> QED
      BY <3>7, <3>8, <3>9
  <2> QED
    BY <2>7, <2>8
<1> QED
  BY <1>11, <1>12

(* What removing a docid does to a section.                                *)
LEMMA Removed ==
  ASSUME LineAssumptions, NEW s \in Seq(Steps), NEW id \in Ids(s), Ids(s) \subseteq Steps,
         NEW t, t = RemoveFromSection(s, id)
  PROVE  /\ t \in Seq(Steps)
         /\ Ids(t) = Ids(s) \ {id}
         /\ EncodedLength(t) <= EncodedLength(s)
<1>1. id \in Nat \ {0} /\ id < Capacity[5]
  BY DEF Steps, Numbers
<1>2. PICK n \in Nat : n = Len(s)
  OBVIOUS
<1>3. PICK m : m = Below(DocIds(s), id)
  OBVIOUS
<1>4. PICK a, b : Around(s, id, m, a, b)
  BY <1>1, <1>3, DocIdAround
<1>5. /\ m \in 0..n /\ a \in Seq(Steps) /\ a = SubSeq(s, 1, m) /\ b \in Seq(Steps) /\ s = a \o b
      /\ SumOf(a) \in Nat /\ SumOf(a) < id
  BY <1>2, <1>4 DEF Around
<1>6. \A x \in Ids(a) : x \in Nat /\ x <= SumOf(a)
  BY <1>5, IdsBounded
<1>7. id \notin Ids(a)
  BY <1>1, <1>5, <1>6
<1>8. m # n
  <2>1. SUFFICES ASSUME m = n
                 PROVE  FALSE
    OBVIOUS
  <2>2. a = s
    BY <1>2, <1>5, <2>1, SubSeqFull
  <2> QED
    BY <1>7, <2>2
<1>9. PICK d : d = s[m + 1]
  OBVIOUS
<1>10. PICK g : g = SubSeq(s, m + 2, n)
  OBVIOUS
<1>11. PICK e : e = a \o <<d>>
  OBVIOUS
<1>12. /\ d \in Steps /\ DocIds(s)[m + 1] = SumOf(a) + d /\ id <= SumOf(a) + d
       /\ g \in Seq(Steps) /\ e \in Seq(Steps) /\ s = e \o g
  <2>1. m < Len(s)
    BY <1>2, <1>5, <1>8
  <2> QED
    BY <1>2, <1>4, <1>9, <1>10, <1>11, <2>1 DEF Around
<1>13. d \in Nat /\ d < Capacity[5] /\ 0 < d
  BY <1>12 DEF Steps, Numbers
<1>14. /\ SumOf(e) = SumOf(a) + d /\ Ids(e) = Ids(a) \cup {SumOf(a) + d}
       /\ EncodedLength(e) = EncodedLength(a) + VarNumLength(d)
  <2>1. Appended(a, d, e)
    BY <1>5, <1>11, <1>12, IdsAppended
  <2> QED
    BY <2>1 DEF Appended
<1>15. Ids(s) = Ids(e) \cup {SumOf(e) + x : x \in Ids(g)}
  <2>1. e \in Seq(Nat) /\ g \in Seq(Nat)
    BY <1>12, StepsAreNumbers
  <2> QED
    BY <1>12, <2>1, IdsJoined
<1>16. SumOf(a) + d = id
  <2>1. CASE id \in Ids(e)
    BY <1>7, <1>14, <2>1
  <2>2. CASE id \notin Ids(e)
    <3>1. PICK x \in Ids(g) : id = SumOf(e) + x
      BY <1>15, <2>2
    <3>2. x \in Nat /\ 0 < x
      BY <1>12, IdsBounded
    <3> QED
      <4>1. PICK k \in Nat : k = SumOf(a)
        BY <1>5
      <4>2. id = (k + d) + x /\ id <= k + d
        BY <1>12, <1>14, <3>1, <4>1
      <4>3. FALSE
        BY <1>1, <1>13, <3>2, <4>2
      <4> QED
        BY <4>3
  <2> QED
    BY <2>1, <2>2
<1>17. t = a \o (IF g = <<>> THEN g ELSE <<Head(g) + d>> \o Tail(g))
  <2>1. (m + 1) - 1 = m /\ (m + 1) + 1 = m + 2
    BY <1>5
  <2> QED
    BY <1>2, <1>3, <1>5, <1>9, <1>10, <2>1 DEF RemoveFromSection
<1>18. CASE g = <<>>
  <2>1. t = a
    BY <1>5, <1>17, <1>18, ConcatEmptySeq
  <2>2. s = e
    BY <1>12, <1>18, ConcatEmptySeq
  <2>3. Ids(t) = Ids(s) \ {id}
    BY <1>7, <1>14, <1>16, <2>1, <2>2
  <2>4. EncodedLength(a) \in Nat
    <3>1. a \in Seq(Numbers)
      BY <1>5, StepsAreNumbers
    <3> QED
      BY <3>1, EncodedNumbers
  <2>5. VarNumLength(d) \in 1..5
    BY <1>13, VarNums
  <2>6. EncodedLength(a) <= EncodedLength(e)
    BY <1>14, <2>4, <2>5
  <2> QED
    BY <1>5, <2>1, <2>2, <2>3, <2>6
<1>19. CASE g # <<>>
  <2>1. PICK q : q = Head(g) /\ q \in Steps
    BY <1>12, <1>19, HeadTailProperties
  <2>2. PICK o : o = Tail(g) /\ o \in Seq(Steps)
    BY <1>12, <1>19, HeadTailProperties
  <2>3. q \in Nat /\ 0 < q /\ q < Capacity[5]
    BY <2>1 DEF Steps, Numbers
  <2>4. PICK c : c = e \o <<q>>
    OBVIOUS
  <2>5. s = c \o o
    <3>1. g = <<q>> \o o
      <4>1. PICK l \in Nat : l = Len(g) /\ l # 0
        BY <1>12, <1>19
      <4>2. g = <<g[1]>> \o SubSeq(g, 2, l)
        <5>1. 1 \in 1..Len(g) /\ Len(g) \in 1..Len(g)
          BY <4>1
        <5>2. SubSeq(g, 1, Len(g)) = <<g[1]>> \o SubSeq(g, 1 + 1, Len(g))
          BY <1>12, <5>1, SubSeqRecursiveFirst
        <5> QED
          BY <1>12, <4>1, <5>2, SubSeqFull
      <4>3. g[1] = q /\ SubSeq(g, 2, l) = o
        BY <1>12, <1>19, <2>1, <2>2, <4>1, TailIsSubSeq
      <4> QED
        BY <4>2, <4>3
    <3>2. <<q>> \in Seq(Steps)
      BY <2>1
    <3> QED
      BY <1>12, <2>2, <2>4, <3>1, <3>2, ConcatAssociative
  <2>6. /\ c \in Seq(Steps) /\ SumOf(c) = (SumOf(a) + d) + q
        /\ (SumOf(a) + d) + q \in Ids(c)
    <3>1. Appended(e, q, c)
      BY <1>12, <2>1, <2>4, IdsAppended
    <3> QED
      BY <1>14, <3>1 DEF Appended
  <2>7. (SumOf(a) + d) + q \in Ids(s)
    <3>1. c \in Seq(Nat) /\ o \in Seq(Nat)
      BY <2>2, <2>6, StepsAreNumbers
    <3> QED
      BY <2>5, <2>6, <3>1, IdsJoined
  <2>8. d + q \in Steps
    <3>1. (SumOf(a) + d) + q < Capacity[5]
      BY <2>7 DEF Steps, Numbers
    <3>2. Capacity[5] \in Nat
      BY CapacityOfFew
    <3>3. d + q \in Nat /\ d + q # 0 /\ d + q < Capacity[5]
      BY <1>5, <1>13, <2>3, <3>1, <3>2
    <3> QED
      BY <3>3 DEF Steps, Numbers
  <2>9. PICK f : f = a \o <<d + q>>
    OBVIOUS
  <2>10. t = f \o o
    <3>1. q + d = d + q
      BY <1>13, <2>3
    <3>2. t = a \o (<<d + q>> \o o)
      BY <1>17, <1>19, <2>1, <2>2, <3>1
    <3>3. <<d + q>> \in Seq(Steps)
      BY <2>8
    <3>4. PICK w : w = <<d + q>> /\ w \in Seq(Steps)
      BY <3>3
    <3>5. a \in Seq(Steps) /\ o \in Seq(Steps)
      BY <1>5, <2>2
    <3>6. (a \o w) \o o = a \o (w \o o)
      BY <3>4, <3>5, ConcatAssociative
    <3> QED
      BY <2>9, <3>2, <3>4, <3>6
  <2>11. /\ t \in Seq(Steps) /\ Ids(s) = Ids(t) \cup {SumOf(a) + d}
         /\ SumOf(a) + d \notin Ids(t)
         /\ EncodedLength(t) <= EncodedLength(s)
    <3>1. OneMore(s, t, SumOf(a) + d)
      BY <1>5, <1>11, <1>12, <2>1, <2>2, <2>4, <2>5, <2>8, <2>9, <2>10, IdsDivided
    <3> QED
      BY <3>1 DEF OneMore
  <2> QED
    BY <1>16, <2>11
<1> QED
  BY <1>18, <1>19

-----------------------------------------------------------------------------
(* Lines whose section i has other distances, or is new, or is gone.       *)
LEMMA Replaced ==
  ASSUME LineAssumptions, NEW line, NEW types, NEW parts, Represents(line, types, parts),
         NEW i \in 1..Len(types), NEW section \in Seq(Numbers)
  PROVE  Represents(ReplaceSection(line, i, section), types, [parts EXCEPT ![i] = section])
<1>1. PICK n \in Nat : n = Len(types)
  BY HeaderOf
<1>2. types \in Seq(Numbers) /\ parts \in Seq(Seq(Numbers)) /\ Len(parts) = n
  BY <1>1 DEF Represents
<1>3. PICK q : q = [parts EXCEPT ![i] = section]
  OBVIOUS
<1>4. /\ q \in Seq(Seq(Numbers)) /\ Len(q) = n
      /\ \A j \in 1..n : q[j] = IF j = i THEN section ELSE parts[j]
  <2>1. i \in 1..Len(parts)
    BY <1>1, <1>2
  <2> QED
    BY <1>2, <1>3, <2>1, ExceptSeq
<1>5. line.header = [j \in 1..n |-> [doc_type |-> types[j], length |-> EncodedLength(parts[j])]]
  BY <1>1 DEF Represents
<1>6. PICK l : l = EncodedLength(section)
  OBVIOUS
<1>7. PICK h : h = [line.header EXCEPT ![i].length = l]
  OBVIOUS
<1>8. h = [j \in 1..n |-> [doc_type |-> types[j], length |-> EncodedLength(q[j])]]
  <2>1. h = [j \in 1..n |-> IF j = i THEN [line.header[i] EXCEPT !.length = l] ELSE line.header[j]]
    BY <1>1, <1>5, <1>7
  <2>2. ASSUME NEW j \in 1..n
        PROVE  (IF j = i THEN [line.header[i] EXCEPT !.length = l] ELSE line.header[j])
                 = [doc_type |-> types[j], length |-> EncodedLength(q[j])]
    <3>1. CASE j = i
      <4>1. line.header[i] = [doc_type |-> types[i], length |-> EncodedLength(parts[i])]
        BY <1>5, <3>1
      <4>2. [line.header[i] EXCEPT !.length = l] = [doc_type |-> types[i], length |-> l]
        BY <4>1
      <4> QED
        BY <1>4, <1>6, <3>1, <4>2
    <3>2. CASE j # i
      BY <1>4, <1>5, <3>2
    <3> QED
      BY <3>1, <3>2
  <2> QED
    BY <2>1, <2>2
<1>9. \A j \in 1..n : DecodeSection(line, j) = parts[j]
  BY <1>1, SectionsOf
<1>10. DOMAIN line.header = 1..n
  BY <1>1, HeaderOf
<1>11. PICK u : u = [j \in DOMAIN line.header |-> IF j = i THEN section ELSE DecodeSection(line, j)]
  OBVIOUS
<1>12. u = q
  <2>1. u = [j \in 1..n |-> IF j = i THEN section ELSE parts[j]]
    BY <1>9, <1>10, <1>11
  <2>2. q = [j \in 1..n |-> q[j]]
    BY <1>4
  <2>3. \A j \in 1..n : (IF j = i THEN section ELSE parts[j]) = q[j]
    BY <1>4
  <2> QED
    BY <2>1, <2>2, <2>3
<1>13. ReplaceSection(line, i, section) = [header |-> h, sections |-> FlattenSeq(q)]
  BY <1>6, <1>7, <1>11, <1>12 DEF ReplaceSection
<1>14. PICK new : new = ReplaceSection(line, i, section) /\ new.header = h /\ new.sections = FlattenSeq(q)
  BY <1>13
<1>15. Represents(new, types, q)
  BY <1>1, <1>2, <1>4, <1>8, <1>14 DEF Represents
<1> QED
  BY <1>3, <1>14, <1>15

LEMMA InsertedEmpty ==
  ASSUME LineAssumptions, NEW line, NEW types, NEW parts, Represents(line, types, parts),
         NEW i \in 1..(Len(types) + 1), NEW d \in Numbers, NEW new,
         new.header = InsertAt(line.header, i, [doc_type |-> d, length |-> 0]),
         new.sections = line.sections
  PROVE  Represents(new, InsertAt(types, i, d), InsertAt(parts, i, <<>>))
<1>1. PICK n \in Nat : n = Len(types)
  BY HeaderOf
<1>2. types \in Seq(Numbers) /\ parts \in Seq(Seq(Numbers)) /\ Len(parts) = n
  BY <1>1 DEF Represents
<1>3. i \in Nat /\ 1 <= i /\ i <= n + 1
  BY <1>1
<1>4. PICK t : t = InsertAt(types, i, d) /\ Inserted(Numbers, types, i, d, t)
  BY <1>2, Inserting
<1>5. PICK q : q = InsertAt(parts, i, <<>>) /\ Inserted(Seq(Numbers), parts, i, <<>>, q)
  <2>1. <<>> \in Seq(Numbers) /\ i \in 1..(Len(parts) + 1)
    BY <1>1, <1>2
  <2> QED
    BY <1>2, <2>1, Inserting
<1> DEFINE HeaderEntries == [doc_type : Numbers, length : Nat]
<1>6. PICK e : e = [doc_type |-> d, length |-> 0] /\ e \in HeaderEntries
  OBVIOUS
<1>7. /\ Len(line.header) = n /\ DOMAIN line.header = 1..n
      /\ \A k \in 1..n : EncodedLength(parts[k]) \in Nat
      /\ line.header = [k \in 1..n |-> [doc_type |-> types[k], length |-> EncodedLength(parts[k])]]
  <2>1. line.header = [k \in 1..n |-> [doc_type |-> types[k], length |-> EncodedLength(parts[k])]]
    BY <1>1 DEF Represents
  <2> QED
    BY <1>1, <2>1, HeaderOf
<1>8. line.header \in Seq(HeaderEntries)
  <2>1. \A k \in 1..n : types[k] \in Numbers
    BY <1>1, <1>2
  <2>2. \A k \in 1..n : [doc_type |-> types[k], length |-> EncodedLength(parts[k])] \in HeaderEntries
    BY <1>7, <2>1
  <2> HIDE DEF HeaderEntries
  <2> QED
    BY <1>7, <2>2
<1> HIDE DEF HeaderEntries
<1>9. PICK h : h = new.header /\ Inserted(HeaderEntries, line.header, i, e, h)
  <2>1. i \in 1..(Len(line.header) + 1)
    BY <1>1, <1>7
  <2> QED
    BY <1>6, <1>8, <2>1, Inserting
<1>10. /\ t \in Seq(Numbers) /\ Len(t) = n + 1
       /\ \A k \in 1..(n + 1) : t[k] = IF k < i THEN types[k] ELSE IF k = i THEN d ELSE types[k - 1]
  BY <1>1, <1>4 DEF Inserted
<1>11. /\ q \in Seq(Seq(Numbers)) /\ Len(q) = n + 1
       /\ \A k \in 1..(n + 1) : q[k] = IF k < i THEN parts[k] ELSE IF k = i THEN <<>> ELSE parts[k - 1]
  BY <1>2, <1>5 DEF Inserted
<1>12. /\ h \in Seq(HeaderEntries) /\ Len(h) = n + 1
       /\ \A k \in 1..(n + 1) :
            h[k] = IF k < i THEN line.header[k] ELSE IF k = i THEN e ELSE line.header[k - 1]
  BY <1>7, <1>9 DEF Inserted
<1>13. ASSUME NEW k \in 1..(n + 1)
       PROVE  h[k] = [doc_type |-> t[k], length |-> EncodedLength(q[k])]
  <2>1. CASE k < i
    <3>1. k \in 1..n
      BY <1>3, <2>1
    <3>2. line.header[k] = [doc_type |-> types[k], length |-> EncodedLength(parts[k])]
      BY <1>7, <3>1
    <3> QED
      BY <1>10, <1>11, <1>12, <2>1, <3>2
  <2>2. CASE k = i
    <3>1. EncodedLength(<<>>) = 0
      BY EncodedFew
    <3>2. ~(k < i)
      BY <1>3, <2>2
    <3> QED
      BY <1>6, <1>10, <1>11, <1>12, <2>2, <3>1, <3>2
  <2>3. CASE i < k
    <3>1. PICK m \in 1..n : m = k - 1
      BY <1>3, <2>3
    <3>2. line.header[m] = [doc_type |-> types[m], length |-> EncodedLength(parts[m])]
      BY <1>7
    <3>3. ~(k < i) /\ k # i
      BY <1>3, <2>3
    <3> QED
      BY <1>10, <1>11, <1>12, <3>1, <3>2, <3>3
  <2>4. k < i \/ k = i \/ i < k
    BY <1>3
  <2> QED
    BY <2>1, <2>2, <2>3, <2>4
<1>14. h = [k \in 1..(n + 1) |-> [doc_type |-> t[k], length |-> EncodedLength(q[k])]]
  <2>1. h = [k \in 1..(n + 1) |-> h[k]]
    BY <1>12
  <2> QED
    BY <1>13, <2>1
<1>15. FlattenSeq(q) = FlattenSeq(parts)
  <2>1. i \in 1..(Len(parts) + 1)
    BY <1>1, <1>2
  <2> QED
    BY <1>2, <1>5, <2>1, JoinedWithEmpty
<1>16. new.sections = FlattenSeq(q)
  BY <1>15 DEF Represents
<1> QED
  BY <1>4, <1>5, <1>9, <1>10, <1>11, <1>14, <1>16 DEF Represents

LEMMA EmptyRemoved ==
  ASSUME LineAssumptions, NEW line, NEW types, NEW parts, Represents(line, types, parts),
         NEW i \in 1..Len(types), parts[i] = <<>>, NEW new,
         new.header = RemoveAt(line.header, i), new.sections = line.sections
  PROVE  Represents(new, RemoveAt(types, i), RemoveAt(parts, i))
<1>1. PICK n \in Nat : n = Len(types)
  BY HeaderOf
<1>2. types \in Seq(Numbers) /\ parts \in Seq(Seq(Numbers)) /\ Len(parts) = n
  BY <1>1 DEF Represents
<1>3. i \in Nat /\ 1 <= i /\ i <= n
  BY <1>1
<1>4. PICK t : t = RemoveAt(types, i)
  OBVIOUS
<1>5. PICK q : q = RemoveAt(parts, i)
  OBVIOUS
<1>6. Without(Seq(Numbers), parts, i, q)
  <2>1. i \in 1..Len(parts)
    BY <1>1, <1>2
  <2> QED
    BY <1>2, <1>5, <2>1, Removing
<1> DEFINE HeaderEntries == [doc_type : Numbers, length : Nat]
<1>7. /\ Len(line.header) = n /\ DOMAIN line.header = 1..n
      /\ \A k \in 1..n : EncodedLength(parts[k]) \in Nat
      /\ line.header = [k \in 1..n |-> [doc_type |-> types[k], length |-> EncodedLength(parts[k])]]
  <2>1. line.header = [k \in 1..n |-> [doc_type |-> types[k], length |-> EncodedLength(parts[k])]]
    BY <1>1 DEF Represents
  <2> QED
    BY <1>1, <2>1, HeaderOf
<1>8. line.header \in Seq(HeaderEntries)
  <2>1. \A k \in 1..n : types[k] \in Numbers
    BY <1>1, <1>2
  <2>2. \A k \in 1..n : [doc_type |-> types[k], length |-> EncodedLength(parts[k])] \in HeaderEntries
    BY <1>7, <2>1
  <2> HIDE DEF HeaderEntries
  <2> QED
    BY <1>7, <2>2
<1> HIDE DEF HeaderEntries
<1>9. PICK h : h = new.header
  OBVIOUS
<1>10. /\ t \in Seq(Numbers) /\ Len(t) = n - 1
       /\ \A k \in 1..(n - 1) : t[k] = IF k < i THEN types[k] ELSE types[k + 1]
  <2>1. Without(Numbers, types, i, t)
    BY <1>2, <1>4, Removing
  <2> QED
    BY <1>1, <2>1 DEF Without
<1>11. /\ q \in Seq(Seq(Numbers)) /\ Len(q) = n - 1
       /\ \A k \in 1..(n - 1) : q[k] = IF k < i THEN parts[k] ELSE parts[k + 1]
  BY <1>2, <1>6 DEF Without
<1>12. /\ h \in Seq(HeaderEntries) /\ Len(h) = n - 1
       /\ \A k \in 1..(n - 1) : h[k] = IF k < i THEN line.header[k] ELSE line.header[k + 1]
  <2>1. i \in 1..Len(line.header)
    BY <1>1, <1>7
  <2>2. Without(HeaderEntries, line.header, i, h)
    BY <1>8, <1>9, <2>1, Removing
  <2> QED
    BY <1>7, <2>2 DEF Without
<1>13. ASSUME NEW k \in 1..(n - 1)
       PROVE  h[k] = [doc_type |-> t[k], length |-> EncodedLength(q[k])]
  <2>1. CASE k < i
    <3>1. k \in 1..n
      BY <1>3, <2>1
    <3>2. line.header[k] = [doc_type |-> types[k], length |-> EncodedLength(parts[k])]
      BY <1>7, <3>1
    <3> QED
      BY <1>10, <1>11, <1>12, <2>1, <3>2
  <2>2. CASE ~(k < i)
    <3>1. PICK m \in 1..n : m = k + 1
      BY <1>3
    <3>2. line.header[m] = [doc_type |-> types[m], length |-> EncodedLength(parts[m])]
      BY <1>7
    <3> QED
      BY <1>10, <1>11, <1>12, <2>2, <3>1, <3>2
  <2> QED
    BY <2>1, <2>2
<1>14. h = [k \in 1..(n - 1) |-> [doc_type |-> t[k], length |-> EncodedLength(q[k])]]
  <2>1. h = [k \in 1..(n - 1) |-> h[k]]
    BY <1>12
  <2> QED
    BY <1>13, <2>1
<1>15. FlattenSeq(q) = FlattenSeq(parts)
  <2>2. InsertAt(q, i, parts[i]) = parts /\ i \in 1..(Len(q) + 1)
    BY <1>6 DEF Without
  <2>3. FlattenSeq(InsertAt(q, i, <<>>)) = FlattenSeq(q)
    BY <1>11, <2>2, JoinedWithEmpty
  <2> QED
    BY <2>2, <2>3
<1>16. new.sections = FlattenSeq(q)
  BY <1>15 DEF Represents
<1> QED
  BY <1>4, <1>5, <1>9, <1>10, <1>11, <1>14, <1>16 DEF Represents

-----------------------------------------------------------------------------
(* The length of a line, but for the number of its doctypes.               *)
CodedParts(parts) == [k \in 1..Len(parts) |-> EncodedLength(parts[k])]

Rest(types, parts) ==
  EncodedLength(types) + (EncodedLength(CodedParts(parts)) + SumOf(CodedParts(parts)))

LEMMA GetLengthIs ==
  ASSUME LineAssumptions, NEW line, NEW types, NEW parts, Represents(line, types, parts),
         EncodedLength(types) \in Nat, EncodedLength(CodedParts(parts)) \in Nat,
         VarNumLength(Len(types)) \in Nat
  PROVE  GetLength(line) = VarNumLength(Len(types)) + Rest(types, parts)
<1>1. PICK n \in Nat : n = Len(types)
  BY HeaderOf
<1>2. DOMAIN line.header = 1..n /\ Len(line.header) = n
  BY <1>1, HeaderOf
<1>3. [i \in DOMAIN line.header |-> line.header[i].doc_type] = types
  <2>1. \A i \in 1..n : line.header[i].doc_type = types[i]
    BY <1>1, HeaderOf
  <2>2. types = [i \in 1..n |-> types[i]]
    BY <1>1 DEF Represents
  <2>3. [i \in 1..n |-> line.header[i].doc_type] = [i \in 1..n |-> types[i]]
    BY <2>1
  <2> QED
    BY <1>2, <2>2, <2>3
<1>4. Lengths(line.header) = CodedParts(parts)
  <2>1. \A i \in 1..n : line.header[i].length = EncodedLength(parts[i])
    BY <1>1, HeaderOf
  <2>2. Len(parts) = n
    BY <1>1 DEF Represents
  <2> QED
    BY <1>2, <2>1, <2>2 DEF Lengths, CodedParts
<1>5. SumOf(CodedParts(parts)) \in Nat
  BY <1>4, HeaderOf, SumType
<1>6. GetLength(line) = ((VarNumLength(n) + EncodedLength(types)) + EncodedLength(CodedParts(parts)))
                           + SumOf(CodedParts(parts))
  BY <1>2, <1>3, <1>4 DEF GetLength, HeaderLength
<1>7. PICK a, b, c, d \in Nat : /\ a = VarNumLength(n) /\ b = EncodedLength(types)
                                /\ c = EncodedLength(CodedParts(parts))
                                /\ d = SumOf(CodedParts(parts))
  BY <1>1, <1>5
<1>8. ((a + b) + c) + d = a + (b + (c + d))
  OBVIOUS
<1> QED
  BY <1>1, <1>6, <1>7, <1>8 DEF Rest

LEMMA CodedPartsAre ==
  ASSUME LineAssumptions, NEW parts \in Seq(Seq(Numbers)),
         \A k \in 1..Len(parts) : EncodedLength(parts[k]) < Capacity[5]
  PROVE  /\ CodedParts(parts) \in Seq(Numbers) /\ CodedParts(parts) \in Seq(Nat)
         /\ Len(CodedParts(parts)) = Len(parts)
         /\ \A k \in 1..Len(parts) : /\ CodedParts(parts)[k] = EncodedLength(parts[k])
                                     /\ EncodedLength(parts[k]) \in Numbers
<1>1. \A k \in 1..Len(parts) : EncodedLength(parts[k]) \in Numbers
  <2> TAKE k \in 1..Len(parts)
  <2>1. parts[k] \in Seq(Numbers)
    OBVIOUS
  <2> QED
    BY <2>1, EncodedNumbers DEF Numbers
<1>2. CodedParts(parts) \in Seq(Numbers) /\ Len(CodedParts(parts)) = Len(parts)
  BY <1>1 DEF CodedParts
<1>3. CodedParts(parts) \in Seq(Nat)
  <2>1. Numbers \subseteq Nat
    BY DEF Numbers
  <2> QED
    BY <1>2, <2>1, SeqMonotonic
<1>4. \A k \in 1..Len(parts) : CodedParts(parts)[k] = EncodedLength(parts[k])
  BY DEF CodedParts
<1> QED
  BY <1>1, <1>2, <1>3, <1>4

LEMMA RestType ==
  ASSUME LineAssumptions, NEW types \in Seq(Numbers), NEW parts \in Seq(Seq(Numbers)),
         \A k \in 1..Len(parts) : EncodedLength(parts[k]) < Capacity[5]
  PROVE  /\ Rest(types, parts) \in Nat
         /\ EncodedLength(types) \in Nat /\ EncodedLength(CodedParts(parts)) \in Nat
         /\ SumOf(CodedParts(parts)) \in Nat
         /\ types # <<>> => Rest(types, parts) >= 1
<1>1. CodedParts(parts) \in Seq(Numbers) /\ CodedParts(parts) \in Seq(Nat)
  BY CodedPartsAre
<1>2. /\ EncodedLength(types) \in Nat /\ EncodedLength(CodedParts(parts)) \in Nat
      /\ SumOf(CodedParts(parts)) \in Nat
  BY <1>1, EncodedNumbers, SumType
<1>3. types # <<>> => EncodedLength(types) >= 1
  BY EncodedEmpty
<1> QED
  BY <1>2, <1>3 DEF Rest

RestGrows(types, parts, i, d, section) ==
  Rest(InsertAt(types, i, d), InsertAt(parts, i, section))
    = Rest(types, parts) + (VarNumLength(d)
                             + (VarNumLength(EncodedLength(section)) + EncodedLength(section)))

LEMMA RestInserted ==
  ASSUME LineAssumptions, NEW types \in Seq(Numbers), NEW parts \in Seq(Seq(Numbers)),
         Len(parts) = Len(types),
         \A k \in 1..Len(parts) : EncodedLength(parts[k]) < Capacity[5],
         NEW i \in 1..(Len(types) + 1), NEW d \in Numbers,
         NEW section \in Seq(Numbers), EncodedLength(section) < Capacity[5]
  PROVE  RestGrows(types, parts, i, d, section)
<1>1. PICK n \in Nat : n = Len(types)
  OBVIOUS
<1>2. PICK c : c = CodedParts(parts)
  OBVIOUS
<1>3. /\ c \in Seq(Numbers) /\ c \in Seq(Nat) /\ Len(c) = n
      /\ \A k \in 1..n : c[k] = EncodedLength(parts[k])
  BY <1>1, <1>2, CodedPartsAre
<1>4. PICK l : l = EncodedLength(section) /\ l \in Numbers /\ l \in Nat
  BY EncodedNumbers DEF Numbers
<1>5. PICK q : q = InsertAt(parts, i, section) /\ Inserted(Seq(Numbers), parts, i, section, q)
  <2>1. i \in 1..(Len(parts) + 1)
    OBVIOUS
  <2> QED
    BY <2>1, Inserting
<1>6. /\ q \in Seq(Seq(Numbers)) /\ Len(q) = n + 1
      /\ \A k \in 1..(n + 1) :
           q[k] = IF k < i THEN parts[k] ELSE IF k = i THEN section ELSE parts[k - 1]
  BY <1>1, <1>5 DEF Inserted
<1>7. PICK e : e = InsertAt(c, i, l) /\ Inserted(Numbers, c, i, l, e)
  <2>1. i \in 1..(Len(c) + 1)
    BY <1>1, <1>3
  <2> QED
    BY <1>3, <1>4, <2>1, Inserting
<1>8. /\ e \in Seq(Numbers) /\ Len(e) = n + 1
      /\ \A k \in 1..(n + 1) : e[k] = IF k < i THEN c[k] ELSE IF k = i THEN l ELSE c[k - 1]
  BY <1>3, <1>7 DEF Inserted
<1>9. ASSUME NEW k \in 1..(n + 1)
      PROVE  EncodedLength(q[k]) = e[k]
  <2>0. i \in Nat /\ 1 <= i /\ i <= n + 1
    BY <1>1
  <2>1. CASE k < i
    <3>1. k \in 1..n
      BY <2>0, <2>1
    <3> QED
      BY <1>3, <1>6, <1>8, <2>1, <3>1
  <2>2. CASE k = i
    <3>1. ~(k < i)
      BY <2>0, <2>2
    <3> QED
      BY <1>4, <1>6, <1>8, <2>2, <3>1
  <2>3. CASE i < k
    <3>1. PICK m \in 1..n : m = k - 1
      BY <2>0, <2>3
    <3>2. ~(k < i) /\ k # i
      BY <2>0, <2>3
    <3> QED
      BY <1>3, <1>6, <1>8, <3>1, <3>2
  <2>4. k < i \/ k = i \/ i < k
    BY <2>0
  <2> QED
    BY <2>1, <2>2, <2>3, <2>4
<1>10. CodedParts(q) = e
  <2>1. e = [k \in 1..(n + 1) |-> e[k]]
    BY <1>8
  <2> QED
    BY <1>6, <1>9, <2>1 DEF CodedParts
<1>11. /\ EncodedLength(e) = EncodedLength(c) + VarNumLength(l)
       /\ SumOf(e) = SumOf(c) + l
  <2>1. i \in 1..(Len(c) + 1)
    BY <1>1, <1>3
  <2> QED
    BY <1>3, <1>4, <1>7, <2>1, EncodedInserted, SumOfInserted
<1>12. EncodedLength(InsertAt(types, i, d)) = EncodedLength(types) + VarNumLength(d)
  BY EncodedInserted
<1>13. /\ EncodedLength(types) \in Nat /\ EncodedLength(c) \in Nat /\ SumOf(c) \in Nat
  BY <1>2, RestType
<1>14. VarNumLength(d) \in 1..5 /\ VarNumLength(l) \in 1..5
  BY <1>4, VarNums DEF Numbers
<1>15. PICK v, w, u \in Nat : v = VarNumLength(d) /\ w = VarNumLength(l) /\ u = l
  <2>1. VarNumLength(d) \in Nat /\ VarNumLength(l) \in Nat
    BY <1>14
  <2> QED
    BY <1>4, <2>1
<1>16. PICK x, y, z \in Nat : x = EncodedLength(types) /\ y = EncodedLength(c) /\ z = SumOf(c)
  BY <1>13
<1>17. (x + v) + ((y + w) + (z + u)) = (x + (y + z)) + (v + (w + u))
  OBVIOUS
<1>18. Rest(InsertAt(types, i, d), q) = (x + v) + ((y + w) + (z + u))
  BY <1>10, <1>11, <1>12, <1>15, <1>16 DEF Rest
<1>19. Rest(types, parts) = x + (y + z)
  BY <1>2, <1>16 DEF Rest
<1> QED
  BY <1>4, <1>5, <1>15, <1>17, <1>18, <1>19 DEF RestGrows

-----------------------------------------------------------------------------
(* The documents of a line, by its sections.                               *)
HeldIn(types, parts) == UNION {{<<types[k], x>> : x \in Ids(parts[k])} : k \in 1..Len(types)}

(* A section more, or less, is its documents more, or less.                *)
LEMMA HeldInserted ==
  ASSUME NEW X, NEW Y, NEW types \in Seq(X), NEW parts \in Seq(Y), Len(parts) = Len(types),
         NEW i \in 1..(Len(types) + 1), NEW d \in X, NEW section \in Y
  PROVE  HeldIn(InsertAt(types, i, d), InsertAt(parts, i, section))
           = HeldIn(types, parts) \cup {<<d, x>> : x \in Ids(section)}
<1>1. PICK n \in Nat : n = Len(types) /\ i \in 1..(n + 1)
  OBVIOUS
<1>2. PICK t : t = InsertAt(types, i, d) /\ Inserted(X, types, i, d, t)
  BY Inserting
<1>3. PICK p : p = InsertAt(parts, i, section) /\ Inserted(Y, parts, i, section, p)
  <2>1. i \in 1..(Len(parts) + 1)
    OBVIOUS
  <2> QED
    BY <2>1, Inserting
<1>4. /\ Len(t) = n + 1
      /\ \A k \in 1..(n + 1) : t[k] = IF k < i THEN types[k] ELSE IF k = i THEN d ELSE types[k - 1]
  BY <1>1, <1>2 DEF Inserted
<1>5. \A k \in 1..(n + 1) : p[k] = IF k < i THEN parts[k] ELSE IF k = i THEN section ELSE parts[k - 1]
  BY <1>1, <1>3 DEF Inserted
<1>6. ASSUME NEW k \in 1..(n + 1), NEW x \in Ids(p[k])
      PROVE  <<t[k], x>> \in HeldIn(types, parts) \cup {<<d, y>> : y \in Ids(section)}
  <2>1. CASE k < i
    <3>1. k \in 1..n
      BY <1>1, <2>1
    <3> QED
      BY <1>1, <1>4, <1>5, <2>1, <3>1 DEF HeldIn
  <2>2. CASE k = i
    <3>1. ~(k < i)
      BY <1>1, <2>2
    <3> QED
      BY <1>4, <1>5, <2>2, <3>1
  <2>3. CASE i < k
    <3>1. PICK m \in 1..n : m = k - 1
      BY <1>1, <2>3
    <3>2. ~(k < i) /\ k # i
      BY <1>1, <2>3
    <3>3. t[k] = types[m] /\ p[k] = parts[m]
      BY <1>4, <1>5, <3>1, <3>2
    <3> QED
      BY <1>1, <3>1, <3>3 DEF HeldIn
  <2> QED
    BY <1>1, <2>1, <2>2, <2>3
<1>7. ASSUME NEW k \in 1..n, NEW x \in Ids(parts[k])
      PROVE  \E m \in 1..(n + 1) : t[m] = types[k] /\ p[m] = parts[k]
  <2>1. CASE k < i
    <3>1. k \in 1..(n + 1)
      BY <1>1
    <3> QED
      BY <1>4, <1>5, <2>1, <3>1
  <2>2. CASE i <= k
    <3>1. PICK m \in 1..(n + 1) : m = k + 1
      BY <1>1
    <3>2. ~(m < i) /\ m # i /\ m - 1 = k
      BY <1>1, <2>2, <3>1
    <3>3. t[m] = types[k] /\ p[m] = parts[k]
      BY <1>4, <1>5, <3>2
    <3> QED
      BY <3>3
  <2> QED
    BY <1>1, <2>1, <2>2
<1>8. t[i] = d /\ p[i] = section
  <2>1. ~(i < i)
    BY <1>1
  <2> QED
    BY <1>1, <1>4, <1>5, <2>1
<1>9. HeldIn(t, p) \subseteq HeldIn(types, parts) \cup {<<d, x>> : x \in Ids(section)}
  <2> SUFFICES ASSUME NEW e \in HeldIn(t, p)
               PROVE  e \in HeldIn(types, parts) \cup {<<d, x>> : x \in Ids(section)}
    OBVIOUS
  <2>1. PICK k \in 1..(n + 1) : \E x \in Ids(p[k]) : e = <<t[k], x>>
    BY <1>4 DEF HeldIn
  <2> QED
    BY <1>6, <2>1
<1>10. HeldIn(types, parts) \subseteq HeldIn(t, p)
  <2> SUFFICES ASSUME NEW e \in HeldIn(types, parts)
               PROVE  e \in HeldIn(t, p)
    OBVIOUS
  <2>1. PICK k \in 1..n : \E x \in Ids(parts[k]) : e = <<types[k], x>>
    BY <1>1 DEF HeldIn
  <2>2. PICK x \in Ids(parts[k]) : e = <<types[k], x>>
    BY <2>1
  <2>3. PICK m \in 1..(n + 1) : t[m] = types[k] /\ p[m] = parts[k]
    BY <1>7
  <2>4. e = <<t[m], x>> /\ x \in Ids(p[m])
    BY <2>2, <2>3
  <2> QED
    BY <1>4, <2>4 DEF HeldIn
<1>11. {<<d, x>> : x \in Ids(section)} \subseteq HeldIn(t, p)
  <2> SUFFICES ASSUME NEW x \in Ids(section)
               PROVE  <<d, x>> \in HeldIn(t, p)
    OBVIOUS
  <2>1. i \in 1..Len(t) /\ x \in Ids(p[i]) /\ <<d, x>> = <<t[i], x>>
    BY <1>1, <1>4, <1>8
  <2> QED
    BY <2>1 DEF HeldIn
<1> QED
  BY <1>2, <1>3, <1>9, <1>10, <1>11

(* The place of a doctype that has no section.                             *)
Fits(types, i, d) ==
  /\ i \in 1..(Len(types) + 1)
  /\ \A k \in 1..Len(types) : IF k < i THEN types[k] < d ELSE d < types[k]

LEMMA NotHeld ==
  ASSUME NEW types \in Seq(Nat), NEW parts, NEW i, NEW d \in Nat, Fits(types, i, d)
  PROVE  \A x : <<d, x>> \notin HeldIn(types, parts)
<1>1. \A k \in 1..Len(types) : types[k] # d
  <2> TAKE k \in 1..Len(types)
  <2>1. types[k] \in Nat
    OBVIOUS
  <2>2. types[k] < d \/ d < types[k]
    BY DEF Fits
  <2> QED
    BY <2>1, <2>2
<1> QED
  BY <1>1 DEF HeldIn

(* Where the order ends, or another doctype is, there is room for a new    *)
(* one.                                                                    *)
Grows(s) == \A j, k \in 1..Len(s) : j < k => s[j] < s[k]

LEMMA PositionFits ==
  ASSUME NEW types \in Seq(Nat), Grows(types), NEW d \in Nat, NEW i, i = Below(types, d) + 1
  PROVE  /\ i \in 1..(Len(types) + 1)
         /\ \A k \in 1..Len(types) : types[k] = d => k = i
         /\ ~(i <= Len(types) /\ types[i] = d) => Fits(types, i, d)
<1>1. PICK n \in Nat : n = Len(types)
  OBVIOUS
<1>2. /\ Below(types, d) \in 0..n
      /\ \A k \in 1..n : k <= Below(types, d) <=> types[k] < d
  BY <1>1, BelowSplits DEF Grows
<1>3. i \in 1..(n + 1) /\ i \in Nat
  BY <1>2
<1>4. \A k \in 1..n : k < i <=> types[k] < d
  BY <1>2
<1>5. ASSUME NEW k \in 1..n, types[k] = d
      PROVE  k = i
  <2>1. types[k] \in Nat
    BY <1>1
  <2>2. i <= k
    BY <1>3, <1>4, <1>5, <2>1
  <2>3. ASSUME i < k
        PROVE  FALSE
    <3>1. i \in 1..n
      BY <1>3, <2>3
    <3>2. types[i] < d
      BY <1>1, <1>5, <2>3, <3>1 DEF Grows
    <3>3. i < i
      BY <1>4, <3>1, <3>2
    <3> QED
      BY <1>3, <3>3
  <2> QED
    BY <1>3, <2>2, <2>3
<1>6. ASSUME ~(i <= n /\ types[i] = d)
      PROVE  Fits(types, i, d)
  <2> SUFFICES ASSUME NEW k \in 1..n
               PROVE  IF k < i THEN types[k] < d ELSE d < types[k]
    BY <1>1, <1>3 DEF Fits
  <2>1. types[k] \in Nat
    BY <1>1
  <2>2. CASE k < i
    BY <1>4, <2>2
  <2>3. CASE ~(k < i)
    <3>1. ~(types[k] < d)
      BY <1>4, <2>3
    <3>2. types[k] # d
      BY <1>3, <1>5, <1>6
    <3> QED
      BY <2>1, <2>3, <3>1, <3>2
  <2> QED
    BY <2>2, <2>3
<1> QED
  BY <1>1, <1>3, <1>5, <1>6

LEMMA GrowsInserted ==
  ASSUME NEW types \in Seq(Nat), Grows(types), NEW i, NEW d \in Nat, Fits(types, i, d)
  PROVE  Grows(InsertAt(types, i, d))
<1>1. PICK n \in Nat : n = Len(types)
  OBVIOUS
<1>2. i \in 1..(n + 1) /\ i \in Nat
  BY <1>1 DEF Fits
<1>3. PICK t : t = InsertAt(types, i, d) /\ Inserted(Nat, types, i, d, t)
  BY <1>1, <1>2, Inserting
<1>4. /\ Len(t) = n + 1
      /\ \A k \in 1..(n + 1) : t[k] = IF k < i THEN types[k] ELSE IF k = i THEN d ELSE types[k - 1]
  BY <1>1, <1>3 DEF Inserted
<1>5. ASSUME NEW j \in 1..(n + 1), NEW k \in 1..(n + 1), j < k
      PROVE  t[j] < t[k]
  <2>1. CASE k < i
    <3>1. k \in 1..n /\ j \in 1..n /\ j < i
      BY <1>2, <1>5, <2>1
    <3>2. t[j] = types[j] /\ t[k] = types[k]
      BY <1>4, <2>1, <3>1
    <3> QED
      BY <1>1, <1>5, <3>1, <3>2 DEF Grows
  <2>2. CASE k = i
    <3>1. j \in 1..n /\ j < i /\ ~(k < i)
      BY <1>2, <1>5, <2>2
    <3>2. t[j] = types[j] /\ t[k] = d
      BY <1>4, <2>2, <3>1
    <3> QED
      BY <1>1, <3>1, <3>2 DEF Fits
  <2>3. CASE i < k
    <3>1. PICK m \in 1..n : m = k - 1
      BY <1>2, <2>3
    <3>2. ~(k < i) /\ k # i /\ ~(m < i)
      BY <1>2, <2>3, <3>1
    <3>3. t[k] = types[m]
      BY <1>4, <3>1, <3>2
    <3>4. d < types[m]
      BY <1>1, <3>1, <3>2 DEF Fits
    <3>5. CASE j < i
      <4>1. j \in 1..n /\ j < m
        BY <1>2, <2>3, <3>1, <3>2, <3>5
      <4>2. t[j] = types[j]
        BY <1>4, <3>5
      <4> QED
        BY <1>1, <3>1, <3>3, <4>1, <4>2 DEF Grows
    <3>6. CASE j = i
      <4>1. ~(j < i)
        BY <1>2, <3>6
      <4>2. t[j] = d
        BY <1>4, <3>6, <4>1
      <4> QED
        BY <3>3, <3>4, <4>2
    <3>7. CASE i < j
      <4>1. PICK l \in 1..n : l = j - 1
        BY <1>2, <3>7
      <4>2. ~(j < i) /\ j # i /\ l < m
        BY <1>2, <1>5, <3>1, <3>7, <4>1
      <4>3. t[j] = types[l]
        BY <1>4, <4>1, <4>2
      <4> QED
        BY <1>1, <3>1, <3>3, <4>1, <4>2, <4>3 DEF Grows
    <3> QED
      BY <1>2, <3>5, <3>6, <3>7
  <2> QED
    BY <1>2, <2>1, <2>2, <2>3
<1> QED
  BY <1>3, <1>4, <1>5 DEF Grows

(* There are no more doctypes below a number than the number says.         *)
LEMMA GrowsSlowly ==
  ASSUME NEW s \in Seq(Nat \ {0}), Grows(s)
  PROVE  \A k \in 1..Len(s) : k <= s[k]
<1> DEFINE Bad == {k \in 1..Len(s) : ~(k <= s[k])}
<1> SUFFICES ASSUME Bad # {}
             PROVE  FALSE
  OBVIOUS
<1>1. PICK n \in Nat : n = Len(s)
  OBVIOUS
<1>2. Bad \subseteq Nat
  BY <1>1
<1>3. PICK k \in Bad : \A j \in Bad : k <= j
  BY <1>2, HasLeast
<1>4. k \in 1..n /\ ~(k <= s[k]) /\ s[k] \in Nat \ {0}
  BY <1>1, <1>3
<1>5. PICK m \in 1..n : m = k - 1
  BY <1>4
<1>6. m < k /\ s[m] \in Nat
  BY <1>1, <1>4, <1>5
<1>7. m <= s[m]
  <2>1. m \notin Bad
    BY <1>3, <1>4, <1>6
  <2> QED
    BY <1>1, <2>1
<1>8. s[m] < s[k]
  BY <1>1, <1>4, <1>6 DEF Grows
<1> QED
  BY <1>4, <1>5, <1>6, <1>7, <1>8

(* What the sections of a line are: in the order of their doctypes, each   *)
(* with a document.                                                        *)
IsSection(section) ==
  section # <<>> /\ Ids(section) \subseteq Docids /\ EncodedLength(section) < Capacity[5]

Proper(types, parts) ==
  /\ types \in Seq(Doctypes) /\ Grows(types)
  /\ parts \in Seq(Seq(Steps)) /\ Len(parts) = Len(types)
  /\ \A k \in 1..Len(parts) : IsSection(parts[k])

LEMMA DoctypesAre ==
  ASSUME LineAssumptions
  PROVE  /\ Doctypes \subseteq Numbers /\ Docids \subseteq Numbers /\ Docids \subseteq Steps
         /\ Doctypes \subseteq Nat \ {0} /\ Numbers \subseteq Nat /\ Steps \subseteq Numbers
         /\ Capacity[5] \in Nat
<1>1. Capacity[5] \in Nat
  BY CapacityOfFew
<1>2. \A x \in 1..(Capacity[5] - 1) : x \in Numbers /\ x # 0
  BY <1>1 DEF Numbers
<1> QED
  BY <1>1, <1>2 DEF LineAssumptions, Steps, Numbers

LEMMA ProperIs ==
  ASSUME LineAssumptions, NEW types, NEW parts, Proper(types, parts)
  PROVE  /\ types \in Seq(Numbers) /\ types \in Seq(Nat) /\ types \in Seq(Nat \ {0})
         /\ parts \in Seq(Seq(Numbers))
         /\ Len(types) \in Numbers
<1>1. /\ types \in Seq(Doctypes) /\ parts \in Seq(Seq(Steps))
      /\ Doctypes \subseteq Numbers /\ Doctypes \subseteq Nat /\ Doctypes \subseteq Nat \ {0}
      /\ Steps \subseteq Numbers
  BY DoctypesAre DEF Proper
<1>2. types \in Seq(Numbers) /\ types \in Seq(Nat) /\ types \in Seq(Nat \ {0})
  BY <1>1, SeqMonotonic
<1>3. parts \in Seq(Seq(Numbers))
  <2>1. Seq(Steps) \subseteq Seq(Numbers)
    BY <1>1, SeqMonotonic
  <2> QED
    BY <1>1, <2>1, SeqMonotonic
<1>4. Len(types) \in Numbers
  <2>1. PICK n \in Nat : n = Len(types)
    BY <1>1
  <2>2. CASE n = 0
    <3>1. 0 < Capacity[5]
      <4>1. /\ Capacity[0] = 1 /\ Capacity[0] < Capacity[5] /\ Capacity[5] \in Nat
        BY CapacityOfFew
      <4> QED
        BY <4>1
    <3> QED
      BY <2>1, <2>2, <3>1 DEF Numbers
  <2>3. CASE n > 0
    <3>1. n \in 1..Len(types)
      BY <2>1, <2>3
    <3>2. n <= types[n]
      BY <1>2, <3>1, GrowsSlowly DEF Proper
    <3>3. types[n] \in Numbers
      BY <1>2, <3>1
    <3> QED
      BY <2>1, <3>2, <3>3, DoctypesAre DEF Numbers
  <2> QED
    BY <2>1, <2>2, <2>3
<1> QED
  BY <1>2, <1>3, <1>4

LEMMA ProperInserted ==
  ASSUME LineAssumptions, NEW types, NEW parts, Proper(types, parts),
         NEW i, NEW d \in Doctypes, Fits(types, i, d),
         NEW section \in Seq(Steps), IsSection(section)
  PROVE  Proper(InsertAt(types, i, d), InsertAt(parts, i, section))
<1>1. /\ types \in Seq(Doctypes) /\ types \in Seq(Nat) /\ parts \in Seq(Seq(Steps))
      /\ Len(parts) = Len(types) /\ d \in Nat
  BY ProperIs, DoctypesAre DEF Proper
<1>2. PICK n \in Nat : n = Len(types)
  BY <1>1
<1>3. i \in 1..(n + 1)
  BY <1>2 DEF Fits
<1>4. PICK t : t = InsertAt(types, i, d) /\ Inserted(Doctypes, types, i, d, t)
  BY <1>1, <1>2, <1>3, Inserting
<1>5. PICK p : p = InsertAt(parts, i, section) /\ Inserted(Seq(Steps), parts, i, section, p)
  <2>1. i \in 1..(Len(parts) + 1)
    BY <1>1, <1>2, <1>3
  <2> QED
    BY <1>1, <2>1, Inserting
<1>6. t \in Seq(Doctypes) /\ Len(t) = n + 1 /\ Grows(t)
  BY <1>1, <1>2, <1>4, GrowsInserted DEF Inserted, Proper
<1>7. /\ p \in Seq(Seq(Steps)) /\ Len(p) = n + 1
      /\ \A k \in 1..(n + 1) : p[k] = IF k < i THEN parts[k] ELSE IF k = i THEN section ELSE parts[k - 1]
  BY <1>1, <1>2, <1>5 DEF Inserted
<1>8. ASSUME NEW k \in 1..(n + 1)
      PROVE  IsSection(p[k])
  <2>1. \A j \in 1..n : IsSection(parts[j])
    BY <1>1, <1>2 DEF Proper
  <2>2. CASE k < i
    <3>1. k \in 1..n
      BY <1>3, <2>2
    <3> QED
      BY <1>7, <2>1, <2>2, <3>1
  <2>3. CASE k = i
    <3>1. ~(k < i)
      BY <1>3, <2>3
    <3> QED
      BY <1>7, <2>3, <3>1
  <2>4. CASE i < k
    <3>1. PICK m \in 1..n : m = k - 1
      BY <1>3, <2>4
    <3>2. ~(k < i) /\ k # i
      BY <1>3, <2>4
    <3>3. p[k] = parts[m]
      BY <1>7, <3>1, <3>2
    <3> QED
      BY <2>1, <3>3
  <2> QED
    BY <1>3, <2>2, <2>3, <2>4
<1> QED
  BY <1>4, <1>5, <1>6, <1>7, <1>8 DEF Proper

LEMMA ProperRemoved ==
  ASSUME LineAssumptions, NEW types, NEW parts, Proper(types, parts), NEW i \in 1..Len(types)
  PROVE  /\ Proper(RemoveAt(types, i), RemoveAt(parts, i))
         /\ Fits(RemoveAt(types, i), i, types[i])
<1>1. /\ types \in Seq(Doctypes) /\ types \in Seq(Nat) /\ parts \in Seq(Seq(Steps))
      /\ Len(parts) = Len(types)
  BY ProperIs DEF Proper
<1>2. PICK n \in Nat : n = Len(types)
  BY <1>1
<1>3. i \in 1..n /\ i \in Nat
  BY <1>2
<1>4. PICK t : t = RemoveAt(types, i) /\ Without(Doctypes, types, i, t)
  BY <1>1, Removing
<1>5. PICK p : p = RemoveAt(parts, i) /\ Without(Seq(Steps), parts, i, p)
  <2>1. i \in 1..Len(parts)
    BY <1>1
  <2> QED
    BY <1>1, <2>1, Removing
<1>6. /\ t \in Seq(Doctypes) /\ Len(t) = n - 1 /\ i \in 1..(Len(t) + 1)
      /\ \A k \in 1..(n - 1) : t[k] = IF k < i THEN types[k] ELSE types[k + 1]
  BY <1>2, <1>4 DEF Without
<1>7. /\ p \in Seq(Seq(Steps)) /\ Len(p) = n - 1
      /\ \A k \in 1..(n - 1) : p[k] = IF k < i THEN parts[k] ELSE parts[k + 1]
  BY <1>1, <1>2, <1>5 DEF Without
<1>8. \A j, k \in 1..n : j < k => types[j] < types[k]
  BY <1>2 DEF Proper, Grows
<1>9. ASSUME NEW j \in 1..(n - 1), NEW k \in 1..(n - 1), j < k
      PROVE  t[j] < t[k]
  <2>1. /\ j \in 1..n /\ k \in 1..n /\ j + 1 \in 1..n /\ k + 1 \in 1..n
        /\ j < k + 1 /\ j + 1 < k + 1
    BY <1>2, <1>9
  <2>2. CASE j < i
    <3>1. t[j] = types[j] /\ (t[k] = types[k] \/ t[k] = types[k + 1])
      BY <1>6, <2>2
    <3> QED
      BY <1>8, <1>9, <2>1, <3>1
  <2>3. CASE ~(j < i)
    <3>1. ~(k < i)
      BY <1>3, <1>9, <2>1, <2>3
    <3>2. t[j] = types[j + 1] /\ t[k] = types[k + 1]
      BY <1>6, <2>3, <3>1
    <3> QED
      BY <1>8, <2>1, <3>2
  <2> QED
    BY <2>2, <2>3
<1>10. ASSUME NEW k \in 1..(n - 1)
       PROVE  IF k < i THEN t[k] < types[i] ELSE types[i] < t[k]
  <2>1. k \in 1..n /\ k + 1 \in 1..n
    BY <1>2
  <2>2. CASE k < i
    BY <1>3, <1>6, <1>8, <2>1, <2>2
  <2>3. CASE ~(k < i)
    <3>1. i < k + 1
      BY <1>3, <2>1, <2>3
    <3>2. t[k] = types[k + 1]
      BY <1>6, <2>3
    <3> QED
      BY <1>3, <1>8, <2>1, <2>3, <3>1, <3>2
  <2> QED
    BY <2>2, <2>3
<1>11. ASSUME NEW k \in 1..(n - 1)
       PROVE  IsSection(p[k])
  <2>1. k \in 1..n /\ k + 1 \in 1..n
    BY <1>2
  <2>2. \A j \in 1..n : IsSection(parts[j])
    BY <1>1, <1>2 DEF Proper
  <2>3. p[k] = parts[k] \/ p[k] = parts[k + 1]
    BY <1>7
  <2> QED
    BY <2>1, <2>2, <2>3
<1>12. Grows(t)
  BY <1>6, <1>9 DEF Grows
<1>13. Fits(t, i, types[i])
  BY <1>6, <1>10 DEF Fits
<1>14. Proper(t, p)
  BY <1>6, <1>7, <1>11, <1>12 DEF Proper
<1> QED
  BY <1>4, <1>5, <1>13, <1>14

-----------------------------------------------------------------------------
(* What is read from a line that represents sections: its documents are    *)
(* theirs, and it is as the code writes lines.                             *)
LEMMA DocumentsAre ==
  ASSUME LineAssumptions, NEW line, NEW types, NEW parts, Represents(line, types, parts)
  PROVE  Documents(line) = HeldIn(types, parts)
<1>1. DOMAIN line.header = 1..Len(types)
  BY HeaderOf
<1>2. \A i \in 1..Len(types) : line.header[i].doc_type = types[i] /\ DecodeSection(line, i) = parts[i]
  BY HeaderOf, SectionsOf
<1>3. \A i \in 1..Len(types) :
        {<<line.header[i].doc_type, id>> : id \in ToSet(DocIds(DecodeSection(line, i)))}
          = {<<types[i], x>> : x \in Ids(parts[i])}
  BY <1>2 DEF Ids
<1> QED
  BY <1>1, <1>3 DEF Documents, HeldIn

LEMMA IncreasingIs ==
  ASSUME NEW s \in Seq(Nat \ {0}), Grows(s)
  PROVE  IncreasingFrom0(s)
<1> SUFFICES ASSUME NEW k \in 1..Len(s)
             PROVE  0 < s[k] /\ (k > 1 => s[k - 1] < s[k])
  BY DEF IncreasingFrom0
<1>1. 0 < s[k]
  OBVIOUS
<1>2. ASSUME k > 1
      PROVE  s[k - 1] < s[k]
  <2>1. k - 1 \in 1..Len(s) /\ k - 1 < k
    BY <1>2
  <2> QED
    BY <2>1 DEF Grows
<1> QED
  BY <1>1, <1>2

LEMMA DocIdsIncrease ==
  ASSUME NEW s \in Seq(Steps)
  PROVE  IncreasingFrom0(DocIds(s))
<1>1. s \in Seq(Nat)
  BY StepsAreNumbers
<1>2. PICK f : Sums(f, s)
  BY <1>1, SumSteps
<1>3. /\ DocIds(s) \in Seq(Nat) /\ Len(DocIds(s)) = Len(s)
      /\ \A k \in 1..Len(s) : DocIds(s)[k] = f[k]
  BY <1>1, <1>2, IdsAre
<1>4. \A j, k \in 0..Len(s) : j < k => f[j] < f[k]
  BY <1>2, IdsGrow
<1>5. PICK n \in Nat : n = Len(s)
  OBVIOUS
<1>6. f[0] = 0
  BY <1>2 DEF Sums
<1> SUFFICES ASSUME NEW k \in 1..n
             PROVE  0 < DocIds(s)[k] /\ (k > 1 => DocIds(s)[k - 1] < DocIds(s)[k])
  BY <1>3, <1>5 DEF IncreasingFrom0
<1>7. 0 < f[k]
  BY <1>4, <1>5, <1>6
<1>8. ASSUME k > 1
      PROVE  DocIds(s)[k - 1] < DocIds(s)[k]
  <2>1. PICK j \in 1..n : j = k - 1 /\ j < k
    BY <1>8
  <2>2. f[j] < f[k]
    BY <1>4, <1>5, <2>1
  <2> QED
    BY <1>3, <1>5, <2>1, <2>2
<1> QED
  BY <1>3, <1>5, <1>7, <1>8

LEMMA LinesAreCanonical ==
  ASSUME LineAssumptions, NEW line, NEW types, NEW parts,
         Represents(line, types, parts), Proper(types, parts), types # <<>>
  PROVE  Canonical(line)
<1>1. PICK n \in Nat : n = Len(types)
  BY DEF Proper
<1>2. /\ Len(line.header) = n /\ DOMAIN line.header = 1..n
      /\ \A i \in 1..n : /\ line.header[i].doc_type = types[i]
                         /\ line.header[i].length = EncodedLength(parts[i])
  BY <1>1, HeaderOf
<1>3. \A i \in 1..n : DecodeSection(line, i) = parts[i]
  BY <1>1, SectionsOf
<1>4. \A i \in 1..n : parts[i] \in Seq(Steps) /\ parts[i] # <<>>
  <2> TAKE i \in 1..n
  <2>1. parts \in Seq(Seq(Steps)) /\ i \in 1..Len(parts)
    BY <1>1 DEF Proper
  <2>2. IsSection(parts[i])
    BY <2>1 DEF Proper
  <2>3. parts[i] \in Seq(Steps)
    BY <2>1
  <2> QED
    BY <2>2, <2>3 DEF IsSection
<1>5. \A i \in 1..n : EncodedLength(parts[i]) \in Nat \ {0}
  <2> TAKE i \in 1..n
  <2>1. parts[i] \in Seq(Numbers) /\ parts[i] # <<>>
    BY <1>4, StepsAreNumbers
  <2>2. EncodedLength(parts[i]) \in Nat
    BY <2>1, EncodedNumbers
  <2>3. EncodedLength(parts[i]) >= 1
    BY <2>1, EncodedEmpty
  <2> QED
    BY <2>2, <2>3
<1>6. line.header \in Seq([doc_type : Doctypes, length : Nat \ {0}]) /\ line.header # <<>>
  <2>1. line.header = [i \in 1..n |-> [doc_type |-> types[i], length |-> EncodedLength(parts[i])]]
    BY <1>1 DEF Represents
  <2>2. \A i \in 1..n : types[i] \in Doctypes
    BY <1>1 DEF Proper
  <2>3. \A i \in 1..n : [doc_type |-> types[i], length |-> EncodedLength(parts[i])]
                           \in [doc_type : Doctypes, length : Nat \ {0}]
    BY <1>5, <2>2
  <2>4. line.header \in Seq([doc_type : Doctypes, length : Nat \ {0}])
    BY <1>1, <2>1, <2>3
  <2>5. n # 0
    BY <1>1 DEF Proper
  <2> QED
    BY <1>2, <2>4, <2>5
<1>7. line.sections \in Seq(Nat \ {0})
  <2>1. parts \in Seq(Seq(Steps)) /\ line.sections = FlattenSeq(parts)
    BY DEF Proper, Represents
  <2>2. PICK f : Joins(Steps, f, parts)
    BY <2>1, JoinsExist
  <2>3. FlattenSeq(parts) \in Seq(Steps)
    BY <2>1, <2>2, JoinsAre
  <2>4. Steps \subseteq Nat \ {0}
    BY DoctypesAre DEF Steps
  <2> QED
    BY <2>1, <2>3, <2>4, SeqMonotonic
<1>8. IncreasingFrom0([i \in DOMAIN line.header |-> line.header[i].doc_type])
  <2>1. types = [i \in 1..n |-> types[i]]
    BY <1>1 DEF Proper
  <2>2. [i \in 1..n |-> line.header[i].doc_type] = [i \in 1..n |-> types[i]]
    BY <1>2
  <2>3. IncreasingFrom0(types)
    BY ProperIs, IncreasingIs DEF Proper
  <2> QED
    BY <1>2, <2>1, <2>2, <2>3
<1>9. \A i \in 1..n : IncreasingFrom0(DocIds(parts[i]))
  BY <1>4, DocIdsIncrease
<1>10. EncodedLength(line.sections) = SumOf(Lengths(line.header))
  BY SectionsOf
<1> QED
  BY <1>2, <1>3, <1>4, <1>6, <1>7, <1>8, <1>9, <1>10 DEF Canonical

(* The length of a line, for what the code computes with it.               *)
LEMMA LengthOfLine ==
  ASSUME LineAssumptions, NEW line, NEW types, NEW parts,
         Represents(line, types, parts), Proper(types, parts)
  PROVE  /\ GetLength(line) = VarNumLength(Len(types)) + Rest(types, parts)
         /\ GetLength(line) \in Nat \ {0}
         /\ VarNumLength(Len(types)) \in 1..5 /\ Rest(types, parts) \in Nat
         /\ types # <<>> => Rest(types, parts) >= 1
         /\ types = <<>> => GetLength(line) = 1
<1>1. /\ types \in Seq(Numbers) /\ parts \in Seq(Seq(Numbers)) /\ Len(types) \in Numbers
      /\ \A k \in 1..Len(parts) : EncodedLength(parts[k]) < Capacity[5]
  BY ProperIs DEF Proper, IsSection
<1>2. /\ Rest(types, parts) \in Nat
      /\ EncodedLength(types) \in Nat /\ EncodedLength(CodedParts(parts)) \in Nat
      /\ types # <<>> => Rest(types, parts) >= 1
  BY <1>1, RestType
<1>3. VarNumLength(Len(types)) \in 1..5 /\ VarNumLength(Len(types)) \in Nat
  <2>1. VarNumLength(Len(types)) \in 1..5
    BY <1>1, VarNums DEF Numbers
  <2> QED
    BY <2>1
<1>4. GetLength(line) = VarNumLength(Len(types)) + Rest(types, parts)
  BY <1>2, <1>3, GetLengthIs
<1>5. ASSUME types = <<>>
      PROVE  GetLength(line) = 1
  <2>1. parts = <<>> /\ Len(types) = 0
    BY <1>1, <1>5 DEF Proper
  <2>2. CodedParts(parts) = <<>>
    <3>1. CodedParts(parts) \in Seq(Nat) /\ Len(CodedParts(parts)) = Len(parts)
      BY <1>1, CodedPartsAre
    <3>2. Len(parts) = 0
      BY <2>1
    <3> QED
      BY <3>1, <3>2
  <2>3. Rest(types, parts) = 0
    <3>1. EncodedLength(<<>>) = 0
      BY EncodedFew
    <3>2. SumOf(<<>>) = 0
      BY SumOfFew
    <3> QED
      BY <1>5, <2>2, <3>1, <3>2 DEF Rest
  <2>4. VarNumLength(0) = 1
    BY SmallVarNums
  <2> QED
    BY <1>4, <2>1, <2>3, <2>4
<1> QED
  BY <1>2, <1>3, <1>4, <1>5

-----------------------------------------------------------------------------
(* Replacing in, or removing from, a sequence what lies at the place of a  *)
(* change.                                                                 *)
Exchanged(s, i, x, y) ==
  [InsertAt(s, i, x) EXCEPT ![i] = y] = InsertAt(s, i, y) /\ InsertAt(s, i, x)[i] = x

LEMMA ReplacedInserted ==
  ASSUME NEW X, NEW s \in Seq(X), NEW i \in 1..(Len(s) + 1), NEW x \in X, NEW y \in X
  PROVE  Exchanged(s, i, x, y)
<1>1. PICK n \in Nat : n = Len(s)
  OBVIOUS
<1>2. PICK t : t = InsertAt(s, i, x) /\ Inserted(X, s, i, x, t)
  BY Inserting
<1>3. PICK u : u = InsertAt(s, i, y) /\ Inserted(X, s, i, y, u)
  BY Inserting
<1>4. /\ t \in Seq(X) /\ Len(t) = n + 1
      /\ \A k \in 1..(n + 1) : t[k] = IF k < i THEN s[k] ELSE IF k = i THEN x ELSE s[k - 1]
  BY <1>1, <1>2 DEF Inserted
<1>5. /\ u \in Seq(X) /\ Len(u) = n + 1
      /\ \A k \in 1..(n + 1) : u[k] = IF k < i THEN s[k] ELSE IF k = i THEN y ELSE s[k - 1]
  BY <1>1, <1>3 DEF Inserted
<1>6. i \in 1..(n + 1) /\ ~(i < i)
  BY <1>1
<1>7. t[i] = x
  BY <1>4, <1>6
<1>8. t = [k \in 1..(n + 1) |-> t[k]] /\ u = [k \in 1..(n + 1) |-> u[k]]
  BY <1>4, <1>5
<1>9. \A k \in 1..(n + 1) : u[k] = IF k = i THEN y ELSE t[k]
  BY <1>4, <1>5, <1>6
<1>10. [t EXCEPT ![i] = y] = [k \in 1..(n + 1) |-> IF k = i THEN y ELSE t[k]]
  BY <1>8
<1>11. [t EXCEPT ![i] = y] = u
  BY <1>8, <1>9, <1>10
<1> QED
  BY <1>2, <1>3, <1>7, <1>11 DEF Exchanged

SameWithout(r, s, i) == RemoveAt(r, i) = RemoveAt(s, i)

LEMMA RemovedReplaced ==
  ASSUME NEW X, NEW s \in Seq(X), NEW i \in 1..Len(s), NEW x \in X,
         NEW r, r = [s EXCEPT ![i] = x]
  PROVE  SameWithout(r, s, i)
<1>1. PICK n \in Nat : n = Len(s) /\ i \in 1..n
  OBVIOUS
<1>2. PICK w : w = [k \in 1..n |-> IF k = i THEN x ELSE s[k]]
  OBVIOUS
<1>3. /\ r \in Seq(X) /\ Len(r) = n
      /\ \A k \in 1..n : k # i => r[k] = s[k]
  <2>1. \A k \in 1..n : s[k] \in X
    BY <1>1
  <2>2. w \in Seq(X) /\ Len(w) = n
    BY <1>1, <1>2, <2>1
  <2>3. s = [k \in 1..n |-> s[k]]
    BY <1>1
  <2>4. r = w
    BY <1>2, <2>3
  <2> QED
    BY <1>2, <2>2, <2>4
<1>4. PICK t : t = RemoveAt(s, i) /\ Without(X, s, i, t)
  BY Removing
<1>5. PICK u : u = RemoveAt(r, i) /\ Without(X, r, i, u)
  BY <1>1, <1>3, Removing
<1>6. /\ t \in Seq(X) /\ Len(t) = n - 1
      /\ \A k \in 1..(n - 1) : t[k] = IF k < i THEN s[k] ELSE s[k + 1]
  BY <1>1, <1>4 DEF Without
<1>7. /\ u \in Seq(X) /\ Len(u) = n - 1
      /\ \A k \in 1..(n - 1) : u[k] = IF k < i THEN r[k] ELSE r[k + 1]
  BY <1>3, <1>5 DEF Without
<1>8. ASSUME NEW k \in 1..(n - 1)
      PROVE  t[k] = u[k]
  <2>1. k \in 1..n /\ k + 1 \in 1..n
    BY <1>1
  <2>2. CASE k < i
    <3>1. k # i
      BY <1>1, <2>2
    <3> QED
      BY <1>3, <1>6, <1>7, <2>1, <2>2, <3>1
  <2>3. CASE ~(k < i)
    <3>1. k + 1 # i
      BY <1>1, <2>3
    <3> QED
      BY <1>3, <1>6, <1>7, <2>1, <2>3, <3>1
  <2> QED
    BY <2>2, <2>3
<1>9. t = [k \in 1..(n - 1) |-> t[k]] /\ u = [k \in 1..(n - 1) |-> u[k]]
  BY <1>6, <1>7
<1>10. t = u
  BY <1>8, <1>9
<1> QED
  BY <1>4, <1>5, <1>10 DEF SameWithout

LEMMA Blocks ==
  /\ \A l \in Nat \ {0} : BlockFor(l) \in Nat /\ l <= BlockFor(l)
  /\ BlockFor(1) = BlockSize
<1>1. ASSUME NEW l \in Nat \ {0}
      PROVE  BlockFor(l) \in Nat /\ l <= BlockFor(l)
  <2>1. PICK q \in Nat, r \in 0..7 : (l - 1) \div 8 = q /\ l - 1 = 8 * q + r
    <3>1. l - 1 \in Nat
      OBVIOUS
    <3>2. /\ (l - 1) \div 8 \in Nat /\ (l - 1) % 8 \in 0..7
          /\ l - 1 = 8 * ((l - 1) \div 8) + ((l - 1) % 8)
      BY <3>1
    <3> QED
      BY <3>2
  <2>2. BlockFor(l) = (q + 1) * 8
    BY <2>1 DEF BlockFor, BlockSize
  <2> QED
    BY <2>1, <2>2
<1>2. BlockFor(1) = BlockSize
  BY DEF BlockFor, BlockSize
<1> QED
  BY <1>1, <1>2

(* A line holds documents if its sections are in order and have them.      *)
TypesOf(line) == [i \in DOMAIN line.header |-> line.header[i].doc_type]

PartsOf(line) == [i \in DOMAIN line.header |-> DecodeSection(line, i)]

Holds(line, documents) ==
  /\ Represents(line, TypesOf(line), PartsOf(line))
  /\ Proper(TypesOf(line), PartsOf(line))
  /\ documents = HeldIn(TypesOf(line), PartsOf(line))

LEMMA ReadBack ==
  ASSUME LineAssumptions, NEW line, NEW types, NEW parts, Represents(line, types, parts)
  PROVE  TypesOf(line) = types /\ PartsOf(line) = parts
<1>1. PICK n \in Nat : n = Len(types)
  BY DEF Represents
<1>2. /\ DOMAIN line.header = 1..n
      /\ \A i \in 1..n : line.header[i].doc_type = types[i]
      /\ \A i \in 1..n : DecodeSection(line, i) = parts[i]
  BY <1>1, HeaderOf, SectionsOf
<1>3. types = [i \in 1..n |-> types[i]] /\ parts = [i \in 1..n |-> parts[i]]
  BY <1>1 DEF Represents
<1>4. [i \in 1..n |-> line.header[i].doc_type] = [i \in 1..n |-> types[i]]
  BY <1>2
<1>5. [i \in 1..n |-> DecodeSection(line, i)] = [i \in 1..n |-> parts[i]]
  BY <1>2
<1> QED
  BY <1>2, <1>3, <1>4, <1>5 DEF TypesOf, PartsOf

LEMMA HoldsThese ==
  ASSUME LineAssumptions, NEW line, NEW types, NEW parts,
         Represents(line, types, parts), Proper(types, parts)
  PROVE  Holds(line, HeldIn(types, parts))
BY ReadBack DEF Holds

(* A line with a section more.                                             *)
LEMMA RestWith ==
  ASSUME LineAssumptions, NEW types, NEW parts, Proper(types, parts),
         NEW i, NEW d \in Doctypes, Fits(types, i, d),
         NEW section \in Seq(Steps), IsSection(section)
  PROVE  Rest(InsertAt(types, i, d), InsertAt(parts, i, section))
           = Rest(types, parts) +
               (VarNumLength(d) + (VarNumLength(EncodedLength(section)) + EncodedLength(section)))
<1>1. types \in Seq(Numbers)
  BY ProperIs
<1>2. parts \in Seq(Seq(Numbers))
  BY ProperIs
<1>3. Len(parts) = Len(types)
  BY DEF Proper
<1>4. \A k \in 1..Len(parts) : EncodedLength(parts[k]) < Capacity[5]
  BY DEF Proper, IsSection
<1>5. i \in 1..(Len(types) + 1)
  BY DEF Fits
<1>6. d \in Numbers
  BY DoctypesAre
<1>7. section \in Seq(Numbers)
  BY StepsAreNumbers
<1>8. EncodedLength(section) < Capacity[5]
  BY DEF IsSection
<1>9. RestGrows(types, parts, i, d, section)
  BY <1>1, <1>2, <1>3, <1>4, <1>5, <1>6, <1>7, <1>8, RestInserted
<1> QED
  BY <1>9 DEF RestGrows

HasPart(line, types, parts, d, section) ==
  /\ Holds(line, HeldIn(types, parts) \cup {<<d, x>> : x \in Ids(section)})
  /\ line.header # <<>>
  /\ GetLength(line) =
       VarNumLength(Len(types) + 1) +
         (Rest(types, parts) +
            (VarNumLength(d) + (VarNumLength(EncodedLength(section)) + EncodedLength(section))))

LEMMA LineWith ==
  ASSUME LineAssumptions, NEW types, NEW parts, Proper(types, parts),
         NEW i, NEW d \in Doctypes, Fits(types, i, d),
         NEW section \in Seq(Steps), IsSection(section),
         NEW line, Represents(line, InsertAt(types, i, d), InsertAt(parts, i, section))
  PROVE  HasPart(line, types, parts, d, section)
<1>1. PICK n \in Nat : n = Len(types) /\ n = Len(parts)
  BY DEF Proper
<1>2. i \in 1..(n + 1) /\ i \in 1..(Len(types) + 1)
  BY <1>1 DEF Fits
<1>3. types \in Seq(Doctypes) /\ parts \in Seq(Seq(Steps)) /\ Len(parts) = Len(types)
  BY DEF Proper
<1>4. Proper(InsertAt(types, i, d), InsertAt(parts, i, section))
  BY ProperInserted
<1>5. HeldIn(InsertAt(types, i, d), InsertAt(parts, i, section))
        = HeldIn(types, parts) \cup {<<d, x>> : x \in Ids(section)}
  BY <1>2, <1>3, HeldInserted
<1>6. Holds(line, HeldIn(types, parts) \cup {<<d, x>> : x \in Ids(section)})
  <2>1. Holds(line, HeldIn(InsertAt(types, i, d), InsertAt(parts, i, section)))
    BY <1>4, HoldsThese
  <2> QED
    BY <1>5, <2>1
<1>7. Len(InsertAt(types, i, d)) = n + 1
  <2>1. Inserted(Doctypes, types, i, d, InsertAt(types, i, d))
    BY <1>1, <1>2, <1>3, Inserting
  <2> QED
    BY <1>1, <2>1 DEF Inserted
<1>8. line.header # <<>>
  <2>1. Len(line.header) = n + 1
    BY <1>7, HeaderOf
  <2> QED
    BY <2>1
<1>9. GetLength(line) = VarNumLength(n + 1) + Rest(InsertAt(types, i, d), InsertAt(parts, i, section))
  BY <1>4, <1>7, LengthOfLine
<1>10. Rest(InsertAt(types, i, d), InsertAt(parts, i, section))
         = Rest(types, parts) +
             (VarNumLength(d) + (VarNumLength(EncodedLength(section)) + EncodedLength(section)))
  BY RestWith
<1> QED
  BY <1>1, <1>6, <1>8, <1>9, <1>10 DEF HasPart

LEMMA HoldsIs ==
  ASSUME LineAssumptions, NEW line, NEW documents, Holds(line, documents)
  PROVE  \E types, parts : /\ Represents(line, types, parts) /\ Proper(types, parts)
                           /\ documents = HeldIn(types, parts)
                           /\ types = [i \in DOMAIN line.header |-> line.header[i].doc_type]
                           /\ (line.header = <<>> <=> types = <<>>)
                           /\ documents = Documents(line)
<1>1. /\ Represents(line, TypesOf(line), PartsOf(line))
      /\ Proper(TypesOf(line), PartsOf(line))
      /\ documents = HeldIn(TypesOf(line), PartsOf(line))
  BY DEF Holds
<1>2. Len(line.header) = Len(TypesOf(line))
  BY <1>1, HeaderOf
<1>3. line.header = <<>> <=> TypesOf(line) = <<>>
  <2>1. TypesOf(line) \in Seq(Numbers)
    BY <1>1 DEF Represents
  <2>2. PICK n \in Nat : n = Len(TypesOf(line))
    BY <2>1
  <2>3. line.header = [i \in 1..n |-> [doc_type |-> TypesOf(line)[i],
                                       length |-> EncodedLength(PartsOf(line)[i])]]
    BY <1>1, <2>2 DEF Represents
  <2>4. Len(line.header) = n
    BY <1>2, <2>2
  <2>5. line.header \in Seq({line.header[i] : i \in 1..n})
    BY <2>2, <2>3
  <2>6. line.header = <<>> <=> n = 0
    BY <2>4, <2>5
  <2> QED
    BY <2>1, <2>2, <2>6
<1>4. documents = Documents(line)
  BY <1>1, DocumentsAre
<1> QED
  BY <1>1, <1>3, <1>4 DEF TypesOf

(* A line is held in a record; the steps keep its other fields.            *)
IsLine(line) ==
  line = [header |-> line.header, sections |-> line.sections, block |-> line.block]

(* The longer line holds these documents too, in as much as 15 more bytes. *)
Adds(line, doctype, id, new) ==
  /\ GetLength(new) \in Nat /\ GetLength(new) <= GetLength(line) + 15
  /\ new.header # <<>>
  /\ Holds(new, Documents(line) \cup {<<doctype, id>>})

LEMMA AddsToSection ==
  ASSUME LineAssumptions, NEW line, NEW types, NEW parts,
         Represents(line, types, parts), Proper(types, parts), HasRoom(line),
         NEW d \in Doctypes, NEW id \in Docids,
         NEW i \in 1..Len(types), types[i] = d,
         NEW new, new = ReplaceSection(line, i, AddToSection(parts[i], id))
  PROVE  Adds(line, d, id, new)
<1>1. /\ types \in Seq(Doctypes) /\ parts \in Seq(Seq(Steps)) /\ Len(parts) = Len(types)
      /\ parts[i] \in Seq(Steps) /\ IsSection(parts[i])
  BY DEF Proper
<1>2. PICK section : section = parts[i] /\ section \in Seq(Steps) /\ IsSection(section)
  BY <1>1
<1>3. PICK more : more = AddToSection(section, id)
  OBVIOUS
<1>4. /\ more \in Seq(Steps) /\ more # <<>> /\ Ids(more) = Ids(section) \cup {id}
      /\ EncodedLength(more) <= EncodedLength(section) + 5
  <2>1. id \in Steps
    BY DoctypesAre
  <2> QED
    BY <1>2, <1>3, <2>1, Added
<1>5. PICK t : t = RemoveAt(types, i) /\ Without(Doctypes, types, i, t)
  BY <1>1, Removing
<1>6. PICK p : p = RemoveAt(parts, i) /\ Without(Seq(Steps), parts, i, p)
  <2>1. i \in 1..Len(parts)
    BY <1>1
  <2> QED
    BY <1>1, <2>1, Removing
<1>7. Proper(t, p) /\ Fits(t, i, d)
  BY <1>5, <1>6, ProperRemoved
<1>8. InsertAt(t, i, d) = types
  BY <1>5 DEF Without
<1>9. InsertAt(p, i, section) = parts
  BY <1>2, <1>6 DEF Without
<1>10. InsertAt(p, i, more) = [parts EXCEPT ![i] = more]
  BY <1>4, <1>6 DEF Without
<1>11. Represents(line, InsertAt(t, i, d), InsertAt(p, i, section))
  BY <1>8, <1>9
<1>12. Represents(new, InsertAt(t, i, d), InsertAt(p, i, more))
  <2>1. more \in Seq(Numbers)
    BY <1>4, StepsAreNumbers
  <2>2. Represents(new, types, [parts EXCEPT ![i] = more])
    BY <1>2, <1>3, <2>1, Replaced
  <2> QED
    BY <1>8, <1>10, <2>2
<1>13. HasPart(line, t, p, d, section)
  BY <1>2, <1>7, <1>11, LineWith
<1>14. PICK v, r, w \in Nat : v = VarNumLength(Len(t) + 1) /\ r = Rest(t, p) /\ w = VarNumLength(d)
  <2>1. Len(t) + 1 = Len(types)
    BY <1>1, <1>5 DEF Without
  <2>2. VarNumLength(Len(types)) \in Nat
    <3>1. VarNumLength(Len(types)) \in 1..5
      BY LengthOfLine
    <3> QED
      BY <3>1
  <2>3. Rest(t, p) \in Nat
    <3>1. t \in Seq(Numbers) /\ p \in Seq(Seq(Numbers))
      BY <1>7, ProperIs
    <3>2. \A k \in 1..Len(p) : EncodedLength(p[k]) < Capacity[5]
      BY <1>7 DEF Proper, IsSection
    <3> QED
      BY <3>1, <3>2, RestType
  <2>4. VarNumLength(d) \in Nat
    <3>1. VarNumLength(d) \in 1..5
      BY DoctypesAre, VarNums DEF Numbers
    <3> QED
      BY <3>1
  <2> QED
    BY <2>1, <2>2, <2>3, <2>4
<1>15. PICK l, m \in Nat : l = EncodedLength(section) /\ m = EncodedLength(more)
  <2>1. section \in Seq(Numbers) /\ more \in Seq(Numbers)
    BY <1>2, <1>4, StepsAreNumbers
  <2> QED
    BY <2>1, EncodedNumbers
<1>16. PICK x \in 1..5 : x = VarNumLength(l)
  BY <1>2, <1>15, VarNums DEF IsSection
<1>17. GetLength(line) = v + (r + (w + (x + l)))
  BY <1>13, <1>14, <1>15, <1>16 DEF HasPart
<1>18. PICK c, b \in Nat : c = Capacity[5] /\ b = MaxLineLength /\ b < c
  BY DoctypesAre DEF LineAssumptions
<1>19. m <= l + 5 /\ m < c
  <2>1. m <= l + 5
    BY <1>4, <1>15
  <2>2. (v + (r + (w + (x + l)))) + 15 <= b
    BY <1>17, <1>18 DEF HasRoom
  <2> QED
    BY <1>18, <2>1, <2>2
<1>20. IsSection(more)
  BY <1>2, <1>4, <1>15, <1>18, <1>19 DEF IsSection
<1>21. PICK y \in 1..5 : y = VarNumLength(m)
  BY <1>15, <1>18, <1>19, VarNums
<1>22. HasPart(new, t, p, d, more)
  BY <1>4, <1>7, <1>12, <1>20, LineWith
<1>23. GetLength(new) = v + (r + (w + (y + m)))
  BY <1>14, <1>15, <1>21, <1>22 DEF HasPart
<1>24. GetLength(new) \in Nat /\ GetLength(new) <= GetLength(line) + 15
  BY <1>17, <1>19, <1>23
<1>25. Documents(line) = HeldIn(t, p) \cup {<<d, a>> : a \in Ids(section)}
  <2>1. Holds(line, HeldIn(t, p) \cup {<<d, a>> : a \in Ids(section)})
    BY <1>13 DEF HasPart
  <2> QED
    BY <2>1, HoldsIs
<1>26. HeldIn(t, p) \cup {<<d, a>> : a \in Ids(more)} = Documents(line) \cup {<<d, id>>}
  BY <1>4, <1>25
<1> QED
  BY <1>22, <1>24, <1>26 DEF Adds, HasPart

LEMMA AddsSection ==
  ASSUME LineAssumptions, NEW line, NEW types, NEW parts,
         Represents(line, types, parts), Proper(types, parts),
         NEW d \in Doctypes, NEW id \in Docids, NEW i, Fits(types, i, d),
         NEW with, Represents(with, InsertAt(types, i, d), InsertAt(parts, i, <<>>)),
         NEW new, new = ReplaceSection(with, i, AddToSection(DecodeSection(with, i), id))
  PROVE  Adds(line, d, id, new)
<1>1. PICK n \in Nat : n = Len(types) /\ n = Len(parts)
  BY DEF Proper
<1>2. /\ i \in 1..(n + 1) /\ i \in 1..(Len(types) + 1) /\ i \in 1..(Len(parts) + 1)
  BY <1>1 DEF Fits
<1>3. /\ types \in Seq(Doctypes) /\ parts \in Seq(Seq(Steps)) /\ parts \in Seq(Seq(Numbers))
  BY ProperIs DEF Proper
<1>4. PICK empty : empty = <<>> /\ empty \in Seq(Steps) /\ empty \in Seq(Numbers)
  <2>1. <<>> \in Seq(Steps)
    OBVIOUS
  <2>2. <<>> \in Seq(Numbers)
    OBVIOUS
  <2> QED
    BY <2>1, <2>2
<1>5. PICK t, p : /\ t = InsertAt(types, i, d) /\ Inserted(Doctypes, types, i, d, t)
                  /\ p = InsertAt(parts, i, empty) /\ Inserted(Seq(Numbers), parts, i, empty, p)
  <2>1. Inserted(Doctypes, types, i, d, InsertAt(types, i, d))
    BY <1>2, <1>3, Inserting
  <2>2. Inserted(Seq(Numbers), parts, i, empty, InsertAt(parts, i, empty))
    BY <1>2, <1>3, <1>4, Inserting
  <2> QED
    BY <2>1, <2>2
<1>6. Represents(with, t, p)
  BY <1>4, <1>5
<1>7. Len(t) = n + 1 /\ i \in 1..Len(t)
  BY <1>1, <1>2, <1>5 DEF Inserted
<1>8. p[i] = empty
  <2>1. Exchanged(parts, i, empty, empty)
    BY <1>2, <1>3, <1>4, ReplacedInserted
  <2> QED
    BY <1>5, <2>1 DEF Exchanged
<1>9. DecodeSection(with, i) = empty
  BY <1>6, <1>7, <1>8, SectionsOf
<1>10. PICK section : section = AddToSection(empty, id)
  OBVIOUS
<1>11. /\ section \in Seq(Steps) /\ section # <<>> /\ Ids(section) = Ids(empty) \cup {id}
       /\ EncodedLength(section) <= EncodedLength(empty) + 5
  <2>1. id \in Steps
    BY DoctypesAre
  <2> QED
    BY <1>4, <1>10, <2>1, Added
<1>12. Ids(section) = {id}
  <2>1. Ids(empty) = {}
    BY <1>4, IdsOfFew
  <2> QED
    BY <1>11, <2>1
<1>13. PICK l \in 0..5 : l = EncodedLength(section)
  <2>1. EncodedLength(section) \in Nat
    BY <1>11, StepsAreNumbers, EncodedNumbers
  <2>2. EncodedLength(empty) = 0
    BY <1>4, EncodedFew
  <2> QED
    BY <1>11, <2>1, <2>2
<1>14. IsSection(section)
  <2>1. l < Capacity[5]
    <3>1. 8 <= Capacity[3] /\ Capacity[3] < Capacity[5] /\ Capacity[3] \in Nat /\ Capacity[5] \in Nat
      BY CapacityOfFew
    <3> QED
      BY <3>1
  <2> QED
    BY <1>11, <1>12, <1>13, <2>1 DEF IsSection
<1>15. Represents(new, InsertAt(types, i, d), InsertAt(parts, i, section))
  <2>1. section \in Seq(Numbers)
    BY <1>11, StepsAreNumbers
  <2>2. new = ReplaceSection(with, i, section)
    BY <1>9, <1>10
  <2>3. Represents(new, t, [p EXCEPT ![i] = section])
    BY <1>6, <1>7, <2>1, <2>2, Replaced
  <2>4. [p EXCEPT ![i] = section] = InsertAt(parts, i, section)
    <3>1. Exchanged(parts, i, empty, section)
      BY <1>2, <1>3, <1>4, <2>1, ReplacedInserted
    <3> QED
      BY <1>5, <3>1 DEF Exchanged
  <2> QED
    BY <1>5, <2>3, <2>4
<1>16. HasPart(new, types, parts, d, section)
  BY <1>11, <1>14, <1>15, LineWith
<1>17. PICK v \in 1..5, r \in Nat : /\ v = VarNumLength(n) /\ r = Rest(types, parts)
                                    /\ GetLength(line) = v + r
  <2>1. /\ GetLength(line) = VarNumLength(Len(types)) + Rest(types, parts)
        /\ VarNumLength(Len(types)) \in 1..5 /\ Rest(types, parts) \in Nat
    BY LengthOfLine
  <2>2. VarNumLength(n) \in 1..5 /\ GetLength(line) = VarNumLength(n) + Rest(types, parts)
    BY <1>1, <2>1
  <2> QED
    BY <2>1, <2>2
<1>18. PICK w \in Nat : w = VarNumLength(n + 1) /\ w <= v + 1
  <2>1. n + 1 \in Numbers
    <3>1. Len(t) \in Numbers
      <4>1. IsSection(section) /\ section \in Seq(Steps)
        BY <1>11, <1>14
      <4>2. Proper(t, InsertAt(parts, i, section))
        BY <1>5, <4>1, ProperInserted
      <4> QED
        BY <4>2, ProperIs
    <3> QED
      BY <1>7, <3>1
  <2>2. VarNumLength(n + 1) \in 1..5
    BY <2>1, VarNums DEF Numbers
  <2>3. VarNumLength(n + 1) <= VarNumLength(n) + 1
    BY <2>1, SmallVarNums DEF Numbers
  <2> QED
    BY <1>17, <2>2, <2>3
<1>19. PICK x \in 1..5 : x = VarNumLength(d)
  BY DoctypesAre, VarNums DEF Numbers
<1>20. PICK y \in Nat : y = VarNumLength(l) /\ y <= 3
  <2>1. VarNumLength(l) <= 3
    BY SmallVarNums
  <2>2. VarNumLength(l) \in 1..5
    <3>1. l \in Nat /\ l < Capacity[5]
      BY <1>13, <1>14 DEF IsSection
    <3> QED
      BY <3>1, VarNums
  <2> QED
    BY <2>1, <2>2
<1>21. GetLength(new) = w + (r + (x + (y + l)))
  BY <1>1, <1>13, <1>16, <1>17, <1>18, <1>19, <1>20 DEF HasPart
<1>22. GetLength(new) \in Nat /\ GetLength(new) <= GetLength(line) + 15
  <2>1. PICK s \in Nat : s = w + (r + (x + (y + l)))
    <3>1. x \in Nat /\ l \in Nat
      OBVIOUS
    <3> QED
      BY <3>1
  <2>2. s <= (v + r) + 15
    <3>1. x <= 5 /\ l <= 5 /\ x \in Nat /\ l \in Nat /\ v \in Nat
      OBVIOUS
    <3>2. w <= v + 1 /\ y <= 3
      BY <1>18, <1>20
    <3> QED
      BY <2>1, <3>1, <3>2
  <2> QED
    BY <1>17, <1>21, <2>1, <2>2
<1>23. Documents(line) = HeldIn(types, parts)
  BY DocumentsAre
<1>24. HeldIn(types, parts) \cup {<<d, a>> : a \in Ids(section)} = Documents(line) \cup {<<d, id>>}
  BY <1>12, <1>23
<1> QED
  BY <1>16, <1>22, <1>24 DEF Adds, HasPart

(* addDocument, whether the doctype has a section yet or not.              *)
LEMMA AddDocumentAdds ==
  ASSUME LineAssumptions, NEW line, IsLine(line), NEW documents, Holds(line, documents),
         HasRoom(line), NEW d \in Doctypes, NEW id \in Docids
  PROVE  Adds(line, d, id, LineAddDocument(line, d, id))
<1>1. PICK types, parts : /\ Represents(line, types, parts) /\ Proper(types, parts)
                          /\ types = [i \in DOMAIN line.header |-> line.header[i].doc_type]
  BY HoldsIs
<1>2. PICK n \in Nat : n = Len(types)
  BY <1>1 DEF Proper
<1>3. /\ Len(line.header) = n /\ DOMAIN line.header = 1..n
      /\ \A i \in 1..n : line.header[i].doc_type = types[i] /\ DecodeSection(line, i) = parts[i]
  BY <1>1, <1>2, HeaderOf, SectionsOf
<1>4. PICK i : i = Position(line, d) /\ i = Below(types, d) + 1
  BY <1>1 DEF Position
<1>5. /\ i \in 1..(n + 1)
      /\ ~(i <= n /\ types[i] = d) => Fits(types, i, d)
  <2>1. types \in Seq(Nat) /\ Grows(types) /\ d \in Nat
    BY <1>1, ProperIs, DoctypesAre DEF Proper
  <2> QED
    BY <1>2, <1>4, <2>1, PositionFits
<1>6. HasSection(line, i, d) <=> i \in 1..n /\ types[i] = d
  BY <1>3, <1>5 DEF HasSection
<1>7. CASE HasSection(line, i, d)
  <2>1. LineAddDocument(line, d, id) = ReplaceSection(line, i, AddToSection(parts[i], id))
    BY <1>3, <1>4, <1>6, <1>7 DEF LineAddDocument
  <2> QED
    BY <1>1, <1>2, <1>6, <1>7, <2>1, AddsToSection
<1>8. CASE ~HasSection(line, i, d)
  <2>1. PICK with : with = [line EXCEPT !.header = InsertAt(@, i, [doc_type |-> d, length |-> 0])]
    OBVIOUS
  <2>2. /\ with.header = InsertAt(line.header, i, [doc_type |-> d, length |-> 0])
        /\ with.sections = line.sections
    BY <2>1 DEF IsLine
  <2>3. Fits(types, i, d)
    BY <1>5, <1>6, <1>8
  <2>4. Represents(with, InsertAt(types, i, d), InsertAt(parts, i, <<>>))
    <3>1. d \in Numbers /\ i \in 1..(Len(types) + 1)
      BY <1>2, <1>5, DoctypesAre
    <3> QED
      BY <1>1, <2>2, <3>1, InsertedEmpty
  <2>5. LineAddDocument(line, d, id) = ReplaceSection(with, i, AddToSection(DecodeSection(with, i), id))
    BY <1>4, <1>8, <2>1 DEF LineAddDocument
  <2> QED
    BY <1>1, <2>3, <2>4, <2>5, AddsSection
<1> QED
  BY <1>7, <1>8

(* A line without documents is one byte long, and no other is.             *)
LEMMA OneByteLine ==
  ASSUME LineAssumptions, NEW line, NEW documents, Holds(line, documents)
  PROVE  /\ GetLength(line) \in Nat \ {0}
         /\ GetLength(line) = 1 <=> line.header = <<>>
         /\ line.header = <<>> => documents = {}
<1>1. PICK types, parts : /\ Represents(line, types, parts) /\ Proper(types, parts)
                          /\ documents = HeldIn(types, parts)
                          /\ line.header = <<>> <=> types = <<>>
  BY HoldsIs
<1>2. PICK v \in 1..5, r \in Nat : v = VarNumLength(Len(types)) /\ r = Rest(types, parts)
  BY <1>1, LengthOfLine
<1>3. /\ GetLength(line) = v + r /\ (types # <<>> => r >= 1) /\ (types = <<>> => GetLength(line) = 1)
      /\ GetLength(line) \in Nat \ {0}
  BY <1>1, <1>2, LengthOfLine
<1>4. types # <<>> => GetLength(line) # 1
  BY <1>3
<1>5. ASSUME types = <<>>
      PROVE  documents = {}
  <2>1. Len(types) = 0
    BY <1>5
  <2>2. 1..Len(types) = {}
    BY <2>1
  <2> QED
    BY <1>1, <2>2 DEF HeldIn
<1> QED
  BY <1>1, <1>3, <1>4, <1>5

Removes(line, doctype, id, new) ==
  /\ GetLength(new) \in Nat /\ GetLength(new) <= GetLength(line)
  /\ Holds(new, Documents(line) \ {<<doctype, id>>})

Shortens(line, doctype, id, i, rest, left) ==
  /\ left.header[i].length = EncodedLength(rest)
  /\ rest # <<>> => EncodedLength(rest) # 0 /\ Removes(line, doctype, id, left)
  /\ rest = <<>> =>
       /\ EncodedLength(rest) = 0
       /\ Removes(line, doctype, id, [left EXCEPT !.header = RemoveAt(@, i)])

LEMMA RemovesFromSection ==
  ASSUME LineAssumptions, NEW line, NEW types, NEW parts,
         Represents(line, types, parts), Proper(types, parts),
         NEW d \in Doctypes, NEW i \in 1..Len(types), types[i] = d,
         NEW id \in Ids(parts[i]), NEW rest, rest = RemoveFromSection(parts[i], id),
         NEW left, left = ReplaceSection(line, i, rest)
  PROVE  Shortens(line, d, id, i, rest, left)
<1>1. /\ types \in Seq(Doctypes) /\ parts \in Seq(Seq(Steps)) /\ Len(parts) = Len(types)
      /\ parts[i] \in Seq(Steps) /\ IsSection(parts[i])
  BY DEF Proper
<1>2. PICK section : section = parts[i] /\ section \in Seq(Steps) /\ IsSection(section)
  BY <1>1
<1>3. /\ rest \in Seq(Steps) /\ Ids(rest) = Ids(section) \ {id}
      /\ EncodedLength(rest) <= EncodedLength(section)
  <2>1. Ids(section) \subseteq Steps
    BY <1>2, DoctypesAre DEF IsSection
  <2> QED
    BY <1>2, <2>1, Removed
<1>4. rest \in Seq(Numbers) /\ section \in Seq(Numbers) /\ parts \in Seq(Seq(Numbers))
  BY <1>2, <1>3, StepsAreNumbers, ProperIs
<1>5. PICK t : t = RemoveAt(types, i) /\ Without(Doctypes, types, i, t)
  BY <1>1, Removing
<1>6. PICK p : p = RemoveAt(parts, i) /\ Without(Seq(Steps), parts, i, p)
  <2>1. i \in 1..Len(parts)
    BY <1>1
  <2> QED
    BY <1>1, <2>1, Removing
<1>7. Proper(t, p) /\ Fits(t, i, d)
  BY <1>5, <1>6, ProperRemoved
<1>8. InsertAt(t, i, d) = types
  BY <1>5 DEF Without
<1>9. InsertAt(p, i, section) = parts
  BY <1>2, <1>6 DEF Without
<1>10. HasPart(line, t, p, d, section)
  <2>1. Represents(line, InsertAt(t, i, d), InsertAt(p, i, section))
    BY <1>8, <1>9
  <2> QED
    BY <1>2, <1>7, <2>1, LineWith
<1>11. Documents(line) = HeldIn(t, p) \cup {<<d, a>> : a \in Ids(section)}
  <2>1. Holds(line, HeldIn(t, p) \cup {<<d, a>> : a \in Ids(section)})
    BY <1>10 DEF HasPart
  <2> QED
    BY <2>1, HoldsIs
<1>12. <<d, id>> \notin HeldIn(t, p)
  <2>1. t \in Seq(Nat) /\ d \in Nat
    BY <1>7, ProperIs, DoctypesAre
  <2> QED
    BY <1>7, <2>1, NotHeld
<1>13. Documents(line) \ {<<d, id>>} = HeldIn(t, p) \cup {<<d, a>> : a \in Ids(rest)}
  <2>1. {<<d, a>> : a \in Ids(rest)} = {<<d, a>> : a \in Ids(section)} \ {<<d, id>>}
    BY <1>3
  <2> QED
    BY <1>11, <1>12, <2>1
<1>14. Represents(left, types, [parts EXCEPT ![i] = rest])
  BY <1>4, Replaced
<1>15. PICK q : q = [parts EXCEPT ![i] = rest] /\ q[i] = rest
  <2>1. i \in DOMAIN parts
    BY <1>1
  <2>2. [parts EXCEPT ![i] = rest][i] = rest
    BY <2>1
  <2> QED
    BY <2>2
<1>16. left.header[i].length = EncodedLength(rest)
  <2>1. Represents(left, types, q)
    BY <1>14, <1>15
  <2>2. left.header[i].length = EncodedLength(q[i])
    BY <2>1, HeaderOf
  <2> QED
    BY <1>15, <2>2
<1>17. PICK v, r, w \in Nat : v = VarNumLength(Len(t) + 1) /\ r = Rest(t, p) /\ w = VarNumLength(d)
  <2>1. Len(t) + 1 = Len(types)
    BY <1>1, <1>5 DEF Without
  <2>2. VarNumLength(Len(types)) \in Nat
    <3>1. VarNumLength(Len(types)) \in 1..5
      BY LengthOfLine
    <3> QED
      BY <3>1
  <2>3. Rest(t, p) \in Nat
    <3>1. t \in Seq(Numbers) /\ p \in Seq(Seq(Numbers))
      BY <1>7, ProperIs
    <3>2. \A k \in 1..Len(p) : EncodedLength(p[k]) < Capacity[5]
      BY <1>7 DEF Proper, IsSection
    <3> QED
      BY <3>1, <3>2, RestType
  <2>4. VarNumLength(d) \in Nat
    <3>1. VarNumLength(d) \in 1..5
      BY DoctypesAre, VarNums DEF Numbers
    <3> QED
      BY <3>1
  <2> QED
    BY <2>1, <2>2, <2>3, <2>4
<1>18. PICK l, m \in Nat : l = EncodedLength(section) /\ m = EncodedLength(rest)
  BY <1>4, EncodedNumbers
<1>19. PICK c \in Nat : c = Capacity[5] /\ l < c /\ m <= l /\ m < c
  <2>1. Capacity[5] \in Nat
    BY CapacityOfFew
  <2> QED
    BY <1>2, <1>3, <1>18, <2>1 DEF IsSection
<1>20. PICK x, y \in Nat : x = VarNumLength(l) /\ y = VarNumLength(m) /\ y <= x
  <2>1. VarNumLength(l) \in 1..5 /\ VarNumLength(m) \in 1..5
    BY <1>18, <1>19, VarNums
  <2>2. VarNumLength(m) <= VarNumLength(l)
    BY <1>18, <1>19, VarNumsGrow
  <2>3. VarNumLength(l) \in Nat /\ VarNumLength(m) \in Nat
    BY <2>1
  <2> QED
    BY <2>2, <2>3
<1>21. GetLength(line) = v + (r + (w + (x + l)))
  BY <1>10, <1>17, <1>18, <1>20 DEF HasPart
<1>22. ASSUME rest # <<>>
       PROVE  EncodedLength(rest) # 0 /\ Removes(line, d, id, left)
  <2>1. IsSection(rest)
    BY <1>2, <1>3, <1>18, <1>19, <1>22 DEF IsSection
  <2>2. [parts EXCEPT ![i] = rest] = InsertAt(p, i, rest)
    BY <1>3, <1>6 DEF Without
  <2>3. Represents(left, InsertAt(t, i, d), InsertAt(p, i, rest))
    BY <1>8, <1>14, <2>2
  <2>4. HasPart(left, t, p, d, rest)
    BY <1>3, <1>7, <2>1, <2>3, LineWith
  <2>5. GetLength(left) = v + (r + (w + (y + m)))
    BY <1>17, <1>18, <1>20, <2>4 DEF HasPart
  <2>6. GetLength(left) \in Nat /\ GetLength(left) <= GetLength(line)
    <3>1. m <= l /\ y <= x
      BY <1>19, <1>20
    <3>2. /\ v + (r + (w + (y + m))) \in Nat
          /\ v + (r + (w + (y + m))) <= v + (r + (w + (x + l)))
      BY <3>1
    <3> QED
      BY <1>21, <2>5, <3>2
  <2>7. Holds(left, Documents(line) \ {<<d, id>>})
    BY <1>13, <2>4 DEF HasPart
  <2>8. EncodedLength(rest) # 0
    BY <1>4, <1>22, EncodedEmpty
  <2> QED
    BY <2>6, <2>7, <2>8 DEF Removes
<1>23. ASSUME rest = <<>>
       PROVE  /\ EncodedLength(rest) = 0
              /\ Removes(line, d, id, [left EXCEPT !.header = RemoveAt(@, i)])
  <2>1. PICK new : new = [left EXCEPT !.header = RemoveAt(@, i)]
    OBVIOUS
  <2>2. new.header = RemoveAt(left.header, i) /\ new.sections = left.sections
    BY <2>1 DEF ReplaceSection
  <2>3. Represents(new, RemoveAt(types, i), RemoveAt(q, i))
    BY <1>14, <1>15, <1>23, <2>2, EmptyRemoved
  <2>4. RemoveAt(q, i) = p
    <3>1. i \in 1..Len(parts)
      BY <1>1
    <3>2. parts \in Seq(Seq(Steps)) /\ rest \in Seq(Steps) /\ q = [parts EXCEPT ![i] = rest]
      BY <1>1, <1>3, <1>15
    <3>3. SameWithout(q, parts, i)
      BY <3>1, <3>2, RemovedReplaced
    <3> QED
      BY <1>6, <3>3 DEF SameWithout
  <2>5. Represents(new, t, p)
    BY <1>5, <2>3, <2>4
  <2>6. HeldIn(t, p) = Documents(line) \ {<<d, id>>}
    <3>1. Ids(rest) = {}
      BY <1>23, IdsOfFew
    <3> QED
      BY <1>13, <3>1
  <2>7. Holds(new, Documents(line) \ {<<d, id>>})
    <3>1. Holds(new, HeldIn(t, p))
      BY <1>7, <2>5, HoldsThese
    <3> QED
      BY <2>6, <3>1
  <2>8. PICK u \in 1..5 : u = VarNumLength(Len(t)) /\ GetLength(new) = u + r
    BY <1>7, <1>17, <2>5, LengthOfLine
  <2>9. u <= v
    <3>1. Len(t) \in Nat /\ Len(t) <= Len(t) + 1
      BY <1>5 DEF Without
    <3>2. Len(t) + 1 \in Nat /\ Len(t) + 1 < Capacity[5]
      <4>1. Len(t) + 1 = Len(types)
        BY <1>1, <1>5 DEF Without
      <4> QED
        BY <4>1, ProperIs DEF Numbers
    <3> QED
      BY <1>17, <2>8, <3>1, <3>2, VarNumsGrow
  <2>10. GetLength(new) \in Nat /\ GetLength(new) <= GetLength(line)
    BY <1>21, <2>8, <2>9
  <2>11. EncodedLength(rest) = 0
    BY <1>23, EncodedFew
  <2> QED
    BY <2>1, <2>7, <2>10, <2>11 DEF Removes
<1> QED
  BY <1>16, <1>22, <1>23 DEF Shortens

(* deleteDocument, whether its section is left empty or not.               *)
LEMMA DeleteDocumentRemoves ==
  ASSUME LineAssumptions, NEW line, NEW documents, Holds(line, documents),
         NEW d \in Doctypes, NEW id, <<d, id>> \in Documents(line)
  PROVE  Removes(line, d, id, LineDeleteDocument(line, d, id))
<1>1. PICK types, parts : /\ Represents(line, types, parts) /\ Proper(types, parts)
                          /\ types = [i \in DOMAIN line.header |-> line.header[i].doc_type]
  BY HoldsIs
<1>2. PICK n \in Nat : n = Len(types)
  BY <1>1 DEF Proper
<1>3. \A i \in 1..n : DecodeSection(line, i) = parts[i]
  BY <1>1, <1>2, SectionsOf
<1>4. Documents(line) = HeldIn(types, parts)
  BY <1>1, DocumentsAre
<1>5. PICK i \in 1..n : types[i] = d /\ id \in Ids(parts[i])
  BY <1>2, <1>4 DEF HeldIn
<1>6. i = Below(types, d) + 1
  <2>1. types \in Seq(Nat) /\ Grows(types) /\ d \in Nat
    BY <1>1, ProperIs, DoctypesAre DEF Proper
  <2> QED
    BY <1>2, <1>5, <2>1, PositionFits
<1>7. i = Position(line, d)
  BY <1>1, <1>6 DEF Position
<1>8. PICK rest, left : /\ rest = RemoveFromSection(parts[i], id)
                        /\ left = ReplaceSection(line, i, rest)
  OBVIOUS
<1>9. LineDeleteDocument(line, d, id) = IF left.header[i].length # 0 THEN left
                                    ELSE [left EXCEPT !.header = RemoveAt(@, i)]
  BY <1>3, <1>7, <1>8 DEF LineDeleteDocument
<1>10. Shortens(line, d, id, i, rest, left)
  BY <1>1, <1>2, <1>5, <1>8, RemovesFromSection
<1> QED
  BY <1>9, <1>10 DEF Shortens

-----------------------------------------------------------------------------
(* Between the changes of a line: it holds what was let in, in a block of  *)
(* its length.                                                             *)
LineInv ==
  IF entry = NoEntry THEN held = {}
  ELSE /\ IsLine(entry) /\ Holds(entry, held) /\ entry.header # <<>>
       /\ entry.block = BlockFor(GetLength(entry)) /\ GetLength(entry) <= MaxLineLength

Kept(line, documents) ==
  /\ line # NoEntry
  /\ IsLine(line) /\ Holds(line, documents) /\ line.header # <<>>
  /\ line.block = BlockFor(GetLength(line)) /\ GetLength(line) <= MaxLineLength

LEMMA Committed ==
  ASSUME LineAssumptions, NEW old, old.block = BlockFor(GetLength(old)),
         NEW new, NEW documents, Holds(new, documents), new.header # <<>>,
         GetLength(new) <= MaxLineLength
  PROVE  Kept(Commit(old, new), documents)
<1>1. PICK line : line = Commit(old, new)
  OBVIOUS
<1>2. IsLine(line) /\ line.header = new.header /\ line.sections = new.sections
  BY <1>1 DEF Commit, IsLine
<1>3. GetLength(line) = GetLength(new)
  BY <1>2 DEF GetLength
<1>4. line.block = BlockFor(GetLength(new))
  BY <1>1 DEF Commit
<1>5. TypesOf(line) = TypesOf(new) /\ PartsOf(line) = PartsOf(new)
  BY <1>2 DEF TypesOf, PartsOf, DecodeSection
<1>6. Holds(line, documents)
  BY <1>2, <1>5 DEF Holds, Represents
<1>7. line \in [header : Seq([doc_type : Nat, length : Nat]), sections : Seq(Nat), block : Nat]
  <2>1. PICK types, parts : Represents(line, types, parts)
    BY <1>6 DEF Holds
  <2>2. line.sections \in Seq(Nat)
    <3>1. line.sections \in Seq(Numbers)
      BY <2>1, SectionsOf
    <3> QED
      BY <3>1, DoctypesAre, SeqMonotonic
  <2>3. line.block \in Nat
    <3>1. GetLength(new) \in Nat \ {0}
      BY OneByteLine
    <3> QED
      BY <1>4, <3>1, Blocks
  <2>4. line.header \in Seq([doc_type : Nat, length : Nat])
    <3>1. PICK n \in Nat : n = Len(types)
      BY <2>1 DEF Represents
    <3>2. line.header = [i \in 1..n |-> [doc_type |-> types[i], length |-> EncodedLength(parts[i])]]
      BY <2>1, <3>1 DEF Represents
    <3>3. \A i \in 1..n : types[i] \in Nat
      BY <2>1, <3>1, DoctypesAre DEF Represents
    <3>4. \A i \in 1..n : EncodedLength(parts[i]) \in Nat
      BY <2>1, <3>1, HeaderOf
    <3>5. \A i \in 1..n : [doc_type |-> types[i], length |-> EncodedLength(parts[i])]
                             \in [doc_type : Nat, length : Nat]
      BY <3>3, <3>4
    <3> QED
      BY <3>1, <3>2, <3>5
  <2> QED
    BY <1>2, <2>2, <2>3, <2>4 DEF IsLine
<1>8. line # NoEntry
  BY <1>7 DEF LineAssumptions
<1> QED
  BY <1>1, <1>2, <1>3, <1>4, <1>6, <1>8 DEF Kept

LEMMA NewEntryIs ==
  ASSUME LineAssumptions
  PROVE  /\ IsLine(NewEntry) /\ Holds(NewEntry, {})
         /\ NewEntry.block = BlockFor(GetLength(NewEntry)) /\ HasRoom(NewEntry)
<1>1. PICK none : none = <<>>
  OBVIOUS
<1>2. none \in Seq(Numbers) /\ none \in Seq(Seq(Numbers)) /\ none \in Seq(Seq(Steps))
  <2>1. <<>> \in Seq(Numbers)
    OBVIOUS
  <2>2. <<>> \in Seq(Seq(Numbers))
    OBVIOUS
  <2>3. <<>> \in Seq(Seq(Steps))
    OBVIOUS
  <2> QED
    BY <1>1, <2>1, <2>2, <2>3
<1>3. none \in Seq(Doctypes) /\ Len(none) = 0
  <2>1. <<>> \in Seq(Doctypes)
    OBVIOUS
  <2> QED
    BY <1>1, <2>1
<1>4. FlattenSeq(none) = none
  <2>1. PICK f : Joins(Numbers, f, none) /\ FlattenSeq(none) = f[Len(none)]
    BY <1>2, JoinsExist
  <2> QED
    BY <1>1, <1>3, <2>1 DEF Joins
<1>5. Represents(NewEntry, none, none)
  <2>1. NewEntry.header = [i \in 1..0 |-> [doc_type |-> none[i], length |-> EncodedLength(none[i])]]
    BY DEF NewEntry
  <2>2. NewEntry.sections = none
    BY <1>1 DEF NewEntry
  <2> QED
    BY <1>2, <1>3, <1>4, <2>1, <2>2 DEF Represents
<1>6. Proper(none, none)
  <2>1. 1..0 = {}
    OBVIOUS
  <2> QED
    BY <1>2, <1>3, <2>1 DEF Proper, Grows
<1>7. HeldIn(none, none) = {}
  <2>1. 1..0 = {}
    OBVIOUS
  <2> QED
    BY <1>3, <2>1 DEF HeldIn
<1>8. Holds(NewEntry, {})
  <2>1. Holds(NewEntry, HeldIn(none, none))
    BY <1>5, <1>6, HoldsThese
  <2> QED
    BY <1>7, <2>1
<1>9. GetLength(NewEntry) = 1
  <2>1. NewEntry.header = <<>>
    BY DEF NewEntry
  <2> QED
    BY <1>8, <2>1, OneByteLine
<1>10. NewEntry.block = BlockFor(GetLength(NewEntry))
  <2>1. NewEntry.block = BlockSize
    BY DEF NewEntry
  <2> QED
    BY <1>9, <2>1, Blocks
<1>11. HasRoom(NewEntry)
  <2>1. PICK m \in Nat : m = MaxLineLength /\ 16 <= m
    BY DoctypesAre DEF LineAssumptions
  <2> QED
    BY <1>9, <2>1 DEF HasRoom
<1>12. IsLine(NewEntry)
  BY DEF IsLine, NewEntry
<1> QED
  BY <1>8, <1>10, <1>11, <1>12

LEMMA AddKeeps ==
  ASSUME LineAssumptions, LineInv, NEW doctype \in Doctypes, NEW id \in Docids, Add(doctype, id)
  PROVE  LineInv'
<1>1. PICK old : old = IF entry = NoEntry THEN NewEntry ELSE entry
  OBVIOUS
<1>2. /\ IsLine(old) /\ Holds(old, held) /\ old.block = BlockFor(GetLength(old))
      /\ entry = NoEntry => HasRoom(old)
  BY <1>1, NewEntryIs DEF LineInv
<1>3. CASE HasRoom(old)
  <2>1. /\ entry' = Commit(old, LineAddDocument(old, doctype, id))
        /\ held' = held \cup {<<doctype, id>>}
    BY <1>1, <1>3 DEF Add
  <2>2. PICK new : new = LineAddDocument(old, doctype, id) /\ Adds(old, doctype, id, new)
    BY <1>2, <1>3, AddDocumentAdds
  <2>3. held = Documents(old)
    BY <1>2, HoldsIs
  <2>4. Holds(new, held') /\ new.header # <<>>
    BY <2>1, <2>2, <2>3 DEF Adds
  <2>5. GetLength(new) <= MaxLineLength
    <3>1. GetLength(old) \in Nat /\ MaxLineLength \in Nat
      <4>1. GetLength(old) \in Nat
        BY <1>2, OneByteLine
      <4> QED
        BY <4>1, DoctypesAre DEF LineAssumptions
    <3>2. GetLength(old) + 15 <= MaxLineLength
      BY <1>3 DEF HasRoom
    <3>3. GetLength(new) \in Nat /\ GetLength(new) <= GetLength(old) + 15
      BY <2>2 DEF Adds
    <3> QED
      BY <3>1, <3>2, <3>3
  <2>6. Kept(Commit(old, new), held')
    BY <1>2, <2>4, <2>5, Committed
  <2>7. Kept(entry', held')
    BY <2>1, <2>2, <2>6
  <2> QED
    BY <2>7 DEF Kept, LineInv
<1>4. CASE ~HasRoom(old)
  <2>1. entry' = entry /\ held' = held
    BY <1>1, <1>2, <1>4 DEF Add
  <2> QED
    BY <2>1 DEF LineInv
<1> QED
  BY <1>3, <1>4

LEMMA DeleteKeeps ==
  ASSUME LineAssumptions, LineInv, NEW doctype \in Doctypes, NEW id \in Docids, Delete(doctype, id)
  PROVE  LineInv'
<1>1. /\ IsLine(entry) /\ Holds(entry, held) /\ entry.block = BlockFor(GetLength(entry))
      /\ GetLength(entry) <= MaxLineLength
  BY DEF LineInv, Delete
<1>2. PICK new : new = LineDeleteDocument(entry, doctype, id)
  OBVIOUS
<1>3. Removes(entry, doctype, id, new)
  BY <1>1, <1>2, DeleteDocumentRemoves DEF Delete
<1>4. held' = held \ {<<doctype, id>>} /\ held = Documents(entry)
  BY <1>1, HoldsIs DEF Delete
<1>5. Holds(new, held')
  BY <1>3, <1>4 DEF Removes
<1>6. CASE GetLength(new) = 1
  <2>1. entry' = NoEntry
    BY <1>2, <1>6 DEF Delete
  <2>2. held' = {}
    BY <1>5, <1>6, OneByteLine
  <2> QED
    BY <2>1, <2>2 DEF LineInv
<1>7. CASE GetLength(new) # 1
  <2>1. entry' = Commit(entry, new)
    BY <1>2, <1>7 DEF Delete
  <2>2. new.header # <<>>
    BY <1>5, <1>7, OneByteLine
  <2>3. GetLength(new) <= MaxLineLength
    <3>1. GetLength(entry) \in Nat /\ MaxLineLength \in Nat
      <4>1. GetLength(entry) \in Nat
        BY <1>1, OneByteLine
      <4> QED
        BY <4>1, DoctypesAre DEF LineAssumptions
    <3>2. GetLength(new) \in Nat /\ GetLength(new) <= GetLength(entry)
      BY <1>3 DEF Removes
    <3> QED
      BY <1>1, <3>1, <3>2
  <2>4. Kept(Commit(entry, new), held')
    BY <1>1, <1>5, <2>2, <2>3, Committed
  <2>5. Kept(entry', held')
    BY <2>1, <2>4
  <2> QED
    BY <2>5 DEF Kept, LineInv
<1> QED
  BY <1>6, <1>7

LEMMA LineInvAlways ==
  ASSUME LineAssumptions
  PROVE  LineSpec => []LineInv
<1>1. LineInit => LineInv
  BY DEF LineInit, LineInv
<1>2. LineInv /\ [LineNext]_lineVars => LineInv'
  <2> SUFFICES ASSUME LineInv, [LineNext]_lineVars
               PROVE  LineInv'
    OBVIOUS
  <2>1. CASE LineNext
    <3>1. PICK doctype \in Doctypes, id \in Docids : Add(doctype, id) \/ Delete(doctype, id)
      BY <2>1 DEF LineNext
    <3> QED
      BY <3>1, AddKeeps, DeleteKeeps
  <2>2. CASE UNCHANGED lineVars
    BY <2>2 DEF lineVars, LineInv
  <2> QED
    BY <2>1, <2>2
<1> QED
  BY <1>1, <1>2, PTL DEF LineSpec

(* A line is written and read by counting bytes: whatever was added and    *)
(* deleted in whatever order, the line has the documents that were let in  *)
(* and not deleted, and its bytes are the only ones that say so.           *)
THEOREM LinesEncodeDocuments == LineSpec => []LineEncodesDocuments
<1>1. ASSUME LineInv
      PROVE  LineEncodesDocuments
  <2>1. CASE entry = NoEntry
    BY <1>1, <2>1 DEF LineInv, LineEncodesDocuments
  <2>2. CASE entry # NoEntry
    <3>1. Holds(entry, held) /\ entry.header # <<>>
      BY <1>1, <2>2 DEF LineInv
    <3>2. PICK types, parts : /\ Represents(entry, types, parts) /\ Proper(types, parts)
                              /\ types # <<>> /\ held = Documents(entry)
      BY <3>1, LineAssumptions, HoldsIs
    <3>3. Canonical(entry)
      BY <3>2, LineAssumptions, LinesAreCanonical
    <3> QED
      BY <2>2, <3>2, <3>3 DEF LineEncodesDocuments
  <2> QED
    BY <2>1, <2>2
<1>2. LineSpec => []LineInv
  BY LineAssumptions, LineInvAlways
<1> QED
  BY <1>1, <1>2, PTL

(* No line is written past its block, and the 15 bytes kept free are       *)
(* enough for any document: a line never outgrows its limit.               *)
THEOREM LinesFit == LineSpec => []LineFits
<1>1. ASSUME LineInv
      PROVE  LineFits
  <2> SUFFICES ASSUME entry # NoEntry
               PROVE  GetLength(entry) <= entry.block /\ GetLength(entry) <= MaxLineLength
    BY DEF LineFits
  <2>1. /\ Holds(entry, held) /\ entry.block = BlockFor(GetLength(entry))
        /\ GetLength(entry) <= MaxLineLength
    BY <1>1 DEF LineInv
  <2>2. GetLength(entry) \in Nat \ {0}
    BY <2>1, LineAssumptions, OneByteLine
  <2> QED
    BY <2>1, <2>2, Blocks
<1>2. LineSpec => []LineInv
  BY LineAssumptions, LineInvAlways
<1> QED
  BY <1>1, <1>2, PTL

=============================================================================
