------------------------ MODULE AssociationStoreProofs ------------------------
(***************************************************************************)
(* The two keys of an association stay together, for any numbers of        *)
(* documents, threads, texts and kills, and what they hold is current.     *)
(***************************************************************************)
EXTENDS AssociationStore, FiniteSetTheorems, TLAPS

Results == (Nat \X Nat) \cup {Garbage, Nothing}

Readers == [step : {"none", "key", "reverse", "wrong", "garbled", "failed"}, doc : Docs \cup {NoDoc}, version : Nat,
            other : Docs \cup {NoDoc}, todo : SUBSET Docs, disturbed : BOOLEAN]

ThreadStates == [step : {"idle", "next", "reverse", "save", "mark"}, doc : Docs \cup {NoDoc},
                 other : Docs \cup {NoDoc}, todo : SUBSET Docs, results : Results, saved : SUBSET Docs]

Commands == [action : {"none", "associate", "drop", "unmark"}, doc : Docs \cup {NoDoc},
             other : Docs \cup {NoDoc}, docs : SUBSET Docs, targets : SUBSET Docs, todo : SUBSET Docs,
             removed : BOOLEAN]

TypeOK ==
  /\ stored \in [Docs -> Nat] /\ versions \in Nat
  /\ db \in [Docs \X Docs -> Results \cup {Mark}]
  /\ cmd \in Commands
  /\ thread \in [Threads -> ThreadStates]
  /\ aborted \in BOOLEAN /\ kills \in Nat
  /\ reader \in Readers

(* What a command in hand says of the documents and of the threads.        *)
ControlOK ==
  /\ cmd.action = "none" => cmd = NoCommand
  /\ cmd.action # "associate" => \A t \in Threads : thread[t] = IdleThread
  /\ cmd.action = "associate" => cmd.docs \subseteq Stored /\ cmd.todo \subseteq cmd.docs
  /\ Dropping => cmd.doc \in Stored

(* No two threads have one document.                                       *)
ThreadOK(t) ==
  /\ thread[t].step = "idle" => thread[t] = IdleThread
  /\ thread[t].step # "idle" =>
       /\ thread[t].doc \in cmd.docs \ cmd.todo
       /\ thread[t].todo \subseteq Stored \ {thread[t].doc}
       /\ thread[t].step = "next" => thread[t].other = NoDoc
       /\ thread[t].step # "next" => thread[t].other \in Stored \ {thread[t].doc}
       /\ \A u \in Threads : u # t => thread[u].doc # thread[t].doc

ThreadsOK == \A t \in Threads : ThreadOK(t)

(* Two threads at one pair have met.                                       *)
PairsMet ==
  \A t, u \in Threads :
    /\ t # u
    /\ thread[t].other \in Docs
    /\ thread[u].doc = thread[t].other
    /\ thread[u].other = thread[t].doc
    => {thread[t].doc, thread[t].other} \in met

(* A thread that has met no other finds the key it saw.                    *)
MarksOK ==
  /\ MarksResolve
  /\ \A d \in Docs : db[<<d, d>>] = Nothing
  /\ \A t \in Threads : {thread[t].doc, thread[t].other} \notin met =>
       /\ thread[t].step = "mark" => db[<<thread[t].doc, thread[t].other>>] # Mark
       /\ thread[t].step = "reverse" => db[<<thread[t].doc, thread[t].other>>] = Mark
  /\ Dropping => \A o \in Docs : db[<<cmd.doc, o>>] # Nothing => o \in cmd.todo

Marking(d, o) == \E t \in Threads : thread[t].step = "mark" /\ thread[t].doc = d /\ thread[t].other = o

Unmarking(d, o) == cmd.action = "unmark" /\ cmd.doc = o /\ cmd.other = d

(* One key is without the other only between two writes.                   *)
KeysOK ==
  kills = 0 =>
    /\ aborted => reader.step = "failed"
    /\ \A d, o \in Docs : db[<<d, o>>] # Nothing => d \in Stored /\ o \in Stored
    /\ \A d, o \in Docs : db[<<d, o>>] # Nothing /\ db[<<o, d>>] = Nothing =>
         (Marking(d, o) /\ db[<<d, o>>] # Mark) \/ Unmarking(d, o)
    /\ Dropping => cmd.removed /\ \A o \in cmd.todo : db[<<cmd.doc, o>>] # Nothing
    /\ cmd.action = "unmark" => cmd.other \in Docs \ cmd.todo /\ db[<<cmd.other, cmd.doc>>] # Nothing

(* What is found for a pair, and what two threads may make of it.          *)
Found(v, d, o) == v \in {Nothing, <<stored[d], stored[o]>>} \/ (v = Garbage /\ {d, o} \in met)

CurrentOK ==
  kills = 0 =>
    /\ \A d, o \in Docs : db[<<d, o>>] = Mark \/ Found(db[<<d, o>>], d, o)
    /\ \A t \in Threads :
         thread[t].step \in {"save", "mark"} => Found(thread[t].results, thread[t].doc, thread[t].other)

Associated(d, S) == \A o \in S : {d, o} \in Matches => db[<<d, o>>] # Nothing

Full(d) == Cardinality(Associates(d)) >= NumResults

(* What a thread has been through is saved, but for the pair it is at.     *)
DoneBy(t) ==
  /\ thread[t].step # "idle" =>
       Associated(thread[t].doc,
                  (Stored \cap cmd.targets) \ ({thread[t].doc, thread[t].other} \cup thread[t].todo))
  /\ thread[t].step = "save" /\ {thread[t].doc, thread[t].other} \in Matches => thread[t].results # Nothing
  /\ thread[t].step = "mark" => db[<<thread[t].doc, thread[t].other>>] # Nothing
  /\ \A o \in thread[t].saved : db[<<thread[t].doc, o>>] # Nothing

DoneOK ==
  /\ cmd.action = "associate" =>
       \A d \in cmd.docs \ cmd.todo :
         \/ \E t \in Threads : thread[t].doc = d
         \/ Associated(d, (Stored \cap cmd.targets) \ {d})
         \/ Full(d)
  /\ \A t \in Threads : DoneBy(t)

Inv == TypeOK /\ ControlOK /\ ThreadsOK /\ PairsMet /\ MarksOK /\ KeysOK /\ CurrentOK /\ DoneOK

-----------------------------------------------------------------------------
LEMMA InvInitial == ASSUME Init PROVE Inv
<1> USE DEF Init, NoCommand, NoReader, IdleThread
<1>1. TypeOK
  BY StoreAssumptions DEF TypeOK, ThreadStates, Results, Readers, Commands
<1>2. ControlOK /\ ThreadsOK /\ PairsMet
  BY StoreAssumptions DEF ControlOK, ThreadsOK, ThreadOK, PairsMet, Dropping
<1>3. MarksOK /\ KeysOK
  BY StoreAssumptions DEF MarksOK, MarksResolve, KeysOK, Dropping
<1>4. CurrentOK /\ DoneOK
  BY StoreAssumptions DEF CurrentOK, Found, DoneOK, DoneBy
<1> QED
  BY <1>1, <1>2, <1>3, <1>4 DEF Inv

(* A passage that matching finds, or that is turned around, is a passage.  *)
LEMMA MatchType ==
  ASSUME TypeOK, NEW d \in Docs, NEW o \in Docs
  PROVE  /\ Match(d, o) \in Results
         /\ Match(d, o) \in {Nothing, <<stored[d], stored[o]>>}
         /\ {d, o} \in Matches => Match(d, o) = <<stored[d], stored[o]>>
BY DEF Match, TypeOK, Results

(* What is found for a pair stays found as long as its texts stay.         *)
LEMMA FoundStays ==
  ASSUME UNCHANGED stored, met \subseteq met', NEW v, NEW d, NEW o, Found(v, d, o)
  PROVE  Found(v, d, o)'
BY DEF Found

(* A document loses no associates while keys are only added.               *)
LEMMA FullStays ==
  ASSUME \A a, b \in Docs : db[<<a, b>>] # Nothing => db'[<<a, b>>] # Nothing,
         NEW d \in Docs, Full(d)
  PROVE  Full(d)'
<1>1. PICK A : A = Associates(d)
  OBVIOUS
<1>2. PICK B : B = Associates(d)'
  OBVIOUS
<1>3. A \in SUBSET B /\ B \in SUBSET Docs
  BY <1>1, <1>2 DEF Associates
<1>4. IsFiniteSet(Docs) /\ NumResults \in Nat
  BY StoreAssumptions
<1>5. IsFiniteSet(A) /\ IsFiniteSet(B)
  BY <1>3, <1>4, FS_Subset
<1>6. Cardinality(A) \in Nat /\ Cardinality(B) \in Nat /\ Cardinality(A) <= Cardinality(B)
  BY <1>3, <1>5, FS_Subset, FS_CardinalityType
<1>7. Cardinality(A) >= NumResults
  BY <1>1 DEF Full
<1>8. Cardinality(B) >= NumResults
  BY <1>4, <1>6, <1>7
<1> QED
  BY <1>2, <1>8 DEF Full

(* A search that has all the results it may have has filled its document.  *)
LEMMA FullWhenNoRoom ==
  ASSUME Inv, NEW t \in Threads, thread[t].step # "idle", ~HasRoom(t)
  PROVE  Full(thread[t].doc)
<1>1. PICK A : A = thread[t].saved
  OBVIOUS
<1>2. PICK B : B = Associates(thread[t].doc)
  OBVIOUS
<1>3. A \in SUBSET B /\ B \in SUBSET Docs
  BY <1>1, <1>2 DEF Associates, Inv, DoneOK, DoneBy, TypeOK, ThreadStates
<1>4. IsFiniteSet(Docs) /\ NumResults \in Nat
  BY StoreAssumptions
<1>5. IsFiniteSet(A) /\ IsFiniteSet(B)
  BY <1>3, <1>4, FS_Subset
<1>6. Cardinality(A) \in Nat /\ Cardinality(B) \in Nat /\ Cardinality(A) <= Cardinality(B)
  BY <1>3, <1>5, FS_Subset, FS_CardinalityType
<1>7. ~(Cardinality(A) < NumResults)
  BY <1>1 DEF HasRoom
<1>8. Cardinality(B) >= NumResults
  BY <1>4, <1>6, <1>7
<1> QED
  BY <1>2, <1>8 DEF Full

(* What has been done stays done, for threads and documents that a step    *)
(* leaves alone.                                                           *)
LEMMA DoneStays ==
  ASSUME Inv, UNCHANGED stored, cmd'.targets = cmd.targets,
         \A a, b \in Docs : db[<<a, b>>] # Nothing => db'[<<a, b>>] # Nothing
  PROVE  /\ \A u \in Threads : thread'[u] = thread[u] => DoneBy(u)'
         /\ \A d \in Docs : \A S \in SUBSET Docs : Associated(d, S) => Associated(d, S)'
         /\ \A d \in Docs : Full(d) => Full(d)'
         /\ Stored \cap cmd.targets \in SUBSET Docs /\ (Stored \cap cmd.targets)' = Stored \cap cmd.targets
<1>1. /\ Stored \cap cmd.targets \in SUBSET Docs
      /\ (Stored \cap cmd.targets)' = Stored \cap cmd.targets
  BY DEF Stored
<1>2. ASSUME NEW d \in Docs, NEW S \in SUBSET Docs, Associated(d, S)
      PROVE  Associated(d, S)'
  BY <1>2 DEF Associated
<1>3. ASSUME NEW u \in Threads, thread'[u] = thread[u]
      PROVE  DoneBy(u)'
  <2>1. DoneBy(u)
    BY DEF Inv, DoneOK
  <2>2. thread[u].step # "idle" => thread[u].doc \in Docs
    BY DEF Inv, ControlOK, ThreadsOK, ThreadOK, IdleThread, Stored
  <2>3. thread[u].step = "mark" => thread[u].other \in Docs
    BY DEF Inv, ThreadsOK, ThreadOK, Stored
  <2>4. thread[u].saved \subseteq Docs /\ (thread[u].step = "idle" => thread[u].saved = {})
    BY DEF Inv, TypeOK, ThreadStates, ThreadsOK, ThreadOK, IdleThread
  <2>5. PICK d, S : d = thread[u].doc /\ S = (Stored \cap cmd.targets) \ ({d, thread[u].other} \cup thread[u].todo)
    OBVIOUS
  <2>6. (thread[u].step # "idle" =>
          Associated(thread[u].doc,
                     (Stored \cap cmd.targets) \ ({thread[u].doc, thread[u].other} \cup thread[u].todo)))'
    <3>1. S \in SUBSET Docs
      BY <1>1, <2>5
    <3>2. thread[u].step # "idle" => Associated(d, S)
      BY <2>1, <2>5 DEF DoneBy
    <3>3. thread[u].step # "idle" => Associated(d, S)'
      BY <1>2, <2>2, <2>5, <3>1, <3>2
    <3> QED
      BY <1>1, <1>3, <2>5, <3>3
  <2>7. \A o \in thread'[u].saved : db'[<<thread'[u].doc, o>>] # Nothing
    BY <1>3, <2>1, <2>2, <2>4 DEF DoneBy
  <2>8. thread'[u].step = "mark" => db'[<<thread'[u].doc, thread'[u].other>>] # Nothing
    BY <1>3, <2>1, <2>2, <2>3 DEF DoneBy
  <2> QED
    BY <1>3, <2>1, <2>6, <2>7, <2>8 DEF DoneBy
<1>4. \A d \in Docs : Full(d) => Full(d)'
  BY FullStays
<1> QED
  BY <1>1, <1>2, <1>3, <1>4

(* A step of one thread keeps what is done, if what it does is done.       *)
LEMMA DoneByOne ==
  ASSUME Inv, NEW t \in Threads, cmd.action = "associate", UNCHANGED stored,
         cmd'.targets = cmd.targets, cmd'.docs = cmd.docs,
         \A a, b \in Docs : db[<<a, b>>] # Nothing => db'[<<a, b>>] # Nothing,
         \A u \in Threads : u # t => thread'[u] = thread[u],
         DoneBy(t)',
         \A d \in cmd.docs \ cmd'.todo :
           \/ d \in cmd.todo /\ thread'[t].doc = d
           \/ d \notin cmd.todo /\ (thread[t].doc = d =>
                                      \/ thread'[t].doc = d
                                      \/ Associated(d, (Stored \cap cmd.targets) \ {d})
                                      \/ Full(d))
  PROVE  DoneOK'
<1>1. \A u \in Threads : DoneBy(u)'
  BY DoneStays
<1>2. ASSUME NEW d \in cmd'.docs \ cmd'.todo
      PROVE  (\/ \E u \in Threads : thread[u].doc = d
              \/ Associated(d, (Stored \cap cmd.targets) \ {d})
              \/ Full(d))'
  <2>1. d \in Docs /\ (Stored \cap cmd.targets) \ {d} \in SUBSET Docs
    BY <1>2 DEF Inv, TypeOK, Commands, Stored
  <2>2. \/ \E u \in Threads : thread'[u].doc = d
        \/ Associated(d, (Stored \cap cmd.targets) \ {d})
        \/ Full(d)
    BY <1>2 DEF Inv, DoneOK
  <2>3. Associated(d, (Stored \cap cmd.targets) \ {d}) => Associated(d, (Stored \cap cmd.targets) \ {d})'
    BY <2>1, DoneStays
  <2>4. Full(d) => Full(d)'
    BY <2>1, DoneStays
  <2> QED
    BY <2>2, <2>3, <2>4
<1> QED
  BY <1>1, <1>2 DEF DoneOK

LEMMA FlipType ==
  ASSUME NEW v \in Results, v # Nothing
  PROVE  Flip(v) \in Results /\ Flip(v) # Nothing /\ Flip(v) # Mark
BY StoreAssumptions DEF Flip, Results

(* What the invariant says of a thread that is at work.                    *)
LEMMA BusyThread ==
  ASSUME Inv, NEW t \in Threads, thread[t].step # "idle"
  PROVE  /\ cmd.action = "associate" /\ ~Dropping
         /\ thread[t].doc \in Docs /\ thread[t].doc \in Stored
         /\ thread[t].todo \subseteq Docs /\ thread[t].saved \subseteq Docs
         /\ thread[t].step # "next" => thread[t].other \in Docs /\ thread[t].other # thread[t].doc
BY DEF Inv, TypeOK, ThreadStates, ControlOK, ThreadsOK, ThreadOK, IdleThread, Stored, Dropping

(* A step of a thread that writes no key leaves the keys in order, if the  *)
(* thread has seen what it says it has.                                    *)
LEMMA KeysUntouched ==
  ASSUME Inv, NEW t \in Threads, NEW s \in ThreadStates,
         thread' = [thread EXCEPT ![t] = s], thread[t].step # "mark", s.step # "mark",
         UNCHANGED <<stored, versions, db, aborted, kills, reader>>,
         cmd.action = "associate", cmd'.action = "associate", met \subseteq met',
         s.step = "reverse" => db[<<s.doc, s.other>>] = Mark,
         kills = 0 /\ s.step = "save" => Found(s.results, s.doc, s.other)'
  PROVE  MarksOK' /\ KeysOK' /\ CurrentOK'
<1> USE DEF Inv
<1>1. /\ \A u \in Threads : u # t => thread'[u] = thread[u]
      /\ thread'[t] = s
      /\ Stored' = Stored /\ ~Dropping /\ ~Dropping'
      /\ \A a, b : {a, b} \notin met' => {a, b} \notin met
  BY DEF TypeOK, Stored, Dropping
<1>2. MarksOK'
  BY <1>1 DEF MarksOK, MarksResolve
<1>3. KeysOK'
  <2>1. \A a, b \in Docs : Marking(a, b) => Marking(a, b)'
    BY <1>1 DEF Marking
  <2> QED
    BY <1>1, <2>1 DEF KeysOK, Unmarking
<1>4. CurrentOK'
  <2>1. ASSUME kills = 0, NEW u \in Threads, thread'[u].step \in {"save", "mark"}
        PROVE  Found(thread[u].results, thread[u].doc, thread[u].other)'
    <3>1. CASE u = t
      BY <1>1, <2>1, <3>1 DEF Found
    <3>2. CASE u # t
      BY <1>1, <2>1, <3>2 DEF CurrentOK, Found
    <3> QED
      BY <3>1, <3>2
  <2>2. ASSUME kills = 0, NEW a \in Docs, NEW b \in Docs
        PROVE  (db[<<a, b>>] = Mark \/ Found(db[<<a, b>>], a, b))'
    BY <1>1, <2>2 DEF CurrentOK, Found
  <2> QED
    BY <1>1, <2>1, <2>2 DEF CurrentOK
<1> QED
  BY <1>2, <1>3, <1>4

LEMMA LoadKeyStep ==
  ASSUME Inv, NEW t \in Threads, LoadKey(t)
  PROVE  Inv'
<1> USE DEF Inv
<1>1. PICK o \in thread[t].todo :
        LET d == thread[t].doc
            v == db[<<d, o>>]
            s == [thread[t] EXCEPT !.other = o, !.todo = @ \ {o}]
        IN  /\ thread' = [thread EXCEPT ![t] =
                  IF v = Mark THEN [s EXCEPT !.step = "reverse"]
                  ELSE [s EXCEPT !.step = "save", !.results = IF v = Nothing THEN Match(d, o) ELSE v]]
            /\ met' = IF AtBothEnds(t, o) THEN met \cup {{d, o}} ELSE met
  BY DEF LoadKey
<1> DEFINE d == thread[t].doc
           v == db[<<d, o>>]
           r == IF v = Nothing THEN Match(d, o) ELSE v
<1>2. /\ thread[t].step = "next" /\ UNCHANGED <<stored, versions, db, cmd, aborted, kills, reader>>
      /\ Stored' = Stored /\ (Dropping' <=> Dropping) /\ ~aborted
  BY DEF LoadKey, Stored, Dropping, Running
<1>3. /\ d \in Docs /\ o \in Docs /\ d # o /\ d \in Stored /\ o \in Stored
      /\ cmd.action = "associate" /\ ~Dropping /\ v \in Results \cup {Mark}
  BY <1>2, BusyThread DEF ThreadsOK, ThreadOK, TypeOK
<1>4. v # Mark => r \in Results
  BY <1>3, MatchType
<1>5. PICK s \in ThreadStates :
        /\ thread' = [thread EXCEPT ![t] = s]
        /\ s.doc = d /\ s.other = o /\ s.todo = thread[t].todo \ {o} /\ s.saved = thread[t].saved
        /\ v = Mark => s.step = "reverse"
        /\ v # Mark => s.step = "save" /\ s.results = r
  <2>1. PICK s : s = [thread[t] EXCEPT !.other = o, !.todo = @ \ {o}]
    OBVIOUS
  <2>2. /\ s \in ThreadStates /\ s.doc = d /\ s.other = o /\ s.todo = thread[t].todo \ {o}
        /\ s.saved = thread[t].saved
    BY <1>3, <2>1 DEF TypeOK, ThreadStates
  <2>3. CASE v = Mark
    <3>1. PICK n : n = [s EXCEPT !.step = "reverse"]
      OBVIOUS
    <3>2. /\ n \in ThreadStates /\ n.step = "reverse" /\ n.doc = s.doc /\ n.other = s.other /\ n.todo = s.todo
          /\ n.saved = s.saved
      BY <2>2, <3>1 DEF ThreadStates
    <3>3. thread' = [thread EXCEPT ![t] = n]
      BY <1>1, <2>1, <2>3, <3>1
    <3> QED
      BY <2>2, <2>3, <3>2, <3>3
  <2>4. CASE v # Mark
    <3>1. PICK n : n = [s EXCEPT !.step = "save", !.results = r]
      OBVIOUS
    <3>2. /\ n \in ThreadStates /\ n.step = "save" /\ n.doc = s.doc /\ n.other = s.other /\ n.todo = s.todo
          /\ n.results = r /\ n.saved = s.saved
      BY <1>4, <2>2, <2>4, <3>1 DEF ThreadStates
    <3>3. thread' = [thread EXCEPT ![t] = n]
      BY <1>1, <2>1, <2>4, <3>1
    <3> QED
      BY <2>2, <2>4, <3>2, <3>3
  <2> QED
    BY <2>3, <2>4
<1>6. /\ thread' \in [Threads -> ThreadStates] /\ thread'[t] = s
      /\ \A u \in Threads : u # t => thread'[u] = thread[u]
      /\ met \subseteq met' /\ (AtBothEnds(t, o) => {d, o} \in met')
  BY <1>1, <1>5 DEF TypeOK
<1>7. TypeOK'
  BY <1>2, <1>6 DEF TypeOK
<1>8. ControlOK' /\ ThreadsOK'
  BY <1>2, <1>3, <1>5, <1>6 DEF ControlOK, ThreadsOK, ThreadOK
<1>9. PairsMet'
  <2>1. ASSUME NEW a \in Threads, NEW b \in Threads, a # b, thread'[a].other \in Docs,
               thread'[b].doc = thread'[a].other, thread'[b].other = thread'[a].doc
        PROVE  {thread'[a].doc, thread'[a].other} \in met'
    <3>1. CASE a = t
      BY <1>5, <1>6, <2>1, <3>1 DEF AtBothEnds
    <3>2. CASE b = t
      <4>1. {thread'[a].doc, thread'[a].other} = {d, o}
        BY <1>5, <1>6, <2>1, <3>2
      <4> QED
        BY <1>5, <1>6, <2>1, <3>2, <4>1 DEF AtBothEnds
    <3>3. CASE a # t /\ b # t
      BY <1>6, <2>1, <3>3 DEF PairsMet
    <3> QED
      BY <3>1, <3>2, <3>3
  <2> QED
    BY <2>1 DEF PairsMet
<1>10. MarksOK' /\ KeysOK' /\ CurrentOK'
  <2>1. r \in {Nothing, v, <<stored[d], stored[o]>>}
    BY <1>3, MatchType
  <2>2. kills = 0 /\ v # Mark => Found(v, d, o)
    BY <1>3 DEF CurrentOK
  <2>3. kills = 0 /\ s.step = "save" => Found(s.results, s.doc, s.other)'
    BY <1>2, <1>5, <1>6, <2>1, <2>2 DEF Found
  <2>4. thread[t].step # "mark" /\ s.step # "mark" /\ (s.step = "reverse" => db[<<s.doc, s.other>>] = Mark)
    BY <1>2, <1>5
  <2>5. UNCHANGED <<stored, versions, db, aborted, kills, reader>> /\ cmd'.action = "associate"
    BY <1>2, <1>3
  <2> QED
    BY <1>3, <1>5, <1>6, <2>3, <2>4, <2>5, KeysUntouched
<1>11. DoneOK'
  <2>1. {d, o} \in Matches => r # Nothing
    BY <1>3, MatchType, StoreAssumptions DEF TypeOK
  <2>2. Associated(d, (Stored \cap cmd.targets) \ ({d, o} \cup s.todo))
    <3>1. Associated(d, (Stored \cap cmd.targets) \ ({d, NoDoc} \cup thread[t].todo))
      BY <1>2 DEF DoneOK, DoneBy, ThreadsOK, ThreadOK
    <3>2. (Stored \cap cmd.targets) \ ({d, o} \cup s.todo) \subseteq
            (Stored \cap cmd.targets) \ ({d, NoDoc} \cup thread[t].todo)
      BY <1>5, StoreAssumptions DEF Stored
    <3> QED
      BY <3>1, <3>2 DEF Associated
  <2>3. \A p \in s.saved : db[<<d, p>>] # Nothing
    BY <1>5 DEF DoneOK, DoneBy
  <2>4. DoneBy(t)'
    BY <1>2, <1>5, <1>6, <2>1, <2>2, <2>3 DEF DoneBy, Associated
  <2> QED
    BY <1>2, <1>3, <1>5, <1>6, <2>4, DoneByOne
<1> QED
  BY <1>7, <1>8, <1>9, <1>10, <1>11

LEMMA LoadReverseStep ==
  ASSUME Inv, NEW t \in Threads, LoadReverse(t)
  PROVE  Inv'
<1> USE DEF Inv
<1> DEFINE d == thread[t].doc
           o == thread[t].other
           v == db[<<o, d>>]
           r == IF v = Nothing THEN Match(d, o) ELSE IF v = Mark THEN Garbage ELSE Flip(v)
<1>1. /\ thread[t].step = "reverse" /\ UNCHANGED <<stored, versions, db, cmd, aborted, kills, met, reader>>
      /\ Stored' = Stored /\ (Dropping' <=> Dropping)
  BY DEF LoadReverse, Stored, Dropping
<1>2. /\ d \in Docs /\ o \in Docs /\ d # o /\ cmd.action = "associate"
      /\ v \in Results \cup {Mark}
  BY <1>1, BusyThread DEF TypeOK
<1>3. r \in Results
  <2>1. CASE v = Nothing
    BY <1>2, <2>1, MatchType
  <2>2. CASE v = Mark
    BY <2>2, StoreAssumptions DEF Results
  <2>3. CASE v # Nothing /\ v # Mark
    BY <1>2, <2>3, FlipType
  <2> QED
    BY <2>1, <2>2, <2>3
<1>4. PICK s \in ThreadStates :
        /\ thread' = [thread EXCEPT ![t] = s]
        /\ s.step = "save" /\ s.doc = d /\ s.other = o /\ s.todo = thread[t].todo /\ s.results = r
        /\ s.saved = thread[t].saved
  <2>1. PICK s : s = [thread[t] EXCEPT !.step = "save", !.results = r]
    OBVIOUS
  <2>2. /\ s \in ThreadStates
        /\ s.step = "save" /\ s.doc = d /\ s.other = o /\ s.todo = thread[t].todo /\ s.results = r
        /\ s.saved = thread[t].saved
    BY <1>3, <2>1 DEF TypeOK, ThreadStates
  <2>3. thread' = [thread EXCEPT ![t] = s]
    BY <2>1 DEF LoadReverse, TypeOK, ThreadStates
  <2> QED
    BY <2>2, <2>3
<1>5. /\ thread' \in [Threads -> ThreadStates] /\ thread'[t] = s
      /\ \A u \in Threads : u # t => thread'[u] = thread[u]
      /\ \A u \in Threads : thread'[u].doc = thread[u].doc /\ thread'[u].other = thread[u].other
  BY <1>4 DEF TypeOK
<1>6. TypeOK'
  BY <1>1, <1>5 DEF TypeOK
<1>7. ControlOK' /\ ThreadsOK'
  BY <1>1, <1>2, <1>4, <1>5 DEF ControlOK, ThreadsOK, ThreadOK
<1>8. PairsMet'
  BY <1>1, <1>5 DEF PairsMet
<1>9. MarksOK' /\ KeysOK' /\ CurrentOK'
  <2>1. ASSUME kills = 0
        PROVE  Found(r, d, o)
    <3>1. {o, d} = {d, o}
      OBVIOUS
    <3>2. v = Mark \/ v \in {Nothing, <<stored[o], stored[d]>>} \/ (v = Garbage /\ {d, o} \in met)
      BY <1>2, <2>1, <3>1 DEF CurrentOK, Found
    <3>3. CASE v = Nothing
      BY <1>2, <3>3, MatchType DEF Found
    <3>4. CASE v = Mark
      <4>1. {d, o} \in met
        BY <1>1, <1>2, <3>1, <3>4 DEF MarksOK, MarksResolve
      <4> QED
        BY <3>4, <4>1, StoreAssumptions DEF Found
    <3>5. CASE v = Garbage /\ {d, o} \in met
      <4>1. r = Garbage
        BY <3>5, StoreAssumptions DEF Flip
      <4> QED
        BY <3>5, <4>1 DEF Found
    <3>6. CASE v = <<stored[o], stored[d]>>
      <4>1. v # Garbage /\ v # Nothing /\ v # Mark
        BY <1>2, <3>6, StoreAssumptions DEF TypeOK
      <4>2. Flip(v) = <<stored[d], stored[o]>>
        BY <3>6, <4>1 DEF Flip
      <4> QED
        BY <4>1, <4>2 DEF Found
    <3> QED
      BY <3>2, <3>3, <3>4, <3>5, <3>6
  <2>2. kills = 0 /\ s.step = "save" => Found(s.results, s.doc, s.other)'
    <3> HIDE DEF r
    <3> QED
      BY <1>1, <1>4, <2>1 DEF Found
  <2>3. UNCHANGED <<stored, versions, db, aborted, kills, reader>> /\ cmd'.action = "associate" /\ met \subseteq met'
    BY <1>1, <1>2
  <2>4. thread[t].step # "mark" /\ s.step # "mark" /\ s.step # "reverse"
    BY <1>1, <1>4
  <2> QED
    BY <1>2, <1>4, <2>2, <2>3, <2>4, KeysUntouched
<1>10. DoneOK'
  <2>1. {d, o} \in Matches => r # Nothing
    <3>1. CASE v = Nothing
      BY <1>2, <3>1, MatchType, StoreAssumptions DEF TypeOK
    <3>2. CASE v = Mark
      BY <3>2, StoreAssumptions
    <3>3. CASE v # Nothing /\ v # Mark
      BY <1>2, <3>3, FlipType
    <3> QED
      BY <3>1, <3>2, <3>3
  <2>2. /\ Associated(d, (Stored \cap cmd.targets) \ ({d, o} \cup thread[t].todo))
        /\ \A p \in thread[t].saved : db[<<d, p>>] # Nothing
    BY <1>1 DEF DoneOK, DoneBy
  <2>3. DoneBy(t)'
    <3> HIDE DEF r
    <3> QED
      BY <1>1, <1>4, <1>5, <2>1, <2>2 DEF DoneBy, Associated
  <2> QED
    BY <1>1, <1>2, <1>4, <1>5, <2>3, DoneByOne
<1> QED
  BY <1>6, <1>7, <1>8, <1>9, <1>10

LEMMA TakeTaskStep ==
  ASSUME Inv, NEW t \in Threads, TakeTask(t)
  PROVE  Inv'
<1> USE DEF Inv
<1>1. PICK d \in cmd.todo :
        /\ cmd.action = "associate"
        /\ cmd' = [cmd EXCEPT !.todo = @ \ {d}]
        /\ thread' = [thread EXCEPT ![t] =
             [IdleThread EXCEPT !.step = "next", !.doc = d, !.todo = (Stored \cap cmd.targets) \ {d}]]
  BY DEF TakeTask
<1>2. /\ thread[t].step = "idle" /\ UNCHANGED <<stored, versions, db, aborted, kills, met, reader>>
      /\ Stored' = Stored /\ d \in Stored /\ d \in Docs /\ Stored \subseteq Docs /\ d # NoDoc
  BY <1>1, StoreAssumptions DEF TakeTask, Stored, ControlOK
<1>3. PICK s \in ThreadStates :
        /\ thread' = [thread EXCEPT ![t] = s]
        /\ s.step = "next" /\ s.doc = d /\ s.other = NoDoc /\ s.todo = (Stored \cap cmd.targets) \ {d}
        /\ s.saved = {}
  <2>1. PICK s : s = [IdleThread EXCEPT !.step = "next", !.doc = d, !.todo = (Stored \cap cmd.targets) \ {d}]
    OBVIOUS
  <2>2. /\ s \in ThreadStates /\ s.step = "next" /\ s.doc = d /\ s.other = NoDoc
        /\ s.todo = (Stored \cap cmd.targets) \ {d} /\ s.saved = {}
    BY <1>2, <2>1 DEF ThreadStates, IdleThread, Results
  <2> QED
    BY <1>1, <2>1, <2>2
<1>4. /\ thread' \in [Threads -> ThreadStates] /\ thread'[t] = s
      /\ \A u \in Threads : u # t => thread'[u] = thread[u]
      /\ cmd'.action = "associate" /\ cmd'.docs = cmd.docs /\ cmd'.todo = cmd.todo \ {d}
      /\ cmd'.targets = cmd.targets /\ cmd' \in Commands
  BY <1>1, <1>3 DEF TypeOK, Commands
<1>5. TypeOK'
  BY <1>1, <1>2, <1>4 DEF TypeOK
<1>6. ControlOK'
  BY <1>1, <1>2, <1>4 DEF ControlOK, Dropping
<1>7. ThreadsOK'
  <2>1. \A u \in Threads : u # t => thread[u].doc # d
    BY <1>1, <1>2 DEF ThreadsOK, ThreadOK, IdleThread
  <2>2. ASSUME NEW u \in Threads
        PROVE  ThreadOK(u)'
    <3>1. CASE u = t
      BY <1>1, <1>2, <1>3, <1>4, <2>1, <3>1 DEF ThreadOK, ControlOK
    <3>2. CASE u # t
      BY <1>2, <1>3, <1>4, <2>1, <3>2 DEF ThreadsOK, ThreadOK
    <3> QED
      BY <3>1, <3>2
  <2> QED
    BY <2>2 DEF ThreadsOK
<1>8. PairsMet'
  <2>1. \A u \in Threads : u # t /\ thread'[u].other \in Docs => thread'[u].doc # NoDoc
    BY <1>4, BusyThread, StoreAssumptions DEF ThreadsOK, ThreadOK, IdleThread
  <2> QED
    BY <1>2, <1>3, <1>4, <2>1, StoreAssumptions DEF PairsMet
<1>9. MarksOK' /\ KeysOK' /\ CurrentOK'
  BY <1>1, <1>2, <1>3, <1>4, KeysUntouched
<1>10. DoneOK'
  <2>1. DoneBy(t)'
    BY <1>2, <1>3, <1>4 DEF DoneBy, Associated
  <2>2. thread[t].doc = NoDoc /\ \A a \in cmd.docs : a # NoDoc
    BY <1>2, StoreAssumptions DEF ThreadsOK, ThreadOK, IdleThread, TypeOK, Commands
  <2>3. ASSUME NEW a \in cmd.docs \ cmd'.todo
        PROVE  \/ a \in cmd.todo /\ thread'[t].doc = a
               \/ a \notin cmd.todo /\ thread[t].doc # a
    BY <1>3, <1>4, <2>2, <2>3
  <2> QED
    BY <1>1, <1>2, <1>4, <2>1, <2>3, DoneByOne
<1> QED
  BY <1>5, <1>6, <1>7, <1>8, <1>9, <1>10

LEMMA EndTaskStep ==
  ASSUME Inv, NEW t \in Threads, EndTask(t)
  PROVE  Inv'
<1> USE DEF Inv
<1>1. /\ thread[t].step = "next" /\ (thread[t].todo = {} \/ ~HasRoom(t))
      /\ thread' = [thread EXCEPT ![t] = IdleThread]
      /\ UNCHANGED <<stored, versions, db, cmd, aborted, kills, met, reader>>
      /\ Stored' = Stored /\ IdleThread \in ThreadStates /\ cmd.action = "associate"
      /\ thread[t].doc \in Docs /\ thread[t].other = NoDoc
  BY BusyThread DEF EndTask, Stored, IdleThread, ThreadStates, Results, ThreadsOK, ThreadOK
<1>2. /\ thread' \in [Threads -> ThreadStates] /\ thread'[t] = IdleThread
      /\ \A u \in Threads : u # t => thread'[u] = thread[u]
  BY <1>1 DEF TypeOK
<1>3. TypeOK' /\ ControlOK'
  BY <1>1, <1>2 DEF TypeOK, ControlOK, Dropping
<1>4. ThreadsOK'
  BY <1>1, <1>2, StoreAssumptions DEF ThreadsOK, ThreadOK, IdleThread, TypeOK, Commands
<1>5. PairsMet'
  <2>1. \A u \in Threads : u # t /\ thread'[u].other \in Docs => thread'[u].doc # NoDoc
    BY <1>2, BusyThread, StoreAssumptions DEF ThreadsOK, ThreadOK, IdleThread
  <2> QED
    BY <1>1, <1>2, <2>1, StoreAssumptions DEF PairsMet, IdleThread
<1>6. MarksOK' /\ KeysOK' /\ CurrentOK'
  BY <1>1, KeysUntouched DEF IdleThread
<1>7. DoneOK'
  <2>1. DoneBy(t)'
    BY <1>2 DEF DoneBy, IdleThread
  <2>2. ASSUME thread[t].todo = {}
        PROVE  Associated(thread[t].doc, (Stored \cap cmd.targets) \ {thread[t].doc})
    <3>1. Associated(thread[t].doc, (Stored \cap cmd.targets) \ ({thread[t].doc, NoDoc} \cup {}))
      BY <1>1, <2>2 DEF DoneOK, DoneBy
    <3>2. (Stored \cap cmd.targets) \ {thread[t].doc} \subseteq
            (Stored \cap cmd.targets) \ ({thread[t].doc, NoDoc} \cup {})
      BY StoreAssumptions DEF Stored
    <3> QED
      BY <3>1, <3>2 DEF Associated
  <2>3. ~HasRoom(t) => Full(thread[t].doc)
    BY <1>1, FullWhenNoRoom
  <2> QED
    BY <1>1, <1>2, <2>1, <2>2, <2>3, DoneByOne
<1> QED
  BY <1>3, <1>4, <1>5, <1>6, <1>7

(* A search that found nothing has nothing to save.                        *)
LEMMA SaveNothingStep ==
  ASSUME Inv, NEW t \in Threads, SaveKey(t), thread[t].results = Nothing
  PROVE  Inv'
<1> USE DEF Inv
<1> DEFINE d == thread[t].doc
           o == thread[t].other
<1>1. /\ thread[t].step = "save" /\ UNCHANGED <<stored, versions, db, cmd, aborted, kills, met, reader>>
      /\ Stored' = Stored /\ (Dropping' <=> Dropping)
  BY DEF SaveKey, Stored, Dropping
<1>2. /\ d \in Docs /\ o \in Docs /\ d # o /\ cmd.action = "associate" /\ {d, o} \notin Matches
  BY <1>1, BusyThread DEF DoneOK, DoneBy
<1>3. PICK s \in ThreadStates :
        /\ thread' = [thread EXCEPT ![t] = s]
        /\ s.step = "next" /\ s.doc = d /\ s.other = NoDoc /\ s.todo = thread[t].todo
        /\ s.saved = thread[t].saved
  <2>1. PICK s : s = [thread[t] EXCEPT !.step = "next", !.other = NoDoc]
    OBVIOUS
  <2>2. /\ s \in ThreadStates /\ s.step = "next" /\ s.doc = d /\ s.other = NoDoc /\ s.todo = thread[t].todo
        /\ s.saved = thread[t].saved
    BY <2>1 DEF TypeOK, ThreadStates
  <2>3. thread' = [thread EXCEPT ![t] = s]
    BY <2>1 DEF SaveKey, TypeOK, ThreadStates
  <2> QED
    BY <2>2, <2>3
<1>4. /\ thread' \in [Threads -> ThreadStates] /\ thread'[t] = s
      /\ \A u \in Threads : u # t => thread'[u] = thread[u]
  BY <1>3 DEF TypeOK
<1>5. TypeOK' /\ ControlOK'
  BY <1>1, <1>2, <1>4 DEF TypeOK, ControlOK
<1>6. ThreadsOK'
  BY <1>1, <1>3, <1>4 DEF ThreadsOK, ThreadOK
<1>7. PairsMet'
  <2>1. \A u \in Threads : u # t /\ thread'[u].other \in Docs => thread'[u].doc # NoDoc
    BY <1>4, BusyThread, StoreAssumptions DEF ThreadsOK, ThreadOK, IdleThread
  <2> QED
    BY <1>1, <1>3, <1>4, <2>1, StoreAssumptions DEF PairsMet
<1>8. MarksOK' /\ KeysOK' /\ CurrentOK'
  BY <1>1, <1>2, <1>3, KeysUntouched
<1>9. DoneOK'
  <2>1. Associated(d, (Stored \cap cmd.targets) \ ({d, NoDoc} \cup thread[t].todo))
    <3>1. Associated(d, (Stored \cap cmd.targets) \ ({d, o} \cup thread[t].todo))
      BY <1>1 DEF DoneOK, DoneBy
    <3> QED
      BY <1>2, <3>1 DEF Associated
  <2>2. \A p \in thread[t].saved : db[<<d, p>>] # Nothing
    BY DEF DoneOK, DoneBy
  <2>3. DoneBy(t)'
    BY <1>1, <1>3, <1>4, <2>1, <2>2 DEF DoneBy, Associated
  <2> QED
    BY <1>1, <1>2, <1>3, <1>4, <2>3, DoneByOne
<1> QED
  BY <1>5, <1>6, <1>7, <1>8, <1>9

(* A key that a thread writes for the pair it is at.                       *)
LEMMA SaveKeyStep ==
  ASSUME Inv, NEW t \in Threads, SaveKey(t), thread[t].results # Nothing
  PROVE  Inv'
<1> USE DEF Inv
<1> DEFINE d == thread[t].doc
           o == thread[t].other
           r == thread[t].results
<1>1. /\ thread[t].step = "save" /\ UNCHANGED <<stored, versions, cmd, aborted, kills, met, reader>>
      /\ Stored' = Stored /\ (Dropping' <=> Dropping) /\ db' = [db EXCEPT ![<<d, o>>] = r]
      /\ thread' = [thread EXCEPT ![t].step = "mark"]
  BY DEF SaveKey, SaveRecord, SavedRecords, Stored, Dropping
<1>2. /\ d \in Docs /\ o \in Docs /\ d # o /\ d \in Stored /\ o \in Stored
      /\ cmd.action = "associate" /\ ~Dropping
      /\ r \in Results /\ r # Mark /\ r # Nothing
  <2>1. r \in Results
    BY DEF TypeOK, ThreadStates
  <2> QED
    BY <1>1, <2>1, BusyThread, StoreAssumptions DEF ThreadsOK, ThreadOK, Results
<1>3. PICK s \in ThreadStates :
        /\ thread' = [thread EXCEPT ![t] = s]
        /\ s.step = "mark" /\ s.doc = d /\ s.other = o /\ s.todo = thread[t].todo /\ s.results = r
        /\ s.saved = thread[t].saved
  <2>1. PICK s : s = [thread[t] EXCEPT !.step = "mark"]
    OBVIOUS
  <2>2. /\ s \in ThreadStates
        /\ s.step = "mark" /\ s.doc = d /\ s.other = o /\ s.todo = thread[t].todo /\ s.results = r
        /\ s.saved = thread[t].saved
    BY <2>1 DEF TypeOK, ThreadStates
  <2> QED
    BY <1>1, <2>1, <2>2 DEF TypeOK
<1>4. /\ thread' \in [Threads -> ThreadStates] /\ thread'[t] = s
      /\ \A u \in Threads : u # t => thread'[u] = thread[u]
      /\ \A u \in Threads : thread'[u].doc = thread[u].doc /\ thread'[u].other = thread[u].other
  BY <1>3 DEF TypeOK
<1>5. /\ db' \in [Docs \X Docs -> Results \cup {Mark}] /\ db'[<<d, o>>] = r
      /\ \A a, b \in Docs : <<a, b>> # <<d, o>> => db'[<<a, b>>] = db[<<a, b>>]
  BY <1>1, <1>2 DEF TypeOK
<1>6. TypeOK' /\ ControlOK'
  BY <1>1, <1>2, <1>4, <1>5 DEF TypeOK, ControlOK
<1>7. ThreadsOK'
  BY <1>1, <1>3, <1>4 DEF ThreadsOK, ThreadOK
<1>8. PairsMet'
  BY <1>1, <1>4 DEF PairsMet
<1>9. MarksOK'
  <2>1. MarksResolve'
    BY <1>1, <1>2, <1>5 DEF MarksOK, MarksResolve
  <2>2. \A a \in Docs : db'[<<a, a>>] = Nothing
    BY <1>2, <1>5 DEF MarksOK
  <2>3. ASSUME NEW u \in Threads, {thread'[u].doc, thread'[u].other} \notin met
        PROVE  /\ thread'[u].step = "mark" => db'[<<thread'[u].doc, thread'[u].other>>] # Mark
               /\ thread'[u].step = "reverse" => db'[<<thread'[u].doc, thread'[u].other>>] = Mark
    <3>1. CASE u = t
      BY <1>2, <1>3, <1>4, <1>5, <3>1
    <3>2. CASE u # t
      <4>1. thread'[u] = thread[u] /\ thread[u].doc # d
        BY <1>1, <1>4, <3>2 DEF ThreadsOK, ThreadOK
      <4>2. thread[u].step \in {"mark", "reverse"} => thread[u].doc \in Docs /\ thread[u].other \in Docs
        BY BusyThread
      <4> QED
        BY <1>5, <2>3, <4>1, <4>2 DEF MarksOK
    <3> QED
      BY <3>1, <3>2
  <2> QED
    BY <1>1, <1>2, <2>1, <2>2, <2>3 DEF MarksOK
<1>10. KeysOK'
  <2>1. \A a, b \in Docs : Marking(a, b) => Marking(a, b)'
    BY <1>1, <1>4 DEF Marking
  <2>2. \E u \in Threads : thread'[u].step = "mark" /\ thread'[u].doc = d /\ thread'[u].other = o
    BY <1>3, <1>4
  <2>3. ASSUME kills = 0, NEW a \in Docs, NEW b \in Docs, db'[<<a, b>>] # Nothing, db'[<<b, a>>] = Nothing
        PROVE  Marking(a, b)' /\ db'[<<a, b>>] # Mark
    <3>1. CASE <<a, b>> = <<d, o>>
      BY <1>2, <1>5, <2>2, <3>1 DEF Marking
    <3>2. CASE <<a, b>> # <<d, o>>
      <4>1. db[<<a, b>>] # Nothing /\ db[<<b, a>>] = Nothing /\ db'[<<a, b>>] = db[<<a, b>>]
        BY <1>2, <1>5, <2>3, <3>2
      <4> QED
        BY <1>2, <2>1, <2>3, <4>1 DEF KeysOK, Unmarking
    <3> QED
      BY <3>1, <3>2
  <2>4. kills = 0 => \A a, b \in Docs : db'[<<a, b>>] # Nothing => a \in Stored /\ b \in Stored
    BY <1>2, <1>5 DEF KeysOK
  <2> QED
    BY <1>1, <1>2, <2>3, <2>4 DEF KeysOK, Dropping
<1>11. CurrentOK'
  <2>1. ASSUME kills = 0, NEW a \in Docs, NEW b \in Docs
        PROVE  (db[<<a, b>>] = Mark \/ Found(db[<<a, b>>], a, b))'
    <3>1. CASE <<a, b>> = <<d, o>>
      <4>1. Found(r, d, o)
        BY <1>1, <2>1 DEF CurrentOK
      <4> QED
        BY <1>1, <1>5, <3>1, <4>1 DEF Found
    <3>2. CASE <<a, b>> # <<d, o>>
      <4>1. db[<<a, b>>] = Mark \/ Found(db[<<a, b>>], a, b)
        BY <2>1 DEF CurrentOK
      <4>2. db'[<<a, b>>] = db[<<a, b>>] /\ UNCHANGED <<stored, met>>
        BY <1>1, <1>5, <3>2
      <4> QED
        BY <4>1, <4>2 DEF Found
    <3> QED
      BY <3>1, <3>2
  <2>2. ASSUME kills = 0, NEW u \in Threads, thread'[u].step \in {"save", "mark"}
        PROVE  Found(thread[u].results, thread[u].doc, thread[u].other)'
    <3>1. CASE u = t
      BY <1>1, <1>3, <1>4, <2>2, <3>1 DEF CurrentOK, Found
    <3>2. CASE u # t
      BY <1>1, <1>4, <2>2, <3>2 DEF CurrentOK, Found
    <3> QED
      BY <3>1, <3>2
  <2> QED
    BY <1>1, <2>1, <2>2 DEF CurrentOK
<1>12. DoneOK'
  <2>1. \A a, b \in Docs : db[<<a, b>>] # Nothing => db'[<<a, b>>] # Nothing
    BY <1>2, <1>5
  <2>2. Stored \cap cmd.targets \subseteq Docs
    BY DEF Stored
  <2>3. Associated(d, (Stored \cap cmd.targets) \ ({d, o} \cup s.todo))'
    <3>1. Associated(d, (Stored \cap cmd.targets) \ ({d, o} \cup s.todo))
      BY <1>1, <1>3 DEF DoneOK, DoneBy
    <3> QED
      BY <1>1, <1>2, <2>1, <2>2, <3>1 DEF Associated
  <2>4. \A p \in s.saved : db'[<<d, p>>] # Nothing
    BY <1>2, <1>3, <2>1, BusyThread, <1>1 DEF DoneOK, DoneBy
  <2>5. DoneBy(t)'
    BY <1>1, <1>2, <1>3, <1>4, <1>5, <2>3, <2>4 DEF DoneBy
  <2> QED
    BY <1>1, <1>2, <1>3, <1>4, <2>1, <2>5, DoneByOne
<1> QED
  BY <1>6, <1>7, <1>8, <1>9, <1>10, <1>11, <1>12

LEMMA SaveReverseStep ==
  ASSUME Inv, NEW t \in Threads, SaveReverse(t)
  PROVE  Inv'
<1> USE DEF Inv
<1> DEFINE d == thread[t].doc
           o == thread[t].other
<1>1. /\ thread[t].step = "mark" /\ UNCHANGED <<stored, versions, cmd, aborted, kills, met, reader>>
      /\ Stored' = Stored /\ (Dropping' <=> Dropping) /\ db' = [db EXCEPT ![<<o, d>>] = Mark]
      /\ thread' = [thread EXCEPT ![t] = [thread[t] EXCEPT !.step = "next", !.other = NoDoc, !.results = Nothing,
                                                          !.saved = @ \cup {o}]]
  BY DEF SaveReverse, SaveRecord, SavedRecords, Stored, Dropping
<1>2. /\ d \in Docs /\ o \in Docs /\ d # o /\ d \in Stored /\ o \in Stored
      /\ cmd.action = "associate" /\ ~Dropping /\ db[<<d, o>>] # Nothing
  BY <1>1, BusyThread DEF ThreadsOK, ThreadOK, DoneOK, DoneBy
<1>3. PICK s \in ThreadStates :
        /\ thread' = [thread EXCEPT ![t] = s]
        /\ s.step = "next" /\ s.doc = d /\ s.other = NoDoc /\ s.todo = thread[t].todo
        /\ s.saved = thread[t].saved \cup {o}
  <2>1. PICK s : s = [thread[t] EXCEPT !.step = "next", !.other = NoDoc, !.results = Nothing, !.saved = @ \cup {o}]
    OBVIOUS
  <2>2. /\ s \in ThreadStates /\ s.step = "next" /\ s.doc = d /\ s.other = NoDoc /\ s.todo = thread[t].todo
        /\ s.saved = thread[t].saved \cup {o}
    <3>1. thread[t] \in ThreadStates /\ Nothing \in Results
      BY DEF TypeOK, Results
    <3> QED
      BY <1>2, <2>1, <3>1 DEF ThreadStates
  <2>3. thread' = [thread EXCEPT ![t] = s]
    BY <1>1, <2>1
  <2> QED
    BY <2>2, <2>3
<1>4. /\ thread' \in [Threads -> ThreadStates] /\ thread'[t] = s
      /\ \A u \in Threads : u # t => thread'[u] = thread[u]
  BY <1>3 DEF TypeOK
<1>5. /\ db' \in [Docs \X Docs -> Results \cup {Mark}] /\ db'[<<o, d>>] = Mark /\ Mark # Nothing
      /\ \A a, b \in Docs : <<a, b>> # <<o, d>> => db'[<<a, b>>] = db[<<a, b>>]
  BY <1>1, <1>2, StoreAssumptions DEF TypeOK
<1>6. TypeOK' /\ ControlOK'
  BY <1>1, <1>2, <1>4, <1>5 DEF TypeOK, ControlOK
<1>7. ThreadsOK'
  BY <1>1, <1>3, <1>4 DEF ThreadsOK, ThreadOK
<1>8. PairsMet'
  <2>1. \A u \in Threads : u # t /\ thread'[u].other \in Docs => thread'[u].doc # NoDoc
    BY <1>4, BusyThread, StoreAssumptions DEF ThreadsOK, ThreadOK, IdleThread
  <2> QED
    BY <1>1, <1>3, <1>4, <2>1, StoreAssumptions DEF PairsMet
<1>9. MarksOK'
  <2>1. MarksResolve'
    <3>1. {d, o} \notin met => db[<<d, o>>] # Mark
      BY <1>1 DEF MarksOK
    <3>2. {o, d} = {d, o}
      OBVIOUS
    <3>3. ASSUME NEW a \in Docs, NEW b \in Docs, {a, b} \notin met
          PROVE  ~(db'[<<a, b>>] = Mark /\ db'[<<b, a>>] = Mark)
      <4>1. CASE a = o /\ b = d
        BY <1>2, <1>5, <3>1, <3>2, <3>3, <4>1
      <4>2. CASE a = d /\ b = o
        BY <1>2, <1>5, <3>1, <3>3, <4>2
      <4>3. CASE ~(a = o /\ b = d) /\ ~(a = d /\ b = o)
        BY <1>5, <3>3, <4>3 DEF MarksOK, MarksResolve
      <4> QED
        BY <4>1, <4>2, <4>3
    <3> QED
      BY <1>1, <3>3 DEF MarksResolve
  <2>2. \A a \in Docs : db'[<<a, a>>] = Nothing
    BY <1>2, <1>5 DEF MarksOK
  <2>3. ASSUME NEW u \in Threads, {thread'[u].doc, thread'[u].other} \notin met
        PROVE  /\ thread'[u].step = "mark" => db'[<<thread'[u].doc, thread'[u].other>>] # Mark
               /\ thread'[u].step = "reverse" => db'[<<thread'[u].doc, thread'[u].other>>] = Mark
    <3>1. CASE u = t
      BY <1>3, <1>4, <3>1
    <3>2. CASE u # t
      <4>1. thread'[u] = thread[u] /\ ~(thread[u].doc = o /\ thread[u].other = d)
        BY <1>2, <1>4, <2>3, <3>2 DEF PairsMet
      <4>2. thread[u].step \in {"mark", "reverse"} => thread[u].doc \in Docs /\ thread[u].other \in Docs
        BY BusyThread
      <4> QED
        BY <1>5, <2>3, <4>1, <4>2 DEF MarksOK
    <3> QED
      BY <3>1, <3>2
  <2> QED
    BY <1>1, <1>2, <2>1, <2>2, <2>3 DEF MarksOK
<1>10. KeysOK'
  <2>1. ASSUME kills = 0, NEW a \in Docs, NEW b \in Docs, db'[<<a, b>>] # Nothing, db'[<<b, a>>] = Nothing
        PROVE  Marking(a, b)' /\ db'[<<a, b>>] # Mark
    <3>1. ~(a = o /\ b = d) /\ ~(a = d /\ b = o)
      BY <1>2, <1>5, <2>1
    <3>2. db[<<a, b>>] # Nothing /\ db[<<b, a>>] = Nothing /\ db'[<<a, b>>] = db[<<a, b>>]
      BY <1>5, <2>1, <3>1
    <3>3. Marking(a, b) /\ db[<<a, b>>] # Mark
      BY <1>2, <2>1, <3>2 DEF KeysOK, Unmarking
    <3> QED
      BY <1>4, <3>1, <3>2, <3>3 DEF Marking
  <2>2. kills = 0 => \A a, b \in Docs : db'[<<a, b>>] # Nothing => a \in Stored /\ b \in Stored
    BY <1>2, <1>5 DEF KeysOK
  <2> QED
    BY <1>1, <1>2, <2>1, <2>2 DEF KeysOK, Dropping
<1>11. CurrentOK'
  <2>1. ASSUME kills = 0, NEW u \in Threads, thread'[u].step \in {"save", "mark"}
        PROVE  Found(thread[u].results, thread[u].doc, thread[u].other)'
    BY <1>1, <1>3, <1>4, <2>1 DEF CurrentOK, Found
  <2>2. ASSUME kills = 0, NEW a \in Docs, NEW b \in Docs
        PROVE  (db[<<a, b>>] = Mark \/ Found(db[<<a, b>>], a, b))'
    <3>1. db[<<a, b>>] = Mark \/ Found(db[<<a, b>>], a, b)
      BY <2>2 DEF CurrentOK
    <3>2. db'[<<a, b>>] \in {Mark, db[<<a, b>>]} /\ UNCHANGED <<stored, met>>
      BY <1>1, <1>5
    <3> QED
      BY <3>1, <3>2 DEF Found
  <2> QED
    BY <1>1, <2>1, <2>2 DEF CurrentOK
<1>12. DoneOK'
  <2>1. \A a, b \in Docs : db[<<a, b>>] # Nothing => db'[<<a, b>>] # Nothing
    BY <1>2, <1>5
  <2>2. Stored \cap cmd.targets \subseteq Docs
    BY DEF Stored
  <2>3. Associated(d, (Stored \cap cmd.targets) \ ({d, NoDoc} \cup s.todo))'
    <3>1. Associated(d, (Stored \cap cmd.targets) \ ({d, o} \cup s.todo))
      BY <1>1, <1>3 DEF DoneOK, DoneBy
    <3>2. Associated(d, (Stored \cap cmd.targets) \ ({d, NoDoc} \cup s.todo))
      BY <1>2, <3>1 DEF Associated
    <3> QED
      BY <1>1, <1>2, <2>1, <2>2, <3>2 DEF Associated
  <2>4. \A p \in s.saved : db'[<<d, p>>] # Nothing
    <3>1. \A p \in thread[t].saved : p \in Docs /\ db[<<d, p>>] # Nothing
      BY <1>1, BusyThread DEF DoneOK, DoneBy
    <3> QED
      BY <1>2, <1>3, <2>1, <3>1
  <2>5. DoneBy(t)'
    BY <1>1, <1>2, <1>3, <1>4, <2>3, <2>4 DEF DoneBy
  <2> QED
    BY <1>1, <1>2, <1>3, <1>4, <2>1, <2>5, DoneByOne
<1> QED
  BY <1>6, <1>7, <1>8, <1>9, <1>10, <1>11, <1>12

-----------------------------------------------------------------------------
(* What holds of threads that have nothing to do.                          *)
LEMMA IdleThreads ==
  ASSUME \A t \in Threads : thread[t] = IdleThread,
         cmd.action = "associate" => cmd.docs \subseteq cmd.todo
  PROVE  /\ ThreadsOK /\ PairsMet /\ DoneOK
         /\ \A t \in Threads : thread[t].step = "idle"
         /\ \A d, o : ~Marking(d, o)
<1>1. \A t \in Threads : thread[t].step = "idle" /\ thread[t].other = NoDoc
  BY DEF IdleThread
<1>2. ThreadsOK /\ PairsMet
  BY <1>1, StoreAssumptions DEF ThreadsOK, ThreadOK, PairsMet
<1>3. DoneOK
  BY <1>1 DEF DoneOK, DoneBy, IdleThread
<1> QED
  BY <1>1, <1>2, <1>3 DEF Marking

LEMMA IdleThreadsNext ==
  ASSUME \A t \in Threads : thread'[t] = IdleThread,
         cmd'.action = "associate" => cmd'.docs \subseteq cmd'.todo
  PROVE  /\ ThreadsOK' /\ PairsMet' /\ DoneOK'
         /\ \A t \in Threads : thread'[t].step = "idle"
<1>1. \A t \in Threads : thread'[t].step = "idle" /\ thread'[t].other = NoDoc
  BY DEF IdleThread
<1>2. ThreadsOK' /\ PairsMet'
  BY <1>1, StoreAssumptions DEF ThreadsOK, ThreadOK, PairsMet
<1>3. DoneOK'
  BY <1>1 DEF DoneOK, DoneBy, IdleThread
<1> QED
  BY <1>1, <1>2, <1>3

LEMMA AddDocumentStep ==
  ASSUME Inv, NEW d \in Docs, AddDocument(d)
  PROVE  Inv'
<1> USE DEF Inv
<1>1. /\ cmd = NoCommand /\ d \notin Stored /\ versions' = versions + 1
      /\ stored' = [stored EXCEPT ![d] = versions + 1]
      /\ UNCHANGED <<db, cmd, thread, aborted, kills, met, reader>>
      /\ cmd.action = "none" /\ ~Dropping /\ ~Dropping'
  BY DEF AddDocument, NoCommand, Dropping
<1>2. \A t \in Threads : thread[t] = IdleThread /\ thread'[t] = IdleThread
  BY <1>1 DEF ControlOK
<1>3. ThreadsOK' /\ PairsMet' /\ DoneOK' /\ \A t \in Threads : thread'[t].step = "idle"
  BY <1>1, <1>2, IdleThreadsNext
<1>4. TypeOK' /\ Stored \subseteq Stored' /\ \A a \in Docs : a # d => stored'[a] = stored[a]
  BY <1>1 DEF TypeOK, Stored
<1>5. ControlOK'
  BY <1>1, <1>2 DEF ControlOK
<1>6. MarksOK'
  BY <1>1, <1>3 DEF MarksOK, MarksResolve
<1>7. KeysOK'
  BY <1>1, <1>4 DEF KeysOK, Marking, Unmarking
<1>8. CurrentOK'
  <2>1. ASSUME kills = 0, NEW a \in Docs, NEW b \in Docs
        PROVE  (db[<<a, b>>] = Mark \/ Found(db[<<a, b>>], a, b))'
    <3>1. CASE a = d \/ b = d
      BY <1>1, <2>1, <3>1 DEF KeysOK, Found
    <3>2. CASE a # d /\ b # d
      BY <1>1, <1>4, <2>1, <3>2 DEF CurrentOK, Found
    <3> QED
      BY <3>1, <3>2
  <2> QED
    BY <1>1, <1>3, <2>1 DEF CurrentOK
<1> QED
  BY <1>3, <1>4, <1>5, <1>6, <1>7, <1>8

LEMMA AddAssociationsStep ==
  ASSUME Inv, NEW docs \in SUBSET Stored, NEW targets \in SUBSET Docs, AddAssociations(docs, targets)
  PROVE  Inv'
<1> USE DEF Inv
<1>1. /\ cmd.action = "none" /\ ~Dropping
      /\ cmd' = [NoCommand EXCEPT !.action = "associate", !.docs = docs, !.targets = targets, !.todo = docs]
      /\ UNCHANGED <<stored, versions, db, thread, aborted, kills, met, reader>>
      /\ Stored' = Stored
  BY DEF AddAssociations, NoCommand, Dropping, Stored
<1>2. cmd'.action = "associate" /\ cmd'.docs = docs /\ cmd'.todo = docs /\ ~Dropping'
  BY <1>1 DEF NoCommand, Dropping
<1>3. \A t \in Threads : thread[t] = IdleThread /\ thread'[t] = IdleThread
  BY <1>1 DEF ControlOK
<1>4. ThreadsOK' /\ PairsMet' /\ DoneOK' /\ \A t \in Threads : thread'[t].step = "idle"
  BY <1>2, <1>3, IdleThreadsNext
<1>5. TypeOK'
  <2>1. docs \in SUBSET Docs
    BY DEF Stored
  <2> QED
    BY <1>1, <2>1 DEF TypeOK, NoCommand, Commands
<1>6. ControlOK'
  BY <1>1, <1>2 DEF ControlOK
<1>7. MarksOK'
  BY <1>1, <1>2, <1>4 DEF MarksOK, MarksResolve
<1>8. KeysOK'
  BY <1>1, <1>2 DEF KeysOK, Marking, Unmarking
<1>9. CurrentOK'
  BY <1>1, <1>4 DEF CurrentOK, Found
<1> QED
  BY <1>4, <1>5, <1>6, <1>7, <1>8, <1>9

LEMMA EndAssociationsStep ==
  ASSUME Inv, EndAssociations
  PROVE  Inv'
<1> USE DEF Inv
<1>1. /\ cmd.action = "associate" /\ ~Dropping /\ cmd' = NoCommand
      /\ UNCHANGED <<stored, versions, db, thread, aborted, kills, met, reader>>
      /\ Stored' = Stored /\ \A t \in Threads : thread[t] = IdleThread
  BY DEF EndAssociations, TasksFinished, Dropping, Stored
<1>2. cmd'.action = "none" /\ ~Dropping'
  BY <1>1 DEF NoCommand, Dropping
<1>3. /\ ThreadsOK' /\ PairsMet' /\ DoneOK' /\ \A t \in Threads : thread'[t].step = "idle"
  BY <1>1, <1>2, IdleThreadsNext
<1>4. TypeOK' /\ ControlOK'
  BY <1>1, <1>2 DEF TypeOK, ControlOK, NoCommand, Commands
<1>5. MarksOK'
  BY <1>1, <1>2, <1>3 DEF MarksOK, MarksResolve
<1>6. KeysOK'
  BY <1>1, <1>2 DEF KeysOK, Marking, Unmarking
<1>7. CurrentOK'
  BY <1>1, <1>3 DEF CurrentOK, Found
<1> QED
  BY <1>3, <1>4, <1>5, <1>6, <1>7

LEMMA DropDocumentStep ==
  ASSUME Inv, NEW d \in Docs, DropDocument(d)
  PROVE  Inv'
<1> USE DEF Inv
<1> DEFINE others == {o \in Docs : db[<<d, o>>] # Nothing}
<1>1. /\ ~aborted /\ cmd.action = "none" /\ ~Dropping /\ d \in Stored
      /\ aborted' = \E o \in others \ Stored : db[<<d, o>>] = Mark /\ db[<<o, d>>] = Nothing
      /\ cmd' = [NoCommand EXCEPT !.action = "drop", !.doc = d, !.todo = others]
      /\ UNCHANGED <<stored, versions, db, thread, kills, met>>
      /\ Stored' = Stored
  BY DEF DropDocument, Running, NoCommand, Dropping, Stored
<1>2. /\ cmd'.action = "drop" /\ cmd'.doc = d /\ cmd'.todo = others /\ cmd'.removed
      /\ cmd' \in Commands
  BY <1>1 DEF NoCommand, Commands
<1>3. reader' \in Readers
  <2>1. PICK b \in BOOLEAN : reader' = [reader EXCEPT !.disturbed = b]
    BY DEF DropDocument, TypeOK, Readers
  <2> QED
    BY <2>1 DEF TypeOK, Readers
<1>4. \A t \in Threads : thread[t] = IdleThread /\ thread'[t] = IdleThread
  BY <1>1 DEF ControlOK
<1>5. ThreadsOK' /\ PairsMet' /\ DoneOK' /\ \A t \in Threads : thread'[t].step = "idle"
  BY <1>2, <1>4, IdleThreadsNext
<1>6. TypeOK'
  BY <1>1, <1>2, <1>3 DEF TypeOK
<1>7. ControlOK'
  BY <1>1, <1>2, <1>4 DEF ControlOK
<1>8. MarksOK'
  BY <1>1, <1>2, <1>5 DEF MarksOK, MarksResolve
<1>9. KeysOK'
  <2>1. kills = 0 => ~aborted'
    BY <1>1 DEF KeysOK
  <2>2. kills = 0 => \A a, b \in Docs : db[<<a, b>>] # Nothing => db[<<b, a>>] # Nothing
    BY <1>1, <1>4, IdleThreads DEF KeysOK, Unmarking
  <2> QED
    BY <1>1, <1>2, <2>1, <2>2 DEF KeysOK
<1>10. CurrentOK'
  BY <1>1, <1>5 DEF CurrentOK, Found
<1> QED
  BY <1>5, <1>6, <1>7, <1>8, <1>9, <1>10

LEMMA RemoveKeyStep ==
  ASSUME Inv, RemoveKey
  PROVE  Inv'
<1> USE DEF Inv
<1> DEFINE d == cmd.doc
<1>1. PICK o \in cmd.todo :
        LET there == db[<<d, o>>] # Nothing
        IN  /\ db' = [db EXCEPT ![<<d, o>>] = Nothing]
            /\ cmd' = [cmd EXCEPT !.todo = @ \ {o},
                                  !.other = IF there THEN o ELSE @,
                                  !.action = IF there THEN "unmark" ELSE @,
                                  !.removed = @ /\ there]
  BY DEF RemoveKey
<1> DEFINE there == db[<<d, o>>] # Nothing
<1>2. /\ cmd.action = "drop" /\ UNCHANGED <<stored, versions, thread, aborted, kills, met, reader>>
      /\ Dropping /\ Stored' = Stored /\ d \in Stored /\ d \in Docs /\ o \in Docs /\ ~aborted
  BY DEF RemoveKey, Running, Dropping, Stored, ControlOK, TypeOK, Commands
<1>3. /\ cmd' \in Commands
      /\ cmd'.doc = d /\ cmd'.todo = cmd.todo \ {o}
      /\ there => cmd'.action = "unmark" /\ cmd'.other = o /\ cmd'.removed = cmd.removed
      /\ ~there => cmd'.action = "drop"
  BY <1>1, <1>2 DEF TypeOK, Commands
<1>4. /\ db' \in [Docs \X Docs -> Results \cup {Mark}] /\ db'[<<d, o>>] = Nothing
      /\ \A a, b \in Docs : <<a, b>> # <<d, o>> => db'[<<a, b>>] = db[<<a, b>>]
  BY <1>1, <1>2 DEF TypeOK, Results
<1>5. \A t \in Threads : thread[t] = IdleThread /\ thread'[t] = IdleThread
  BY <1>2 DEF ControlOK
<1>6. ThreadsOK' /\ PairsMet' /\ DoneOK' /\ \A t \in Threads : thread'[t].step = "idle"
  BY <1>3, <1>5, IdleThreadsNext
<1>7. TypeOK'
  BY <1>2, <1>3, <1>4 DEF TypeOK
<1>8. ControlOK' /\ Dropping'
  BY <1>2, <1>3, <1>5 DEF ControlOK, Dropping
<1>9. \A a, b \in Docs : db'[<<a, b>>] = db[<<a, b>>] \/ db'[<<a, b>>] = Nothing
  BY <1>4
<1>10. MarksOK'
  <2>1. MarksResolve'
    BY <1>2, <1>9, StoreAssumptions DEF MarksOK, MarksResolve
  <2>2. \A b \in Docs : db'[<<d, b>>] # Nothing => b \in cmd'.todo
    BY <1>2, <1>3, <1>4 DEF MarksOK
  <2> QED
    BY <1>2, <1>3, <1>6, <1>9, <2>1, <2>2 DEF MarksOK
<1>11. KeysOK'
  <2> SUFFICES ASSUME kills = 0
               PROVE  KeysOK'
    BY <1>2 DEF KeysOK
  <2>1. there /\ cmd.removed /\ d # o
    BY <1>1, <1>2 DEF KeysOK, MarksOK
  <2>2. \A a, b \in Docs : db[<<a, b>>] # Nothing => db[<<b, a>>] # Nothing
    BY <1>2, <1>5, IdleThreads DEF KeysOK, Unmarking
  <2>3. ASSUME NEW a \in Docs, NEW b \in Docs, db'[<<a, b>>] # Nothing, db'[<<b, a>>] = Nothing
        PROVE  Unmarking(a, b)'
    BY <1>3, <1>4, <2>1, <2>2, <2>3 DEF Unmarking
  <2>4. \A b \in cmd'.todo : db'[<<d, b>>] # Nothing
    BY <1>2, <1>3, <1>4 DEF KeysOK, TypeOK, Commands
  <2>5. db'[<<o, d>>] # Nothing
    BY <1>2, <1>4, <2>1, <2>2
  <2>6. \A a, b \in Docs : db'[<<a, b>>] # Nothing => a \in Stored /\ b \in Stored
    BY <1>9 DEF KeysOK
  <2> QED
    BY <1>2, <1>3, <2>1, <2>3, <2>4, <2>5, <2>6 DEF KeysOK
<1>12. CurrentOK'
  BY <1>2, <1>6, <1>9 DEF CurrentOK, Found
<1> QED
  BY <1>6, <1>7, <1>8, <1>10, <1>11, <1>12

LEMMA RemoveReverseStep ==
  ASSUME Inv, RemoveReverse
  PROVE  Inv'
<1> USE DEF Inv
<1> DEFINE d == cmd.doc
           o == cmd.other
<1>1. /\ cmd.action = "unmark" /\ UNCHANGED <<stored, versions, thread, aborted, kills, met, reader>>
      /\ db' = [db EXCEPT ![<<o, d>>] = Nothing]
      /\ cmd' = [cmd EXCEPT !.action = "drop", !.other = NoDoc, !.removed = @ /\ db[<<o, d>>] # Nothing]
      /\ Dropping /\ Stored' = Stored /\ d \in Stored /\ d \in Docs /\ ~aborted
  BY DEF RemoveReverse, Running, Dropping, Stored, ControlOK, TypeOK, Commands
<1>2. /\ cmd' \in Commands
      /\ cmd'.action = "drop" /\ cmd'.doc = d /\ cmd'.todo = cmd.todo
      /\ db[<<o, d>>] # Nothing => cmd'.removed = cmd.removed
  BY <1>1 DEF TypeOK, Commands
<1>3. /\ db' \in [Docs \X Docs -> Results \cup {Mark}]
      /\ \A a, b \in Docs : <<a, b>> # <<o, d>> => db'[<<a, b>>] = db[<<a, b>>]
      /\ \A a, b \in Docs : db'[<<a, b>>] = db[<<a, b>>] \/ db'[<<a, b>>] = Nothing
      /\ o \in Docs => db'[<<o, d>>] = Nothing
  BY <1>1 DEF TypeOK, Results
<1>4. \A t \in Threads : thread[t] = IdleThread /\ thread'[t] = IdleThread
  BY <1>1 DEF ControlOK
<1>5. ThreadsOK' /\ PairsMet' /\ DoneOK' /\ \A t \in Threads : thread'[t].step = "idle"
  BY <1>2, <1>4, IdleThreadsNext
<1>6. TypeOK'
  BY <1>1, <1>2, <1>3 DEF TypeOK
<1>7. ControlOK' /\ Dropping'
  BY <1>1, <1>2, <1>4 DEF ControlOK, Dropping
<1>8. MarksOK'
  <2>1. MarksResolve'
    BY <1>1, <1>3, StoreAssumptions DEF MarksOK, MarksResolve
  <2> QED
    BY <1>1, <1>2, <1>3, <1>5, <2>1 DEF MarksOK
<1>9. KeysOK'
  <2> SUFFICES ASSUME kills = 0
               PROVE  KeysOK'
    BY <1>1 DEF KeysOK
  <2>1. o \in Docs /\ db[<<o, d>>] # Nothing /\ cmd.removed /\ o # d
    BY <1>1 DEF KeysOK, MarksOK
  <2>2. ASSUME NEW a \in Docs, NEW b \in Docs, db'[<<a, b>>] # Nothing, db'[<<b, a>>] = Nothing
        PROVE  FALSE
    <3>1. db[<<a, b>>] # Nothing /\ ~(a = o /\ b = d)
      BY <1>3, <2>1, <2>2
    <3>2. CASE a = d /\ b = o
      BY <1>1, <3>1, <3>2 DEF MarksOK, KeysOK
    <3>3. CASE ~(a = d /\ b = o)
      BY <1>1, <1>3, <1>4, <2>2, <3>1, <3>3, IdleThreads DEF KeysOK, Unmarking
    <3> QED
      BY <3>2, <3>3
  <2>3. \A b \in cmd'.todo : db'[<<d, b>>] # Nothing
    BY <1>1, <1>2, <1>3, <2>1 DEF KeysOK, TypeOK, Commands
  <2>4. \A a, b \in Docs : db'[<<a, b>>] # Nothing => a \in Stored /\ b \in Stored
    BY <1>3 DEF KeysOK
  <2> QED
    BY <1>1, <1>2, <2>1, <2>2, <2>3, <2>4 DEF KeysOK
<1>10. CurrentOK'
  BY <1>1, <1>3, <1>5 DEF CurrentOK, Found
<1> QED
  BY <1>5, <1>6, <1>7, <1>8, <1>9, <1>10

LEMMA EraseDocumentStep ==
  ASSUME Inv, EraseDocument
  PROVE  Inv'
<1> USE DEF Inv
<1> DEFINE d == cmd.doc
<1>1. /\ cmd.action = "drop" /\ cmd.todo = {} /\ Dropping /\ d \in Docs
      /\ UNCHANGED <<versions, db, thread, kills, reader>>
      /\ \A t \in Threads : thread[t] = IdleThread /\ thread'[t] = IdleThread
  BY DEF EraseDocument, Dropping, ControlOK, Stored
<1>2. CASE ~cmd.removed
  <2>1. /\ aborted' = TRUE /\ UNCHANGED <<stored, met, cmd>> /\ kills # 0
        /\ Stored' = Stored /\ Dropping'
    BY <1>1, <1>2 DEF EraseDocument, KeysOK, Stored, Dropping
  <2>2. ThreadsOK' /\ PairsMet' /\ DoneOK' /\ \A t \in Threads : thread'[t].step = "idle"
    BY <1>1, <2>1, IdleThreadsNext
  <2>3. TypeOK' /\ ControlOK'
    BY <1>1, <2>1 DEF TypeOK, ControlOK
  <2>4. MarksOK' /\ KeysOK' /\ CurrentOK'
    BY <1>1, <2>1, <2>2 DEF MarksOK, MarksResolve, KeysOK, CurrentOK, Found
  <2> QED
    BY <2>2, <2>3, <2>4
<1>3. CASE cmd.removed
  <2>1. /\ stored' = [stored EXCEPT ![d] = 0] /\ met' = {p \in met : d \notin p}
        /\ cmd' = NoCommand /\ aborted' = aborted /\ cmd'.action = "none" /\ ~Dropping'
    BY <1>3 DEF EraseDocument, NoCommand, Dropping
  <2>2. ThreadsOK' /\ PairsMet' /\ DoneOK' /\ \A t \in Threads : thread'[t].step = "idle"
    BY <1>1, <2>1, IdleThreadsNext
  <2>3. TypeOK' /\ \A a \in Docs : a # d => stored'[a] = stored[a] /\ (a \in Stored' <=> a \in Stored)
    BY <1>1, <2>1 DEF TypeOK, Stored, NoCommand, Commands
  <2>4. ControlOK'
    BY <1>1, <2>1 DEF ControlOK
  <2>5. \A o \in Docs : db[<<d, o>>] = Nothing
    BY <1>1 DEF MarksOK
  <2>6. MarksOK'
    <3>1. ASSUME NEW a \in Docs, NEW b \in Docs, {a, b} \notin met'
          PROVE  ~(db[<<a, b>>] = Mark /\ db[<<b, a>>] = Mark)
      <4>1. CASE a = d \/ b = d
        BY <2>5, <4>1, StoreAssumptions
      <4>2. CASE a # d /\ b # d
        BY <2>1, <3>1, <4>2 DEF MarksOK, MarksResolve
      <4> QED
        BY <4>1, <4>2
    <3> QED
      BY <1>1, <2>1, <2>2, <3>1 DEF MarksOK, MarksResolve
  <2>7. kills = 0 => \A o \in Docs : db[<<o, d>>] = Nothing
    BY <1>1, <2>5, IdleThreads DEF KeysOK, Unmarking
  <2>8. KeysOK'
    <3>1. kills = 0 => \A a, b \in Docs : db[<<a, b>>] # Nothing => a \in Stored' /\ b \in Stored'
      BY <2>3, <2>5, <2>7 DEF KeysOK
    <3>2. kills = 0 => \A a, b \in Docs : db[<<a, b>>] # Nothing => db[<<b, a>>] # Nothing
      BY <1>1, IdleThreads DEF KeysOK, Unmarking
    <3>3. kills = 0 => ~aborted'
      BY <1>1, <2>1 DEF EraseDocument, Running
    <3> QED
      BY <1>1, <2>1, <3>1, <3>2, <3>3 DEF KeysOK
  <2>9. CurrentOK'
    <3>1. ASSUME kills = 0, NEW a \in Docs, NEW b \in Docs
          PROVE  (db[<<a, b>>] = Mark \/ Found(db[<<a, b>>], a, b))'
      <4>1. CASE a = d \/ b = d
        BY <1>1, <2>5, <2>7, <3>1, <4>1 DEF Found
      <4>2. CASE a # d /\ b # d
        <5>1. {a, b} \in met => {a, b} \in met'
          BY <2>1, <4>2
        <5> QED
          BY <1>1, <2>3, <3>1, <4>2, <5>1 DEF CurrentOK, Found
      <4> QED
        BY <4>1, <4>2
    <3> QED
      BY <1>1, <2>2, <3>1 DEF CurrentOK
  <2> QED
    BY <2>2, <2>3, <2>4, <2>6, <2>8, <2>9
<1> QED
  BY <1>2, <1>3

(* A kill leaves the keys as they are; nothing is promised of them but     *)
(* that "x" is not under both.                                             *)
LEMMA KillStep ==
  ASSUME Inv, Kill
  PROVE  Inv'
<1> USE DEF Inv
<1>1. /\ kills' = kills + 1 /\ kills' # 0 /\ cmd' = NoCommand /\ reader' = NoReader
      /\ thread' = [t \in Threads |-> IdleThread]
      /\ UNCHANGED <<stored, versions, db, aborted, met>>
      /\ cmd'.action = "none" /\ ~Dropping'
  BY DEF Kill, NoCommand, Dropping, TypeOK
<1>2. ThreadsOK' /\ PairsMet' /\ DoneOK' /\ \A t \in Threads : thread'[t].step = "idle"
  BY <1>1, IdleThreadsNext
<1>3. TypeOK'
  <2>1. IdleThread \in ThreadStates /\ NoReader \in Readers
    BY DEF IdleThread, ThreadStates, Results, NoReader, Readers
  <2> QED
    BY <1>1, <2>1 DEF TypeOK, NoCommand, Commands
<1>4. ControlOK' /\ MarksOK' /\ KeysOK' /\ CurrentOK'
  BY <1>1, <1>2 DEF ControlOK, MarksOK, MarksResolve, KeysOK, CurrentOK
<1> QED
  BY <1>2, <1>3, <1>4

(* A request reads only, and fails by itself.                              *)
LEMMA ReaderStep ==
  ASSUME Inv, reader' \in Readers, aborted' \in BOOLEAN, aborted' => reader'.step = "failed",
         UNCHANGED <<stored, versions, db, cmd, thread, kills, met>>
  PROVE  Inv'
<1> USE DEF Inv
<1>1. Stored' = Stored /\ (Dropping' <=> Dropping)
  BY DEF Stored, Dropping
<1>2. TypeOK' /\ ControlOK' /\ ThreadsOK' /\ PairsMet'
  BY <1>1 DEF TypeOK, ControlOK, ThreadsOK, ThreadOK, PairsMet
<1>3. MarksOK' /\ CurrentOK' /\ DoneOK'
  BY <1>1 DEF MarksOK, MarksResolve, CurrentOK, Found, DoneOK, DoneBy, Associated, Full, Associates
<1>4. KeysOK'
  BY <1>1 DEF KeysOK, Marking, Unmarking
<1> QED
  BY <1>2, <1>3, <1>4

LEMMA ReadingSteps ==
  ASSUME Inv, (\E d \in Readable : StartReading(d)) \/ ReadKey \/ ReadReverse \/ EndReading
  PROVE  Inv'
<1> USE DEF Inv
<1>1. UNCHANGED <<stored, versions, db, cmd, thread, kills, met>> /\ ~aborted /\ aborted \in BOOLEAN
  BY DEF StartReading, ReadKey, ReadReverse, EndReading, Running, TypeOK
<1>2. reader \in Readers
  BY DEF TypeOK
<1>3. ASSUME NEW o \in Docs \cup {NoDoc}, NEW v, NEW todo \in SUBSET Docs, NEW turned \in BOOLEAN,
             Answer(o, v, todo, turned)
      PROVE  reader' \in Readers /\ aborted' \in BOOLEAN /\ (aborted' => reader'.step = "failed")
  <2>1. PICK a \in {"failed", "garbled", "key", "wrong"}, b \in Docs \cup {NoDoc}, c \in BOOLEAN :
          /\ reader' = [reader EXCEPT !.step = a, !.other = b, !.todo = todo, !.disturbed = c]
          /\ aborted' = (a = "failed")
    BY <1>2, <1>3 DEF Answer, Readers
  <2>2. reader' \in Readers /\ reader'.step = a
    BY <1>2, <2>1 DEF Readers
  <2> QED
    BY <2>1, <2>2
<1>4. CASE \E d \in Readable : StartReading(d)
  <2>1. PICK d \in Readable : StartReading(d)
    BY <1>4
  <2>2. d \in Docs /\ stored[d] \in Nat
    BY StoreAssumptions DEF TypeOK
  <2>3. reader' \in Readers /\ aborted' = aborted
    BY <2>1, <2>2 DEF StartReading, Readers
  <2> QED
    BY <1>1, <2>3, ReaderStep
<1>5. CASE ReadKey
  <2>1. PICK o \in reader.todo :
          \/ reader' = [reader EXCEPT !.step = "reverse", !.other = o, !.todo = @ \ {o}] /\ aborted' = aborted
          \/ Answer(o, db[<<reader.doc, o>>], reader.todo \ {o}, FALSE)
    BY <1>5 DEF ReadKey
  <2>2. o \in Docs /\ reader.todo \ {o} \in SUBSET Docs
    BY <1>2 DEF Readers
  <2>3. reader' \in Readers /\ aborted' \in BOOLEAN /\ (aborted' => reader'.step = "failed")
    <3>1. CASE reader' = [reader EXCEPT !.step = "reverse", !.other = o, !.todo = @ \ {o}] /\ aborted' = aborted
      BY <1>1, <1>2, <2>2, <3>1 DEF Readers
    <3>2. CASE Answer(o, db[<<reader.doc, o>>], reader.todo \ {o}, FALSE)
      BY <1>3, <2>2, <3>2
    <3> QED
      BY <2>1, <3>1, <3>2
  <2> QED
    BY <1>1, <2>3, ReaderStep
<1>6. CASE ReadReverse
  <2> DEFINE v == db[<<reader.other, reader.doc>>]
             read == IF v = Mark THEN Garbage ELSE IF v = Nothing THEN v ELSE Flip(v)
             turned == db[<<reader.doc, reader.other>>] # Mark
  <2>1. Answer(reader.other, read, reader.todo, turned)
    BY <1>6 DEF ReadReverse
  <2>2. reader.todo \in SUBSET Docs /\ turned \in BOOLEAN /\ reader.other \in Docs \cup {NoDoc}
    BY <1>2 DEF Readers
  <2> HIDE DEF read, turned
  <2>3. reader' \in Readers /\ aborted' \in BOOLEAN /\ (aborted' => reader'.step = "failed")
    BY <1>3, <2>1, <2>2
  <2> QED
    BY <1>1, <2>3, ReaderStep
<1>7. CASE EndReading
  <2>1. reader' \in Readers /\ aborted' = aborted
    BY <1>7 DEF EndReading, NoReader, Readers
  <2> QED
    BY <1>1, <2>1, ReaderStep
<1> QED
  BY <1>4, <1>5, <1>6, <1>7

LEMMA InvInductive == ASSUME Inv, [Next]_vars PROVE Inv'
<1>1. CASE UNCHANGED vars
  <2>1. UNCHANGED <<stored, versions, db, cmd, thread, aborted, kills, met, reader>> /\ Stored' = Stored
    BY <1>1 DEF vars, Stored
  <2>2. TypeOK' /\ ControlOK' /\ ThreadsOK' /\ PairsMet'
    BY <2>1 DEF Inv, TypeOK, ControlOK, Dropping, ThreadsOK, ThreadOK, PairsMet
  <2>3. MarksOK' /\ CurrentOK' /\ DoneOK'
    BY <2>1 DEF Inv, Dropping, MarksOK, MarksResolve, CurrentOK, Found, DoneOK, DoneBy, Associated, Full, Associates
  <2>4. KeysOK'
    BY <2>1 DEF Inv, Dropping, KeysOK, Marking, Unmarking
  <2> QED
    BY <2>2, <2>3, <2>4 DEF Inv
<1>2. ASSUME NEW d \in Docs, AddDocument(d) \/ DropDocument(d)
      PROVE  Inv'
  BY <1>2, AddDocumentStep, DropDocumentStep
<1>3. ASSUME NEW docs \in {{d} : d \in Stored} \cup {Stored \cap r : r \in Ranges}, NEW targets \in Ranges,
             AddAssociations(docs, targets)
      PROVE  Inv'
  <2>1. docs \in SUBSET Stored /\ targets \in SUBSET Docs
    BY StoreAssumptions
  <2> QED
    BY <1>3, <2>1, AddAssociationsStep
<1>4. ASSUME NEW t \in Threads, Search(t)
      PROVE  Inv'
  <2>1. CASE TakeTask(t) \/ EndTask(t)
    BY <2>1, TakeTaskStep, EndTaskStep
  <2>2. CASE LoadKey(t) \/ LoadReverse(t)
    BY <2>2, LoadKeyStep, LoadReverseStep
  <2>3. CASE SaveKey(t) \/ SaveReverse(t)
    BY <2>3, SaveNothingStep, SaveKeyStep, SaveReverseStep
  <2> QED
    BY <1>4, <2>1, <2>2, <2>3 DEF Search
<1>5. CASE EndAssociations \/ RemoveKey \/ RemoveReverse \/ EraseDocument \/ Kill
  BY <1>5, EndAssociationsStep, RemoveKeyStep, RemoveReverseStep, EraseDocumentStep, KillStep
<1>6. CASE (\E d \in Readable : StartReading(d)) \/ ReadKey \/ ReadReverse \/ EndReading
  BY <1>6, ReadingSteps
<1> QED
  BY <1>1, <1>2, <1>3, <1>4, <1>5, <1>6 DEF Next

LEMMA AlwaysInv == Spec => []Inv
<1>1. Init => Inv
  BY InvInitial
<1>2. Inv /\ [Next]_vars => Inv'
  BY InvInductive
<1> QED
  BY <1>1, <1>2, PTL DEF Spec

-----------------------------------------------------------------------------
(* No drop fails for want of a key of an association, nor does the         *)
(* matching it may have to do for want of a document, unless the server    *)
(* was killed between two keys (command.cc:141).                           *)
THEOREM DropsSucceed == Spec => []AssertionsHold
<1>1. Inv => AssertionsHold
  BY DEF Inv, KeysOK, AssertionsHold
<1> QED
  BY <1>1, AlwaysInv, PTL

(* Between commands an association has both its keys or none, and joins    *)
(* stored documents.                                                       *)
THEOREM KeysStayTogether == Spec => []KeysInPairs
<1>1. Inv => KeysInPairs
  <2> SUFFICES ASSUME Inv, cmd = NoCommand, kills = 0
               PROVE  \A d, o \in Docs :
                        /\ db[<<d, o>>] # Nothing => db[<<o, d>>] # Nothing
                        /\ db[<<d, o>>] # Nothing => {d, o} \subseteq Stored
    BY DEF KeysInPairs
  <2>1. cmd.action = "none" /\ \A t \in Threads : thread[t] = IdleThread
    BY DEF NoCommand, Inv, ControlOK
  <2> QED
    BY <2>1, IdleThreads DEF Inv, KeysOK, Unmarking
<1> QED
  BY <1>1, AlwaysInv, PTL

(* "x" is never found under both keys, wherever the server is killed,      *)
(* unless two threads were at both ends of the pair.                       *)
THEOREM MarksAlwaysResolve == Spec => []MarksResolve
<1>1. Inv => MarksResolve
  BY DEF Inv, MarksOK
<1> QED
  BY <1>1, AlwaysInv, PTL

(* Between commands an association reads the same from both ends, from the *)
(* texts that are stored now, unless two threads were at both ends.        *)
THEOREM AssociationsCurrent == Spec => []CurrentUnlessMet
<1>1. Inv => CurrentUnlessMet
  <2> SUFFICES ASSUME Inv, cmd = NoCommand, kills = 0, NEW d \in Docs, NEW o \in Docs, {d, o} \notin met,
                      db[<<d, o>>] # Nothing
               PROVE  Read(d, o) = <<stored[d], stored[o]>>
    <3>1. ASSUME cmd = NoCommand, kills = 0, Inv, NEW d \in Docs, NEW o \in Docs, {d, o} \notin met
          PROVE  IsCurrent(d, o)
      <4>1. {o, d} \notin met
        BY <3>1
      <4> QED
        BY <3>1, <4>1 DEF IsCurrent
    <3> QED
      BY <3>1 DEF CurrentUnlessMet
  <2>1. cmd.action = "none" /\ \A t \in Threads : thread[t] = IdleThread
    BY DEF NoCommand, Inv, ControlOK
  <2>2. CASE db[<<d, o>>] # Mark
    BY <2>2 DEF Inv, CurrentOK, Found, Read
  <2>3. CASE db[<<d, o>>] = Mark
    <3>1. db[<<o, d>>] # Nothing
      BY <2>1, IdleThreads DEF Inv, KeysOK, Unmarking
    <3>2. db[<<o, d>>] = <<stored[o], stored[d]>>
      <4>1. db[<<o, d>>] # Mark /\ {o, d} \notin met
        BY <2>3 DEF Inv, MarksOK, MarksResolve
      <4> QED
        BY <3>1, <4>1 DEF Inv, CurrentOK, Found
    <3>3. db[<<o, d>>] # Mark /\ db[<<o, d>>] # Garbage
      BY <3>2, StoreAssumptions DEF Inv, TypeOK
    <3>4. Flip(db[<<o, d>>]) = <<stored[d], stored[o]>>
      BY <3>2, <3>3 DEF Flip
    <3> QED
      BY <2>3, <3>1, <3>3, <3>4 DEF Read
  <2> QED
    BY <2>2, <2>3
<1> QED
  BY <1>1, AlwaysInv, PTL

(* A command that associates documents ends with an association for every  *)
(* one of them and every document of its target range that match, or the   *)
(* document has as many as a search makes, in whatever order its threads   *)
(* worked (command.cc:126-136, search.cc:54-67).                           *)
THEOREM AllAssociated == Spec => AssociatedWhenDone
<1>1. ASSUME Inv, [Next]_vars
      PROVE  [EndAssociations => \A d \in cmd.docs, o \in Stored \cap cmd.targets :
                {d, o} \in Matches /\ d # o =>
                  db[<<d, o>>] # Nothing \/ Cardinality(Associates(d)) >= NumResults]_vars
  <2>1. ASSUME EndAssociations, NEW d \in cmd.docs, NEW o \in Stored \cap cmd.targets,
               {d, o} \in Matches, d # o
        PROVE  db[<<d, o>>] # Nothing \/ Cardinality(Associates(d)) >= NumResults
    <3>1. cmd.action = "associate" /\ cmd.todo = {} /\ \A t \in Threads : thread[t] = IdleThread
      BY <2>1 DEF EndAssociations, TasksFinished
    <3>2. d # NoDoc
      BY <1>1, StoreAssumptions DEF Inv, TypeOK, Commands
    <3>3. \A t \in Threads : thread[t].doc # d
      BY <3>1, <3>2 DEF IdleThread
    <3>4. Associated(d, (Stored \cap cmd.targets) \ {d}) \/ Full(d)
      BY <1>1, <3>1, <3>3 DEF Inv, DoneOK
    <3> QED
      BY <2>1, <3>4 DEF Associated, Full
  <2> QED
    BY <2>1
<1> QED
  BY <1>1, AlwaysInv, PTL DEF Spec, AssociatedWhenDone

-----------------------------------------------------------------------------
(* As long as nothing has disturbed it, a reader's document and those it   *)
(* has still to read are there, and so are their keys.                     *)
ReaderOK ==
  kills = 0 /\ reader.step # "none" /\ ~reader.disturbed =>
    /\ \/ reader.step \in {"key", "reverse"}
       \/ reader.step = "garbled" /\ {reader.doc, reader.other} \in met
    /\ reader.doc \in Stored /\ stored[reader.doc] = reader.version
    /\ \A o \in reader.todo : o \in Stored \ {reader.doc} /\ db[<<reader.doc, o>>] # Nothing
    /\ reader.step = "reverse" => reader.other \in Stored \ {reader.doc}
    /\ Dropping => cmd.doc \notin {reader.doc, reader.other} \cup reader.todo

(* Nothing is taken from a reader but what a drop takes, and no drop       *)
(* begins.                                                                 *)
LEMMA ReaderKept ==
  ASSUME Inv, ReaderOK, UNCHANGED <<kills, reader>>,
         \A p \in met : (Dropping => cmd.doc \notin p) => p \in met',
         \A d \in Stored : (Dropping => d # cmd.doc) => d \in Stored' /\ stored'[d] = stored[d],
         \A d, o \in Docs : db[<<d, o>>] # Nothing /\ (Dropping => cmd.doc \notin {d, o})
                              => db'[<<d, o>>] # Nothing,
         Dropping' => Dropping /\ cmd'.doc = cmd.doc
  PROVE  ReaderOK'
<1> SUFFICES ASSUME kills = 0, reader.step # "none", ~reader.disturbed
             PROVE  /\ \/ reader.step \in {"key", "reverse"}
                       \/ reader.step = "garbled" /\ {reader.doc, reader.other} \in met'
                    /\ reader.doc \in Stored' /\ stored'[reader.doc] = reader.version
                    /\ \A o \in reader.todo : o \in Stored' \ {reader.doc} /\ db'[<<reader.doc, o>>] # Nothing
                    /\ reader.step = "reverse" => reader.other \in Stored' \ {reader.doc}
                    /\ Dropping' => cmd'.doc \notin {reader.doc, reader.other} \cup reader.todo
  BY DEF ReaderOK
<1>1. /\ \/ reader.step \in {"key", "reverse"}
         \/ reader.step = "garbled" /\ {reader.doc, reader.other} \in met
      /\ reader.doc \in Stored /\ stored[reader.doc] = reader.version
      /\ \A o \in reader.todo : o \in Stored \ {reader.doc} /\ db[<<reader.doc, o>>] # Nothing
      /\ reader.step = "reverse" => reader.other \in Stored \ {reader.doc}
      /\ Dropping => cmd.doc \notin {reader.doc, reader.other} \cup reader.todo
  BY DEF ReaderOK
<1>2. Stored \subseteq Docs
  BY DEF Stored
<1>3. reader.doc \in Stored' /\ stored'[reader.doc] = reader.version
  BY <1>1
<1>4. ASSUME NEW o \in reader.todo
      PROVE  o \in Stored' \ {reader.doc} /\ db'[<<reader.doc, o>>] # Nothing
  <2>1. o \in Stored /\ o # reader.doc /\ db[<<reader.doc, o>>] # Nothing
        /\ (Dropping => cmd.doc \notin {reader.doc, o})
    BY <1>1
  <2> QED
    BY <1>1, <1>2, <2>1
<1>5. reader.step = "reverse" => reader.other \in Stored' \ {reader.doc}
  BY <1>1
<1>6. reader.step = "garbled" => {reader.doc, reader.other} \in met'
  BY <1>1
<1> QED
  BY <1>1, <1>3, <1>4, <1>5, <1>6

LEMMA ReaderKeptBySearch ==
  ASSUME Inv, ReaderOK, NEW t \in Threads, Search(t)
  PROVE  ReaderOK'
<1>1. UNCHANGED <<stored, kills, reader>> /\ Stored' = Stored /\ met \subseteq met'
  BY DEF Search, TakeTask, LoadKey, LoadReverse, SaveKey, SaveReverse, EndTask, Stored
<1>2. Dropping' => Dropping /\ cmd'.doc = cmd.doc
  <2>1. CASE TakeTask(t)
    BY <2>1 DEF TakeTask, Dropping, Inv, TypeOK, Commands
  <2>2. CASE cmd' = cmd
    BY <2>2 DEF Dropping
  <2> QED
    BY <2>1, <2>2 DEF Search, LoadKey, LoadReverse, SaveKey, SaveReverse, EndTask
<1>3. ASSUME NEW d \in Docs, NEW o \in Docs, db[<<d, o>>] # Nothing
      PROVE  db'[<<d, o>>] # Nothing
  <2>1. CASE db' = db
    BY <1>3, <2>1
  <2>2. ASSUME NEW a \in Docs, NEW b \in Docs, NEW value, value # Nothing,
               db' = [db EXCEPT ![<<a, b>>] = value]
        PROVE  db'[<<d, o>>] # Nothing
    <3>1. db'[<<d, o>>] \in {value, db[<<d, o>>]}
      BY <2>2 DEF Inv, TypeOK
    <3> QED
      BY <1>3, <2>2, <3>1
  <2>3. CASE SaveKey(t) /\ thread[t].results # Nothing
    <3>1. db' = [db EXCEPT ![<<thread[t].doc, thread[t].other>>] = thread[t].results]
      BY <2>3 DEF SaveKey, SaveRecord, SavedRecords
    <3>2. thread[t].doc \in Docs /\ thread[t].other \in Docs
      BY <2>3, BusyThread DEF SaveKey
    <3> QED
      BY <2>2, <2>3, <3>1, <3>2
  <2>4. CASE SaveReverse(t)
    <3>1. db' = [db EXCEPT ![<<thread[t].other, thread[t].doc>>] = Mark]
      BY <2>4 DEF SaveReverse, SaveRecord, SavedRecords
    <3>2. thread[t].doc \in Docs /\ thread[t].other \in Docs
      BY <2>4, BusyThread DEF SaveReverse
    <3>3. Mark # Nothing
      BY StoreAssumptions
    <3> QED
      BY <2>2, <3>1, <3>2, <3>3
  <2> QED
    BY <2>1, <2>3, <2>4 DEF Search, TakeTask, LoadKey, LoadReverse, SaveKey, EndTask
<1> QED
  BY <1>1, <1>2, <1>3, ReaderKept

LEMMA ReaderKeptByCommands ==
  ASSUME Inv, ReaderOK,
         \/ \E d \in Docs : AddDocument(d)
         \/ \E docs, targets : AddAssociations(docs, targets)
         \/ EndAssociations \/ RemoveKey \/ RemoveReverse \/ EraseDocument
  PROVE  ReaderOK'
<1>1. UNCHANGED <<kills, reader>>
  BY DEF AddDocument, AddAssociations, EndAssociations, RemoveKey, RemoveReverse, EraseDocument
<1>2. cmd.doc \in Docs \cup {NoDoc} /\ db \in [Docs \X Docs -> Results \cup {Mark}] /\ stored \in [Docs -> Nat]
  BY DEF Inv, TypeOK, Commands
<1>3. CASE \E d \in Docs : AddDocument(d)
  <2>1. /\ \A e \in Stored : stored'[e] = stored[e]
        /\ UNCHANGED <<db, cmd, met>>
    BY <1>2, <1>3 DEF AddDocument, Stored
  <2>2. \A e \in Stored : e \in Stored'
    BY <2>1 DEF Stored
  <2> QED
    BY <1>1, <2>1, <2>2, ReaderKept DEF Dropping
<1>4. CASE (\E docs, targets : AddAssociations(docs, targets)) \/ EndAssociations
  <2>1. UNCHANGED <<stored, db, met>> /\ Stored' = Stored
    BY <1>4 DEF AddAssociations, EndAssociations, Stored
  <2>2. cmd'.action \in {"associate", "none"}
    <3>1. ASSUME NEW docs, NEW targets, AddAssociations(docs, targets)
          PROVE  cmd'.action = "associate"
      BY <3>1 DEF AddAssociations, NoCommand
    <3>2. EndAssociations => cmd'.action = "none"
      BY DEF EndAssociations, NoCommand
    <3> QED
      BY <1>4, <3>1, <3>2
  <2>3. ~Dropping'
    BY <2>2 DEF Dropping
  <2> QED
    BY <1>1, <2>1, <2>3, ReaderKept
<1>5. CASE RemoveKey \/ RemoveReverse
  <2>1. UNCHANGED <<stored, met>> /\ Stored' = Stored /\ Dropping
    BY <1>5 DEF RemoveKey, RemoveReverse, Stored, Dropping
  <2>2. cmd'.doc = cmd.doc
    <3>1. CASE RemoveKey
      <4>1. PICK o \in cmd.todo :
              LET there == db[<<cmd.doc, o>>] # Nothing
              IN  cmd' = [cmd EXCEPT !.todo = @ \ {o}, !.other = IF there THEN o ELSE @,
                                     !.action = IF there THEN "unmark" ELSE @, !.removed = @ /\ there]
        BY <3>1 DEF RemoveKey
      <4> QED
        BY <4>1 DEF Inv, TypeOK, Commands
    <3>2. CASE RemoveReverse
      BY <3>2 DEF RemoveReverse, Inv, TypeOK, Commands
    <3> QED
      BY <1>5, <3>1, <3>2
  <2>3. \A d, o \in Docs : cmd.doc \notin {d, o} => db'[<<d, o>>] = db[<<d, o>>]
    BY <1>2, <1>5 DEF RemoveKey, RemoveReverse
  <2> QED
    BY <1>1, <2>1, <2>2, <2>3, ReaderKept
<1>6. CASE EraseDocument
  <2>1. UNCHANGED db /\ Dropping /\ (Dropping' => cmd' = cmd)
    BY <1>6 DEF EraseDocument, Dropping, NoCommand
  <2>2. \A e \in Stored : e # cmd.doc => stored'[e] = stored[e]
    BY <1>2, <1>6 DEF EraseDocument, Stored
  <2>3. \A e \in Stored : e # cmd.doc => e \in Stored'
    BY <2>2 DEF Stored
  <2>4. \A p \in met : cmd.doc \notin p => p \in met'
    BY <1>6 DEF EraseDocument
  <2> QED
    BY <1>1, <2>1, <2>2, <2>3, <2>4, ReaderKept
<1> QED
  BY <1>3, <1>4, <1>5, <1>6

(* A drop that begins has disturbed every reader of its document.          *)
LEMMA ReaderKeptByDrop ==
  ASSUME Inv, ReaderOK, NEW d \in Docs, DropDocument(d)
  PROVE  ReaderOK'
<1>1. /\ UNCHANGED <<stored, db, kills, met>> /\ Stored' = Stored /\ cmd'.doc = d
      /\ reader' = [reader EXCEPT !.disturbed = @ \/ d \in {reader.doc, reader.other} \cup reader.todo]
  BY DEF DropDocument, Stored, NoCommand
<1>2. reader \in Readers
  BY DEF Inv, TypeOK
<1>3. /\ reader'.step = reader.step /\ reader'.doc = reader.doc /\ reader'.version = reader.version
      /\ reader'.other = reader.other /\ reader'.todo = reader.todo
      /\ reader'.disturbed = (reader.disturbed \/ d \in {reader.doc, reader.other} \cup reader.todo)
  BY <1>1, <1>2 DEF Readers
<1> SUFFICES ASSUME kills = 0, reader.step # "none", ~reader'.disturbed
             PROVE  ReaderOK'
  BY <1>1, <1>3 DEF ReaderOK
<1>4. ~reader.disturbed /\ d \notin {reader.doc, reader.other} \cup reader.todo
  BY <1>3
<1> QED
  BY <1>1, <1>3, <1>4 DEF ReaderOK

(* A reader begins with keys whose documents are there.                    *)
LEMMA ReaderBegins ==
  ASSUME Inv, NEW d \in Readable, StartReading(d)
  PROVE  ReaderOK'
<1> DEFINE others == {o \in Docs : db[<<d, o>>] # Nothing}
<1>1. /\ kills = 0 /\ d \in Stored /\ d \in Docs
      /\ UNCHANGED <<stored, db, cmd, kills>> /\ Stored' = Stored /\ (Dropping' <=> Dropping)
      /\ reader' = [step |-> "key", doc |-> d, version |-> stored[d], other |-> NoDoc, todo |-> others,
                    disturbed |-> Dropping /\ cmd.doc \in others \cup {d}]
  BY DEF StartReading, Stored, Dropping
<1>2. \A o \in others : o \in Stored /\ o # d /\ db[<<d, o>>] # Nothing
  BY <1>1 DEF Inv, KeysOK, MarksOK
<1>3. Dropping => cmd.doc \in Stored /\ cmd.doc # NoDoc
  BY StoreAssumptions DEF Inv, ControlOK, Stored
<1> HIDE DEF others
<1> QED
  BY <1>1, <1>2, <1>3 DEF ReaderOK

(* What an undisturbed reader puts into its answer is current, or is what  *)
(* comes of two marks.                                                     *)
LEMMA AnswerCurrent ==
  ASSUME Inv, NEW o \in Stored, NEW v, NEW todo \in SUBSET reader.todo, NEW turned \in BOOLEAN,
         Answer(o, v, todo, turned), ReaderOK, reader.step \in {"key", "reverse"},
         o \in reader.todo \cup {reader.other},
         UNCHANGED <<stored, db, cmd, kills, met>>,
         kills = 0 /\ ~reader.disturbed /\ ~turned =>
           v = <<reader.version, stored[o]>> \/ (v = Garbage /\ {reader.doc, o} \in met)
  PROVE  ReaderOK'
<1>1. reader \in Readers /\ Stored' = Stored /\ (Dropping' <=> Dropping)
  BY DEF Inv, TypeOK, Stored, Dropping
<1>2. PICK step, other :
        /\ reader' = [reader EXCEPT !.step = step, !.other = other, !.todo = todo, !.disturbed = @ \/ turned]
        /\ other = IF step = "key" THEN NoDoc ELSE o
        /\ v # Nothing => step = IF v = Garbage THEN "garbled"
                                ELSE IF v = <<reader.version, stored[o]>> THEN "key" ELSE "wrong"
  BY DEF Answer
<1>3. /\ reader'.step = step /\ reader'.doc = reader.doc /\ reader'.version = reader.version
      /\ reader'.other = other /\ reader'.todo = todo /\ reader'.disturbed = (reader.disturbed \/ turned)
  BY <1>1, <1>2 DEF Readers
<1> SUFFICES ASSUME kills = 0, ~reader.disturbed, ~turned
             PROVE  ReaderOK'
  BY <1>3 DEF ReaderOK
<1>4. stored[o] \in Nat /\ reader.version \in Nat
  BY <1>1 DEF Inv, TypeOK, Stored, Readers
<1>5. \/ step = "key" /\ other = NoDoc
      \/ step = "garbled" /\ other = o /\ {reader.doc, o} \in met
  BY <1>2, <1>4, StoreAssumptions
<1>6. Dropping => cmd.doc # NoDoc
  BY StoreAssumptions DEF Inv, ControlOK, Stored
<1>7. /\ reader.doc \in Stored /\ stored[reader.doc] = reader.version
      /\ \A p \in reader.todo : p \in Stored \ {reader.doc} /\ db[<<reader.doc, p>>] # Nothing
      /\ Dropping => cmd.doc \notin {reader.doc, reader.other} \cup reader.todo
  BY DEF ReaderOK
<1> QED
  BY <1>1, <1>3, <1>5, <1>6, <1>7 DEF ReaderOK

LEMMA StaysDisturbed ==
  ASSUME Inv, reader.disturbed, ReadKey \/ ReadReverse
  PROVE  reader'.disturbed
<1>1. reader \in Readers
  BY DEF Inv, TypeOK
<1>2. ASSUME NEW o, NEW v, NEW todo, NEW turned, Answer(o, v, todo, turned)
      PROVE  reader'.disturbed
  <2>1. PICK a, b :
          reader' = [reader EXCEPT !.step = a, !.other = b, !.todo = todo, !.disturbed = @ \/ turned]
    BY <1>2 DEF Answer
  <2> QED
    BY <1>1, <2>1 DEF Readers
<1>3. CASE ReadKey
  <2>1. PICK o \in reader.todo :
          \/ reader' = [reader EXCEPT !.step = "reverse", !.other = o, !.todo = @ \ {o}]
          \/ Answer(o, db[<<reader.doc, o>>], reader.todo \ {o}, FALSE)
    BY <1>3 DEF ReadKey
  <2>2. CASE reader' = [reader EXCEPT !.step = "reverse", !.other = o, !.todo = @ \ {o}]
    BY <1>1, <2>2 DEF Readers
  <2> QED
    BY <1>2, <2>1, <2>2
<1>4. CASE ReadReverse
  BY <1>2, <1>4 DEF ReadReverse
<1> QED
  BY <1>3, <1>4

(* A key that is no mark holds the passages; a mark is told from passages. *)
LEMMA ReadKeyCurrent ==
  ASSUME Inv, ReaderOK, ReadKey, kills = 0, ~reader.disturbed
  PROVE  ReaderOK'
<1>1. PICK o \in reader.todo :
        LET v == db[<<reader.doc, o>>]
        IN  IF v = Mark
            THEN reader' = [reader EXCEPT !.step = "reverse", !.other = o, !.todo = @ \ {o}]
            ELSE Answer(o, v, reader.todo \ {o}, FALSE)
  BY DEF ReadKey
<1>2. /\ reader.step = "key" /\ UNCHANGED <<stored, db, cmd, kills, met>>
      /\ Stored' = Stored /\ (Dropping' <=> Dropping)
      /\ reader \in Readers
  BY DEF ReadKey, Stored, Dropping, Inv, TypeOK
<1>3. /\ reader.doc \in Stored /\ stored[reader.doc] = reader.version
      /\ \A p \in reader.todo : p \in Stored \ {reader.doc} /\ db[<<reader.doc, p>>] # Nothing
      /\ Dropping => cmd.doc \notin {reader.doc, reader.other} \cup reader.todo
  BY <1>2 DEF ReaderOK
<1>4. reader.doc \in Docs /\ o \in Docs /\ o \in Stored /\ o # reader.doc /\ db[<<reader.doc, o>>] # Nothing
  BY <1>3 DEF Stored
<1>5. CASE db[<<reader.doc, o>>] = Mark
  <2>1. /\ reader'.step = "reverse" /\ reader'.other = o /\ reader'.todo = reader.todo \ {o}
        /\ reader'.doc = reader.doc /\ reader'.version = reader.version
    BY <1>1, <1>2, <1>5 DEF Readers
  <2> QED
    BY <1>2, <1>3, <1>4, <2>1 DEF ReaderOK
<1>6. CASE db[<<reader.doc, o>>] # Mark
  <2>1. \/ db[<<reader.doc, o>>] = <<reader.version, stored[o]>>
        \/ db[<<reader.doc, o>>] = Garbage /\ {reader.doc, o} \in met
    BY <1>3, <1>4, <1>6 DEF Inv, CurrentOK, Found
  <2>2. Answer(o, db[<<reader.doc, o>>], reader.todo \ {o}, FALSE)
    BY <1>1, <1>6
  <2> QED
    BY <1>2, <1>4, <2>1, <2>2, AnswerCurrent
<1> QED
  BY <1>5, <1>6

(* If the first key is still a mark, the passages are under the other: no  *)
(* thread has yet to write that one, and no drop has taken it.             *)
LEMMA ReadReverseCurrent ==
  ASSUME Inv, ReaderOK, ReadReverse, kills = 0, ~reader.disturbed
  PROVE  ReaderOK'
<1> DEFINE o == reader.other
           v == db[<<o, reader.doc>>]
           read == IF v = Mark THEN Garbage ELSE IF v = Nothing THEN v ELSE Flip(v)
           turned == db[<<reader.doc, o>>] # Mark
<1>1. /\ Answer(o, read, reader.todo, turned) /\ reader.step = "reverse"
      /\ UNCHANGED <<stored, db, cmd, kills, met>>
  BY DEF ReadReverse
<1>2. /\ reader.doc \in Stored /\ stored[reader.doc] = reader.version
      /\ o \in Stored /\ o # reader.doc
      /\ Dropping => cmd.doc \notin {reader.doc, o}
      /\ reader.doc \in Docs /\ o \in Docs
  BY <1>1 DEF ReaderOK, Stored
<1>3. ASSUME ~turned
      PROVE  read = <<reader.version, stored[o]>> \/ (read = Garbage /\ {reader.doc, o} \in met)
  <2>1. db[<<reader.doc, o>>] = Mark /\ Mark # Nothing /\ {o, reader.doc} = {reader.doc, o}
    BY <1>3, StoreAssumptions
  <2>2. CASE v = Mark
    <3>1. {reader.doc, o} \in met
      BY <1>2, <2>1, <2>2 DEF Inv, MarksOK, MarksResolve
    <3> QED
      BY <2>2, <3>1
  <2>3. CASE v # Mark
    <3>1. ~Unmarking(reader.doc, o)
      BY <1>2 DEF Unmarking, Dropping
    <3>2. v # Nothing
      BY <1>2, <2>1, <3>1 DEF Inv, KeysOK
    <3>3. v = <<stored[o], stored[reader.doc]>> \/ (v = Garbage /\ {reader.doc, o} \in met)
      BY <1>2, <2>1, <2>3, <3>2 DEF Inv, CurrentOK, Found
    <3>4. read = Flip(v)
      BY <2>3, <3>2
    <3>5. CASE v = Garbage /\ {reader.doc, o} \in met
      BY <3>4, <3>5 DEF Flip
    <3>6. CASE v = <<stored[o], stored[reader.doc]>>
      <4>1. stored[o] \in Nat /\ stored[reader.doc] \in Nat
        BY <1>2 DEF Inv, TypeOK
      <4>2. v # Garbage
        BY <3>6, <4>1, StoreAssumptions
      <4> HIDE DEF v, read
      <4> QED
        BY <1>2, <3>4, <3>6, <4>2 DEF Flip
    <3> QED
      BY <3>3, <3>5, <3>6
  <2> QED
    BY <2>2, <2>3
<1> HIDE DEF read
<1>4. reader.todo \in SUBSET reader.todo /\ turned \in BOOLEAN
  OBVIOUS
<1> HIDE DEF turned
<1> QED
  BY <1>1, <1>2, <1>3, <1>4, AnswerCurrent

LEMMA ReaderInductive ==
  ASSUME Inv, ReaderOK, [Next]_vars
  PROVE  ReaderOK'
<1>1. CASE UNCHANGED vars
  BY <1>1, ReaderKept DEF vars, Stored, Dropping
<1>2. ASSUME NEW d \in Docs, DropDocument(d)
      PROVE  ReaderOK'
  BY <1>2, ReaderKeptByDrop
<1>3. ASSUME NEW t \in Threads, Search(t)
      PROVE  ReaderOK'
  BY <1>3, ReaderKeptBySearch
<1>4. CASE Kill
  <2>1. kills' # 0
    BY <1>4 DEF Kill, Inv, TypeOK
  <2> QED
    BY <2>1 DEF ReaderOK
<1>5. ASSUME NEW d \in Readable, StartReading(d)
      PROVE  ReaderOK'
  BY <1>5, ReaderBegins
<1>6. CASE ReadKey \/ ReadReverse
  <2>1. kills' = kills
    BY <1>6 DEF ReadKey, ReadReverse
  <2>2. CASE kills # 0
    BY <2>1, <2>2 DEF ReaderOK
  <2>3. CASE reader.disturbed
    <3>1. reader'.disturbed
      BY <1>6, <2>3, StaysDisturbed
    <3> QED
      BY <3>1 DEF ReaderOK
  <2>4. CASE kills = 0 /\ ~reader.disturbed
    BY <1>6, <2>4, ReadKeyCurrent, ReadReverseCurrent
  <2> QED
    BY <2>2, <2>3, <2>4
<1>7. CASE EndReading
  <2>1. reader'.step = "none"
    BY <1>7 DEF EndReading, NoReader
  <2> QED
    BY <2>1 DEF ReaderOK
<1> QED
  BY <1>1, <1>2, <1>3, <1>4, <1>5, <1>6, <1>7, ReaderKeptByCommands DEF Next

(* A request that reads associations while threads save and the processor  *)
(* drops is answered, with passages of the texts it answers with, unless a *)
(* drop of one of its documents overlaps it, a pair is saved again between *)
(* its two reads, or two threads have been at both ends of the pair, whose *)
(* "x" is then parsed as a record (association.cc:97-120, 383-392).        *)
THEOREM RequestsAnswered == Spec => []ReadersAnswered
<1>1. Init => ReaderOK
  BY DEF Init, NoReader, ReaderOK
<1>2. Inv /\ ReaderOK /\ [Next]_vars => ReaderOK'
  BY ReaderInductive
<1>3. ReaderOK => ReadersAnswered
  BY DEF ReaderOK, ReadersAnswered
<1> QED
  BY <1>1, <1>2, <1>3, AlwaysInv, PTL DEF Spec
=============================================================================
