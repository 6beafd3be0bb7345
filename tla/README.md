# superfastmatch in TLA+

Superfastmatch stores documents, indexes the hashes of their text windows, and
finds the passages that two documents share.  It is one process: an HTTP server
whose request threads read directly and write through a persistent command
queue, a timer that processes the queue, and a thread per index slot.  The
databases (Kyoto Cabinet files) survive the process, the index does not.

This directory models the parts of `src/src/` whose correctness depends on the
order of steps, and the small web application on top of it, checks them with TLC on
small instances and proves the most important facts for all instances with TLAPS.

The program's own code is the C++ of `src/src/` and the JavaScript of
`src/public/app`.  Nearly all JavaScript of the repository is another thing: ExtJS,
a vendored library of half a million lines in `src/public/extjs`, in several builds.
It is external here.

## 1. Inventory

| Part | Code | State | Operations | Correct when |
|---|---|---|---|---|
| Command queue | `queue.cc`, `command.cc`, `worker.cc` | `queueDB` (key = status, id, priority, action, document; value = payload id), `payloadDB`, counters in `miscDB` | `createCommand`, `insertCommand`, `processQueue`, `changeStatus`, the five actions, listing | every accepted command takes effect once, in order; payloads live exactly as long as their commands |
| HTTP API | `api.cc` | none | six calls that create commands, eight that read | a refused request changes nothing, an accepted one is queued |
| Inverted index | `posting.cc`, `task.cc` | per slot: table of posting lines, task queue, reader-writer lock; `ready_` | `init`, `addDocument`, `deleteDocument`, `searchIndex`, `finishTasks`, listings | when settled it holds exactly the stored documents |
| Posting lines | `postline.cc`, `codec.cc` | sections of delta-coded docids per doctype in one byte array | `load`, `addDocument`, `deleteDocument`, `commit` | a line stands for a set of documents; what was added can be deleted |
| Documents | `document.cc` | `documentDB` (text), `metaDB`, `orderedMetaDB` | `createDocument`, `setMeta`, `remove`, `getDocument`, `getDocId` | text, metadata and ordered metadata agree |
| Associations, searches | `association.cc`, `search.cc` | `associationDB`: a pair has its results under one key and `x` under the reverse one | permanent and temporary searches, `save`, `load`, `removeAssociations` | associations join stored documents; both directions read the same |
| Document queries | `query.cc` | none | parsing of ranges, cursors, pages over `orderedMetaDB` | following the cursors visits every document once |
| Loader | `loader.cc` | page, position, cursor, connection | `getNextPage`, `getNextDocument`, `getUrl` with retries | every document of the other instance is loaded |
| Registry, start and stop | `registry.cc`, `superfastmatch.cc` | database handles, `isClosing_` | open, close | a restart finds what the last run stored |
| Instrumentation | `instrumentation.cc` | bounded lists of timings, shared by the threads | `add`, `merge` | bounded |
| Web interface | `public/app` | in the browser: the list and its cursors, filter, sorters, selection, what is displayed, masks, requests under way | list, page, filter, sort, select, go to, search, compare, and the handlers of the answers | what is displayed is what was asked for last; nothing stays masked |
| Logger, templates, static files | `logger.cc`, `worker.cc` | — | — | presentation |

How they interact:

* a write request draws an id from `miscDB`, writes its payload and then its
  key, and answers 202; it never touches documents or the index;
* the timer thread (one at a time) calls `Posting::init` until the index is
  ready, then `processQueue`, which executes commands one after the other;
* an action that adds or drops a document changes the document databases
  itself and hands a task to every slot; the slot's thread changes the index
  some time later; `finishTasks` joins those threads;
* a search reads all slots under their reader locks and then the documents it
  found, and a permanent one saves associations;
* closing sets one flag, which the timer and the loading of the index poll.

What makes this hard: three kinds of threads over shared databases without
transactions; an index that lags behind the databases; replacement of a document
by two commands under one id, ordered by priority; statuses encoded in keys, so
that a change of status is a removal and an insertion; a process that can die
between any two of these steps.  `PROJECT.json` lists the hazards line by line.

## 2. Modules

| Module | What it is |
|---|---|
| `CommandQueue` | the queue, the write requests, the processor, the slots; the core |
| `Corpus` | abstract specification: jobs, stored texts, links |
| `QueueImplementsCorpus` | the refinement mapping from the queue to the corpus |
| `Listings` | the pages of the queue and of the index |
| `CommandQueueInvariants` | the inductive invariants |
| `CommandQueueProofs` | type correctness; associations join stored texts that overlap; a search meets a settled index; records, payloads and the command in hand agree; what survives any number of kills; the queue implements the corpus, and one client's last write wins; the pages that clients see leave nothing out; proved |
| `CorpusInvariants` | the inductive invariants of the refinement and of the last write |
| `CrashRestart` | `CommandQueue` with kills and restarts, and lost payloads |
| `IndexSlots` | the slots' threads and searches, at the grain of their locks |
| `IndexSlotsProofs` | of `IndexSlots` and `PostLine`: the shared payload is freed once and last, what the index holds and a search reads of it, and what a line's bytes say, proved |
| `AssociationStore` | the two keys of an association, under several threads, drops and kills |
| `AssociationStoreProofs` | what drops, readers and the end of an association command find, proved |
| `DocumentQuery` | pages of a listing and their cursors, while documents come and go |
| `DocumentQueryProofs` | what a listing answers, and which documents its pages meet, proved |
| `TextMatch` | the passages two texts share |
| `Searching` | one search, from the hashes of its text to the associations it finds |
| `SearchingProofs` | what a search counts and associates, and that passages are the longest, proved |
| `PostLine` | one line of the index: documents as bytes, its blocks and its limit |
| `Loader` | loading the documents of another instance |
| `LoaderProofs` | a load misses nothing and creates nothing twice, proved |
| `WebInterface` | the page in the browser: what is asked for and what is displayed |
| `WebInterfaceProofs` | what is displayed is what was asked for last, proved |
| `SortedSets` | finite sets in the order of their keys, for `Loader`, `WebInterface` and `TextMatch` |
| `SortedSetsProofs` | there is such an order, and what it has; places in an order, functions defined by recursion over numbers, proved |
| `MCCommandQueue`, `MCCrashRestart`, `MCIndexSlots`, `MCAssociationStore`, `MCDocumentQuery`, `MCLoader`, `MCPostLine`, `MCSearching`, `MCWebInterface` | instances for TLC |

`CommandQueue` is the whole server at the grain of commands; `CrashRestart` extends it,
and `Listings` says what a client sees of its states.  The others each take one of its
steps apart: `IndexSlots` what a slot's thread does with one task, `PostLine` what it
does with one line, `AssociationStore` what an association command does with one pair,
`Searching` with `TextMatch` how it finds its pairs, `DocumentQuery` how a document's
metadata is written, and read meanwhile, `Loader` how a load finds the documents it
creates commands for.  `WebInterface` is the other side of the HTTP API: the server is
an operator there that answers at once. What the finer module shows is what lets the
coarser one take the step as one.

### CommandQueue and the code

One action is one operation of one thread on shared state, so that every order
of the threads' database calls is explored.

| Code | Model |
|---|---|
| `api.cc` write calls, `queue.cc` `createCommand`, `command.cc` constructor and `save` | `CreateDocument` .. `LoadDocuments`, `SavePayload`, `SaveKey`; a PUT goes on with `AssociateCreated`. Each thread has one record in `creating` |
| `worker.cc` `process_timer`, `posting.cc` `init` | `Tick`, `LoadStored`, `StoredLoaded` |
| `queue.cc` `processQueue` | `FetchCommand`, `FinishTasks` (waits when the kind of command changes), `LeaveQueue`; `pc`, `cmd`, `previousAction` are its program counter and locals |
| `command.cc` `changeStatus` | `RemoveKey`, `RemovePayload`, `WriteKey`, with the new status in `goal` |
| `command.cc` actions | `FailDocument`, `StoreText`, `DescribeDocument`, `ReplaceDocument` with `RetryLater`, `DropMissing`, `DropAssociations`, `EraseText`, `UndescribeDocument`, `AddAssociation`, `AddAssociations`, `LoadDocument`, `EndLoad` |
| `posting.cc` `alterIndex`, `addTask`; `task.cc` | `AddTask` (one slot), `ThrottleEnds`, `AlterIndex(s)` (the thread of slot s) |
| `superfastmatch.cc` `main`, after the server has stopped | `Close` |

A command is a record of its key's fields and its payload id.  A text is a model
value with a set of index buckets; the index is a set of pairs of bucket and
document.  An association is an unordered pair of documents.

What the abstraction leaves out, on purpose:

* two texts match if and only if they share a bucket: hash collisions, window
  sizes and the positions of hits are not in this model;
* a search saves at most `num_results` associations; the model has fewer
  documents than that (`AssociationStore` and `Searching` have the limit);
* a line of the index always has room: a nearly full one takes no more documents and
  nothing tells (posting.cc:91-92), so that index and searches then lack them.  So it
  is in `IndexSlots` and `Searching`; `PostLine` has the full line;
* the search of one command, and a slot's work on one task, are one step each. Nothing
  else writes what an association command reads while it runs (that is what
  `IndexSettled` says); a search that a request thread makes while documents are dropped
  is not modelled (search.cc:58 dereferences a document that may be gone);
* the two writes of `metaDB` and `orderedMetaDB` for one document are one step;
* the Kyoto Tycoon server is external: it lets running requests finish when it
  stops, and `Close` may come at any time, also while a command is in hand;
* automatic docids are left out; requests name their document.

The API refuses an empty text and the loader always sends one, so a payload
without a text does not occur.  `dropDocument` asserts that the slots' queues are not
all empty when they have been handed its task (command.cc:142).  `Counted` is what it
adds up; where it fails, `CommandQueue` has no step and `CrashRestart` has
`DropUncounted`, the end of the process.  In the model without crashes `FailDocument` and
the branch of `WriteKey` for failed commands therefore never happen; the run
`crashes` reaches both.

### Corpus

The promise to clients, without index, tasks or keys: jobs with ids; the server
begins with the oldest job; a job retires only when its effect is there: the text
stored, the document gone, the links complete.  `QueueImplementsCorpus` maps a
job to an unfinished command.  The drop that replaces a document is part of the
addition's job, because it shares its queue id; while it runs, the job is
suspended and resumed.  Ids of jobs are natural numbers, with no bound.

### Listings

| Code | Model |
|---|---|
| `queue.cc` `fillDictionary` | `Records` in the order of the keys, `PageStart` (which page is answered), `QueuePage`, `FirstId`, `LastId`, `PreviousId`, `NextId` |
| `posting.cc` `PostingSlot::fillListDictionary` | `SlotListing` |
| `posting.cc` `Posting::fillListDictionary` | `IndexPage`, `NextStart` |

These are functions of a state of `CommandQueue`: a page is computed from the queue as
it is at one moment, and so is the index page, although the code reads record by record
and slot by slot.  A limit of 0 (queue.cc:79, where the count wraps around) is left out.

### CrashRestart

`Crash` resets what is in memory at any step and keeps the databases as every
completed call left them, the mildest outcome of a kill; or it loses the texts of
any payloads on the way, as after a power failure in which one file, `payload.kch`,
lags behind the others.  A lost payload reads as one without a text, so its record
stays in the model with none.  `LoadMissing` is `Posting::init` dereferencing a
document that is not there, `DropUncounted` the assert of `dropDocument` that fails;
after both the server starts anew.

### IndexSlots

| Code | Model |
|---|---|
| `posting.cc` `alterIndex`, `addTask` | `AddDocument`, `DeleteDocument`, then `AddTask` for each slot; `Settled` is `finishTasks` between an addition and a deletion |
| `task.cc` `do_task`, `posting.cc` `PostingSlot::alterIndex` | `TakeTask`, then `AlterBucket` for each bucket under the writer lock |
| `task.cc` `markSlotFinished` | `ReadSlotsLeft`, `SwapSlotsLeft` (the swap fails and reads again if the count has changed) |
| `task.cc` `~PostingTask` | `FreePayload` |
| `posting.cc` `searchIndex` | `BeginSearch`, `LockSlot` for each slot, `SearchBucket`, `UnlockSlot` |

`payloads` keeps freed payloads, with how often they were freed, so that a use
after the end would show.  A search looks up every bucket.  Every line has room for
what is added to it (posting.cc:91-92).

### AssociationStore

| Code | Model |
|---|---|
| `command.cc` `addAssociation(s)`, `task.cc` | `AddAssociations`, `TakeTask`, `EndTask`, `EndAssociations` (waits for the threads) |
| `association.cc` constructor, `load` | `LoadKey`, and `LoadReverse` when the key holds `x` |
| `association.cc` `save` | `SaveKey`, `SaveReverse`, with the two records in `SavedRecords` |
| `command.cc` `dropDocument`, `association.cc` `remove` | `DropDocument` lists the pairs, `RemoveKey`, `RemoveReverse`, `EraseDocument` with its assertion in `aborted` |
| a kill and restart | `Kill`: what was in hand is gone, the databases stay |
| `search.cc` `getPermanentSearch`, `association.cc` `getAssociations` | `StartReading` lists the keys of a document, `ReadKey`, `ReadReverse` read them one by one, `Answer` (a pair that reads as nothing is matched anew), `EndReading` |

A document is the version of its text and passages are a pair of versions, so that
passages of an earlier text are told apart from present ones.  `Garbage` is what
comes of parsing `x` as passages; it may also throw, which the model leaves out.
The index may offer any stored document of the target range to a search, in any order,
and matching decides, until `NumResults` have been saved (`HasRoom`, search.cc:57); a
command names a range of documents and one of targets.  The order in which the index
offers them is in `Searching`.  `met` is a history variable: the pairs that two threads were
at from both ends at once, until a drop has cleared them.  A reader holds the text it
began with (`version`); `disturbed`, a history variable too, says that a drop of one
of its documents has overlapped it, or that a pair was turned around between its two
reads.  `reader.step` ends in `wrong` when the passages are not those of the two texts,
in `garbled` when they are what comes of parsing `x`, in `failed` when a document that
is gone is dereferenced.  Three causes bring this about: a drop, a pair that is saved
again between the two reads (both are `disturbed`), and a pair in `met`, which may hold
`x` under both keys (`garbled` alone).

### DocumentQuery

| Code | Model |
|---|---|
| `document.cc` `createDocument`, `setMeta` | `Create`, then `SetMeta` and `SetOrdered` for each value the item is set to |
| `document.cc` `remove` | `EraseMeta`, `EraseOrdered` |
| `query.cc` `getDocPairs` | `Pairs`: one walk over the ordered keys is one step, `From` a cursor on, in the order `Earlier`, to the limit (`FirstOf`) |
| `query.cc` `getCursor`, `parseCursor` | `ReadKeys`, `ReadMeta` (the document is read in two calls), `Encoded`, `ParseCursor` |
| `query.cc` `fillJSONDictionary` | `ListPage`, `FillDocument`, `ListPageEnd` |
| `query.cc` `getLast`, `getPrevious`, `getNext` | `ListLast` .. `LinkNext`, in the order of their calls |
| `query.cc` `DocTypeRange::parse`, `isInRange` | `IsValid`, `DocTypes`, `IsInRange`; `Source` is the documents of the range |
| a client | `FirstPage`, `Follow` a link of the page it has |

One item of the metadata is modelled, with other items on both sides of it.  A value
is its rank in the order of the keys' bytes, padding of numbers included, and so is
its url-encoded form, `Escape`; an entry is `<<value, document>>`.  Two pages that
begin at the same entry are the same.  The removal of all items of a document from
`metaDB` is one step.  `walk` is a history variable: the documents that were there
all along (`stay`), those met (`seen`), whether an ordered key was removed during a
request or one without its item was there (`torn`), whether anything was written since the
page was listed (`quiet`).
Left out: values with a colon, which end the value of a cursor early; items whose
name begins with the name of the order, which are listed with it (query.cc:261); the
text database, which a listing reads only for the answer.

In a form, a field with the name of a generated item (`characters`, `doctype`, `docid`)
is set twice, to the value of the form and then to the true one; `Forms` has the
sequences of values that a document may be given.  If they differ, `setMeta` leaves the
first ordered key behind, because it overwrites the map before it reads the old value
(document.cc:120-125), and the removal of the document does not find that key either.
The code does not keep clients from sending such a form, and neither does the model: one
of the forms of `query_pages` gives two values.  `OrderedAgrees` says for any forms that no
other key is left over and none is missing.  A page that meets a key left over lists the
document out of its place, or with no item at all, and its cursors lead elsewhere, so the
properties of the pages are about walks that begin with no key left over and during which
none comes about (`torn`).

### PostLine

| Code | Model |
|---|---|
| `posting.cc` `alterIndex`, for one hash | `Add`, `Delete`: each holds the slot's writer lock and is one step |
| `postline.cc` `addDocument`, `deleteDocument` | `LineAddDocument`, `LineDeleteDocument` on a line, with `AddToSection`, `RemoveFromSection` |
| `postline.cc` `getDocIds`, `getLength` | `Documents`, `GetLength` |
| `codec.cc` `VarIntCodec` | `DecodeSection`, `EncodedLength`, `HeaderLength` |
| `common.h` `needsAllocation`, and `commit` | `BlockFor`, `Commit` |

A line is a header of lengths in bytes and the distances of all its sections one
after the other; a section is found, as in the code, by counting bytes from the
front.  A number is itself, and takes as many bytes as its digits in base `Base`, at
most five, as a 32-bit number does in base 128; the doctypes, the docids and the limit
(1024, registry.cc:107) are below `Capacity[5]`.  `LineAssumptions` also has a limit of
16 at least: a line without documents is one byte long, and with less than the 15 bytes
that an addition asks for it would never get one.
`held` is a history variable: the documents that were let in and not deleted.  Left
out: the temporary buffers, which are filled and copied in the same step, and the
deletion of the last docid of a section, where the code adds the distance to an
element past the end of the vector (postline.cc:86); it lies in reserved memory and
is not read.

### Searching and TextMatch

| Code | Model |
|---|---|
| `posting.cc` `searchIndex` | `LookUp` for each position, with `Hit` for the tally of a document; `Prune` |
| `search.cc` `execute` | `StartAssociation`, `Match`, `EndAssociation`, `EndSearch` |
| `association.cc` `match` | `StartMatch`, then `TakePassage` and `DropMatch` until no match is left |
| `common.h` `UpperCaseRabinKarp` | `Hashes`: any function of a window, so that different windows may have one hash |
| `document.cc` `getCleanText` | `Clean` |

A tally keeps the last 7 differences between the positions of its hits, each a byte of
one word; `RunLength` stands for 7 and `Modulus` for 256.  A text is a sequence of
letters, blanks and marks, which are what the two ways of cleaning a text tell apart: a
hash takes marks for themselves, the comparison takes them for blanks.

Seven differences of one take eight hits, and a passage of exactly a window has seven.
The index therefore finds passages of a window and one character more, and a shorter one
only at position 1, where a new tally's zero counts as a hit before it.
`SearchFindsAll` says what is found.  Left out: positions in characters of several
bytes (association.cc:282-310), and associations that are saved already (they are in
`AssociationStore`).

### Loader

| Code | Model |
|---|---|
| `command.cc` `loadDocuments` | `step` and `Turn` |
| `loader.cc` `getUrl` | `Answered`, `TryAgain` with `Retry`, `GivenUp`: one request is one step |
| `loader.cc` `getNextPage` | `GetNextPage`, `GetNoPage` |
| `loader.cc` `getNextDocument` | `GetNextDocument`, `GetNoDocument` |

The other instance is external and answers its listing in one moment (`DocumentQuery`
is about what happens if it does not).  Documents are numbers in the order of the
listing.  `open` starts with any value, because nothing sets `open_` before it is read.
`stay` and `lost` are history variables: the documents that were there all the time,
and those that a failure has cost.

### WebInterface

| Code | Model |
|---|---|
| `controller/Documents.js` | `ShowDocuments` (a tab is activated), `GoTo`, `AnswerDocument` |
| `view/DocumentBrowser.js`, `store/Documents.js` | `TypeFilter`, `Sort`, `Move` (the buttons of the pages), `SelectRow`, `ListRequest` (what is sent), `AnswerList` (the first row is selected, its document asked for) |
| `view/SearchForm.js`, `view/SearchPanel.js` | `ShowSearch`, `Search`, `AnswerSearch` |
| `view/SideBySide.js`, `controller/Compare.js` | `Compare`, `CloseWindow`, `AnswerCompare` |
| a request that is refused or gets no answer | `Fail`: no handler is told |

`requests` are the requests under way; any may be answered next.  The answer to a list
is a page of the documents in an order, `PageAt`, with the cursors of the pages around
it, `CursorsOf`; the documents do not change (they do in `DocumentQuery`).  `Mask` and
`Unmask` are those of three parts: the search form (SearchForm.js:70, 88), the matches of
the text (ResultsContainer.js:124-127, 141-142) and the right text of the window of a
comparison (SideBySide.js:78, 83).  The mask of the list, which its store sets and lifts,
and that of the results in the tab of searches (Searches.js:31-37) are left out.  `calm`,
`denied` and `goal` are history variables: answers came in order since a list was asked
for last, the masks whose request failed, the document gone to.

## 3. Runs

The server stops for good after `Close`, and clients stop at `MaxQueueId`, so where
they do a deadlock is not an error and is not checked.

| Run | Question | Bounds |
|---|---|---|
| `queue_client` | Does the last write win, does the queue implement the corpus, and do the pages of queue and index meet everything? | 1 client, 2 documents, 2 overlapping texts, 2 requests |
| `queue_races` | Do payloads, records, index and associations stay consistent under races? | 2 clients, 2 documents, 2 requests, loader |
| `crashes` | What survives kills and lost payloads, are finished records final, and is every command finished some day, through kills, replacements and a slot that throttles? | 1 client, 2 documents, 1 text, 1 slot, 2 requests, any number of crashes up to payload id 3 |
| `loader` | Does a load end, with every document once? | 5 documents, 2 of them come and go, pages of 2, 2 retries |
| `slots` | Is the payload freed once, last and some day, and does a search see one moment? | 2 slots, 3 buckets, 2 documents, 2 tasks, 2 searches |
| `assoc_threads` | Do the two keys of an association stay together and current, also for a request that reads them meanwhile, and is every document of the target range associated, or as many as a search makes? | 2 threads, 3 documents, 4 texts, 1 result for a search, ranges of all and of one, 1 kill, 1 reader of one document |
| `query_pages` | Does following the pages meet every document, in order, which ordered keys are there, and are requests answered? | 4 documents, 3 of them in the range 2-1:4, 1 of them comes and goes, 2 values, forms of one, of one twice and of one and then the other, 1 creation; pages of 1 forwards and of 2 in reverse |
| `searching` | Does a search find what it should, and the longest passages, from either end? | 2 documents or 1 and a text, texts up to 6 signs, windows of 3 |
| `web` | Is what is displayed what was asked for last, and is every mask lifted? | 3 documents of 2 doctypes, 2 orders, pages of 2, 2 requests under way |
| `postline` | Do the bytes of a line hold exactly its documents, in its block and its limit? | 3 doctypes, 4 docids, base 2, limit 30 |
| `assoc_race` | Does a saved association read from its other end (association-unittest.cc:60)? Not when two threads save it. | 2 threads, 2 documents, no kill |
| `query_escaped` | Does following the pages meet values with blanks? No. | as `query_pages`, no creation |

Why these bounds are enough to be interesting:

* two documents are needed for an association, and are all an association or a
  command relates; the initial state has any set of stored documents and of
  associations, so histories before the run count too;
* two slots let one lag behind the other; text `t2` has entries in both;
* `HighWater = 1`, `LowWater = 0` stand for 40 and 20: two tasks in a slot
  already throttle the processor.  That takes two documents, or an addition and a drop
  in a queue, and happens in `queue_client`, `queue_races` and `crashes` (there
  `LowWater = 1`, so that the processor goes on over a queue that is not empty);
* two ids let an addition meet an earlier one, a drop and an association; a PUT
  that has begun draws a third, and a load draws them as it runs;
* the pages are followed for every limit from one up, in each of the states of
  `queue_client`, with up to three records in three statuses, and three buckets in two
  slots of which any may be empty;
* in `loader`, up to three pages, the last of them short or empty, and a page may have
  none, one or both of the documents that come and go; each failure may come anywhere;
* kills are not counted; only the payload counter grows without bound with them,
  so they stop at `MaxPayloadId`, which leaves room for one more replacement than
  a run without kills makes.  In `crashes`, two documents let a slot throttle the
  processor and one command be finished while the other is lost in a kill; one text
  replaces itself there, and texts that differ, two slots and loads are in
  `queue_races` and `queue_client`;
* `MaxQueueId` bounds requests; a thread that has begun a PUT may draw one more;
* in `slots`, two tasks put two payloads into the slots at a time, or an addition
  and the deletion that must wait for it, and two slots race for one count;
* in `assoc_threads`, four texts let any of three stored documents be replaced; d1
  matches both others, so that two threads meet at a pair and one of them goes on.
  The reader asks for d1, which has both kinds of keys, once two texts are stored
  (`MaxRead`), and one more text comes while it reads: the replacement of a document
  it has listed or is about to list;
  One result means that a document with two matches must leave one out, and with the
  range of d1 alone as sources or targets a match outside of it is left out, too;
* in `query_pages`, the document that moves may be the first, the last or between,
  as the others have any values; removals are not bounded, so it can go, come and
  go, and leave a key of the form of two values behind; a page of two is full, short or
  empty, and not all doctypes are listed;
* in `web`, the two orders are reverse to each other, so that a cursor of one lies
  anywhere in the other; the filter takes one document, all, or a content that it does
  not accept; two requests are enough for one to overtake another;
* in `postline`, base 2 makes numbers of one to five bytes small, so that doctypes,
  distances and lengths of every size occur; additions and deletions are not bounded;
  lines reach 29 of the 30 bytes, and all block sizes from one to four times 8;
* in `searching`, all texts of up to five letters or of letter and blank occur, so that
  there are up to three windows that repeat, collide, overlap or are blank, two and three
  passages, both ends trimmed, and a limit of one result that leaves one out.  A tally
  keeps two differences and its byte wraps at 3, within the longest text.

`queue_client` has one client because "last" means nothing for two: an id that is
drawn later may become visible earlier, and the earlier one be processed last.

### Fairness

`Fairness` assumes weak fairness of the processor, of each slot thread and of
each request that has begun; nothing makes a client send or a server close.
`CrashFairSpec` adds that the kills end some day; a server that is killed again and
again drains nothing; and that the processor goes on to the assert that fails
(`DropUncounted`), as it does to its next statement.  The timer of the server fires
again and again, the threads are operating system threads, and the locks and calls in
between are short.  The loader ends because the other instance has finitely many
documents, which `MaxQueueId` stands for.  `Loader` assumes that a call of the network
returns some day, with an answer or without; the other instance may change for ever.
`WebInterface` assumes no more than that of the oldest request: an Ajax request always
ends, at the latest by its timeout.  In `AssociationStore` nothing is claimed to
happen some day.

In `IndexSlots`, the slots' threads, the processor's handing out and the searches that
have begun run on.  Its lock lets readers in while a writer waits, so a slot starves
under searches without end; `MaxSearches` stands for searches that pause.

### Findings

1. `assoc_race`: two threads of `addAssociations` that save one pair from its two
   ends leave `x` under both keys; the passages are lost, and the next reader parses
   the letter.
2. `query_escaped`: `getNext` and `getPrevious` compare the url-encoded value of a
   cursor with values that are not encoded; ordered by values with blanks, pages
   end early or leave documents out.

Three more disagreements are part of the models, without a run of their own:

* If each slot throttles the processor and is empty when the processor wakes, the
  lengths it adds up are 0, and the assert around `deleteDocument` (command.cc:142) ends
  the process in the middle of a drop that went well (`DropUncounted`).  What is then
  finished some day is what `EveryCommandFinishes` still promises.
* The association of a document that does not exist is recorded as finished, where
  api.cc:304 says failed: `addAssociation` (command.cc:120) does not look at what its
  search found.  `AddAssociation` does the same, and `EveryCommandFinishes` says no more
  than that the command ends.
* The ordered key of a value that a form gives before another stays, also when the
  document is removed (document.cc:120-125), and listings go on to show it;
  document-unittest.cc:70-77 expects as many ordered keys as items.  `Superseded` in
  `OrderedAgrees` is exactly what stays.

The properties that hold except for some case name the case in their guard, and each
such guard is a weakness of the code, not of the model:

* a command in hand when the process is killed stays active, or loses its record;
  nothing takes it up again, and the text it was to store is lost (`Abandoned`
  in `EveryCommandFinishes`);
* a passage of exactly a window may be passed over (`SharesMoreThanWindow`), and texts of
  equal length with crowded windows may match differently from their two ends
  (`SameFromBothEnds`);
* a kill between text and metadata leaves a text without metadata, which no start
  indexes (`described` in `SettledIndexIsStored`), or metadata without text, at which
  `Posting::init` dies at every start (`LoadMissing`; `CannotStart` in
  `EveryCommandFinishes`, which is true only while a start has that document still to load);
* a kill between the two keys of an association makes the assertion of the next drop
  fail (`kills = 0` in `AssertionsHold`, `KeysInPairs`, `CurrentUnlessMet`);
* a request for the associations of a document that overlaps a drop of one of them, or
  the new association of a pair it is between the two keys of, is answered with
  passages of other texts, parses the letter `x`, or dereferences a document that is
  gone (`disturbed` in `ReadersAnswered`, `failed` in `AssertionsHold`); one for a pair
  that two threads were at from both ends parses the letter, too (`met`);
* a search leaves matches out when it has its number of results, in an order that the
  index decides (`Associates` in `AssociatedWhenDone`);
* the ordered keys that forms leave behind are listed (`Superseded` in `OrderedAgrees`);
* a removal during a listing may end the walk early or be dereferenced as null
  (`torn`, `quiet` in the properties of `DocumentQuery`);
* an addition and the drop it inserts share a queue id, so that the next page of the
  queue may be the same page again (`IdsDiffer`);
* a text that is not answered for costs the rest of its page in a load, and an answer
  that there is no such document is taken for its text (`lost` in `LoadsEachOnce`);
* in the browser, answers that overtake each other, or a list that comes empty while a
  document is under way, leave another document on display than the selected one
  (`calm`); the fragments stay when the list is empty;
* a failed request leaves its part masked until it is asked for again (`denied` in
  `MasksLift`); the proxies of the stores keep their timeout of 30 seconds, although
  app.js:10 sets one of 60 for other requests;
* going to a document that the filter leaves out shows another one (`goal`), and for
  want of a comma (SideBySide.js:71) the panel at the right of a comparison is a global
  variable, so that a late answer is shown in the window of another match.

### Faulty variants

Each property has a variant of one definition, defined next to it, that breaks it.

| Variant | Fault | Broken property |
|---|---|---|
| `StartTaskAtZero` | slots counted from 0 | `TypeOK` |
| `FinishReplaced` | a replacing addition is finished, not retried | `LastWriteWins` |
| `KeyWithoutId` | the key lacks the id | `FinishedIsFinal` |
| `NeverPurge` | payload kept when finished | `PayloadsMatchCommands` |
| `AlwaysPurge` | payload removed at every change | `UnfinishedHavePayload` |
| `ForgetReplaced` | a replacing addition stays active | `OneCommandInHand` |
| `FirstSlotSettled` | only the first slot is waited for | `IndexSettled` |
| `KeptAssociations` | a drop keeps the associations | `AssociationsSound` |
| `RetryMissing` | a drop of a missing document is retried | `EveryCommandFinishes` |
| `BeforeByPriority` | priority compared before the id | `ImplementsCorpus` |
| `LoadOne` | a start loads one document only | `IndexSettled` |
| `LoadedUnsettled` | a start does not wait for what it loads | `SettledIndexIsStored` |
| `FreeAtOneLeft` | the last slot but one frees the payload | `PayloadOutlivesTasks` |
| `NoWriterLock` | a slot is altered under a search | `SearchSeesOneMoment` |
| `QueuesEmpty` | empty queues are taken for idle threads | `SettledIsExact` |
| `StoreSlotsLeft` | the count is stored, not swapped | `EveryPayloadFreed` |
| `LoadAny` | `x` is taken for passages | `MarksResolve` |
| `KeepSides` | the sides are not swapped when read from the other end | `CurrentUnlessMet` |
| `DropFromAll` | every pair is removed, saved or not | `AssertionsHold` |
| `KeepReverse` | a drop leaves the other key | `KeysInPairs`, `ReadersAnswered` |
| `MarkFirst` | `x` is saved before the passages | `MarksResolve` |
| `TasksTaken` | a command ends when its tasks are taken, not done | `AssociatedWhenDone` |
| `RoomForTwo` | a search ends one result early | `AssociatedWhenDone` |
| `RoomForOneMore` | one more result than the limit | `BestAreAssociated` |
| `HitUnreduced` | the difference of positions is not taken modulo 256 | `SearchFindsAll` |
| `AnyOrder` | candidates are compared in any order | `BestAreAssociated` |
| `NeverInverted` | the texts are not swapped by length | `SameFromBothEnds` |
| `UncomparedMatches` | equal hashes are taken for equal windows | `PassagesAreLongestCommon` |
| `TakeFirst` | only the first window of a passage is removed | `PassagesAreLongestCommon` |
| `RemoveDistance` | a removal forgets to lengthen the next distance | `LineEncodesDocuments` |
| `KeepEmptySection` | the header keeps an empty section | `LineEncodesDocuments` |
| `BlockRoundedDown` | blocks are rounded down | `LineFits` |
| `RoomForThree` | less room is kept free | `LineFits` |
| `EraseAnyMeta` | the ordered key of a removed document stays | `OrderedAgrees` |
| `EndsOneEarly` | one more document is taken for none | `PagesCoverAll` |
| `ListLastUnseen` | an empty listing has a last page | `ListingAnswers` |
| `ListNextAtLast` | the next page begins with the last document of this one | `PagesAdvance` |
| `OnlyPrevious` | going back counts the page's own first document | `PagesFromBehind` |
| `FirstEndFirst` | the ends of a range are not put in order | `PagesCoverAll` |
| `NextIdPastIt` | the next page begins one record late | `PagesMeetAll` |
| `ListingPast` | a page of the index begins behind its start | `PagesMeetAll` |
| `NextCursorAtLast` | the next page begins with the last document of this one | `LoadsEachOnce` |
| `RetryAfresh` | attempts are not counted | `LoadEnds` |
| `ListLastForwards` | the last page is looked for from the front | `PagesFromBehind` |
| `LastField` | the filter of the key before is sent | `ListFitsField` |
| `GoToBeforeTab` | the page of a document is asked for before that of the tab | `GoToShows` |
| `KeepSelection` | the document of the first row is not asked for | `ShownIsSelected` |
| `KeepMask` | an answer leaves the mask | `MasksLift` |
| `FirstTextStays` | a window keeps the first text that comes | `WindowShowsMatch` |

## 4. Proofs

The theorems hold for any numbers of request threads, searches, documents, texts,
buckets, slots, water marks and requests.  Those about `CommandQueue` assume
`Assumptions`, which says that the null values are not real ones and the constants have
their types, and those about the corpus also `NoCommandIsNull`: the null command is neither
a command nor a job; `SlotAssumptions` of `IndexSlots` and `StoreAssumptions` of
`AssociationStore` say the same of theirs, the latter also that there are finitely many
documents, since the results of a search are counted.  `LoaderAssumptions`, `WebAssumptions`,
`QueryAssumptions` and `SearchAssumptions` also say that there are finitely many
documents, since pages and the documents that were hit are sorted.  `MatchAssumptions`
says that windows and their limit of blanks are not empty, `SearchAssumptions` that a
tally keeps no more differences than a window has signs, without which the windows of
the index would be empty, and that its byte has more than one value.  What a theorem
assumes besides is in its statement.

Sorting is recursion over data, which the prover does not do.  `SortedSetsProofs` and
`FirstInOrder` (`DocumentQueryProofs`) get by without: if a set could not be sorted, there
would be one with the least number of elements, and removing its last element leads to a
smaller one; and the places of the elements of a finite ordered set, each the number of
elements before it, are 1 to n (`PlacesCount`).  `RecursionHolds` says that a function
defined from its value before has the values its definition states, by the least number up
to which there is no such function; `FlattenSteps` is that for `FlattenSeq`.

* `TypeCorrect` (`CommandQueueProofs`): `Spec => []TypeOK`.  `TypeOK` alone is not
  inductive: `ControlOK` adds where the processor is in its round and that the
  task in hand is about the document in hand.
* `SearchMeetsSettledIndex` (`CommandQueueProofs`): `Spec => []IndexSettled`.  The
  processor waits for the slots only when the kind of command changes, so the
  argument needs two facts besides the types.  `PhasesSeparate`: between two
  waits, the slots' queues hold only additions or only deletions, those of the
  kind of the command before.  `IndexFollows`: the index, plus the additions
  and minus the deletions that are decided and not done, is what the documents
  that are here to stay call for.  With both kinds in one queue the second would
  not be preserved, because the order of an addition and a deletion of the same
  entry would matter.  `FirstLoad` covers the loading, when documents and index
  differ by what `init` has still to load.  At an association command the first
  fact says the queues are empty, so the second becomes equality.

* `CommandsOneByOne`, `PayloadsKept`, `FinishedStays` (`CommandQueueProofs`):
  `OneCommandInHand`, `PayloadsMatchCommands`, `FinishedIsFinal`.  A change of status
  removes a key and writes another, and a written key replaces what has the same, so
  all three come down to one fact: no key that is written hides another.  `HandOK`
  says where the processor is with its command (at rest, taken, between the keys,
  running) and what the queue holds then.  `IdsOK`: a drawn id is on no record and at
  no other thread; only the drop that a replacement inserts takes the id of another
  command.  `RecordsOK`: unfinished commands differ in id or action, and before an
  addition that was taken there is no drop with its id until it inserts one; this
  holds because the queue's order takes the drop first.  `PayloadsOK`: the payloads of
  records, of commands being created and of the one between its keys are all
  different.  `FinishedOK`: a finished command has no payload, so that writing it over
  itself changes nothing.  The steps of the system are first sorted by what they do
  to commands (`Steps`), so that each lemma has a dozen cases instead of thirty.
* `AssociationsStaySound` (`CommandQueueProofs`): `AssociationsSound`.  Inductive
  with `AssociationsOK`: from the removal of a document's associations to that of its
  text there are none of it.
* `QueueIsCorpus` (`CommandQueueProofs`): `Spec => ImplementsCorpus`, step by step: a client's
  `SaveKey` submits a job, `FetchCommand` begins one or, for the drop of a replacement,
  resumes it, the text, the links and their removal are the corpus's own steps,
  `RemoveKey` of a finished command retires its job, the end of a replacement's drop and
  the requeueing of its addition put the job off, and the rest changes nothing in the
  corpus.  A job is found by a `CHOOSE` among the commands, so it is first shown what
  that finds before and after a step (`JobIn`, with commands and payloads as
  parameters).  The proof rests on all the invariants above and on `CorpusInv`.
  `IdsShared`: commands share an id only as an addition and its drop, so jobs have ids
  of their own.  `TextsOK`: an addition has its text from the request on and never
  fails.  `EffectsOK`: what a command has done is still so when it is retired, although
  other threads go on meanwhile. `DescribedOK`: metadata and texts belong to the same
  documents, because a drop asks for the metadata and an addition for the text.
* `LastRequestWins` (`CommandQueueProofs`): `Spec => []LastWriteWins` if `OneClient` holds: at
  most one handler, and no loads, which draw ids while they run.  `queue_client` is such
  an instance; with two clients the property is false (section 3).  `ClientInv`: what is
  finished precedes what is not (`InOrder`), so the finished write of a document that
  nothing follows is the one its text shows (`LastWriteShows`); in between, the command
  in hand has written and is not finished yet (`HasWritten`).
* `PagesMeetEverything` (`CommandQueueProofs`): `Spec => []PagesMeetAll`.  `ListableOK`: the
  queue is finite at any time, and no id in use is 0, which is the lack of an id in a page's
  links.  The rest is about one state.  The records are `Numbered`: listed each once, and
  known by their ids.  A page is the run of records from its first one (`PageIsRun`), so the
  links of `QueueWalk` are a limit of records apart (`Walked`), and the pages joined are the
  records (`PagesJoin`).  For the index the theorem assumes `HashesInSpans`: the buckets are
  the numbers from 1, and a slot holds a span of consecutive ones (posting.cc:20-21), so that
  what the slots before have listed lies between the start and any bucket of this one
  (`PageHasItsBuckets`).  A page has the listed ones of its first limit of buckets at least,
  and the starts are no further apart than that.
* `PayloadFreedLast` (`IndexSlotsProofs`): `Spec => []PayloadOutlivesTasks`.  The
  count in a payload is read and swapped by threads that do not hold a lock, so the
  invariant must say what it counts: `Counted`, the count is the number of slots the
  payload is handed to.  `HeldOnce`: a slot has a payload at one place only, still to be
  handed out, queued once, or at its thread; without it one slot could be counted for two.
  `FreedLast`: at zero one thread is about to free the payload, or it was freed and no
  thread is at it.  A swap that succeeds takes one slot from the set and one from the
  count; the rest is arithmetic of cardinalities.
* `SearchIsAtomic` (`IndexSlotsProofs`): `SearchSeesOneMoment`.  `Consistent` says of
  a search which locks it holds at each of its steps and that it reads nothing before it
  holds them all; then no slot's thread gets its writer lock while one reads.
* `SettledIndexIsExact` (`IndexSlotsProofs`): `SettledIsExact`, with the payloads, the
  slots' queues and the buckets taken apart that `IndexSettled` takes as one.  `Due` says
  which entries a payload has still to have altered, wherever it is; `OneKind`: additions
  and deletions are never due together; `Exact`: the index with what is due is what the
  stored documents call for.
* `LinesEncodeDocuments`, `LinesFit` (`IndexSlotsProofs`): `LineEncodesDocuments`,
  `LineFits`, from `LineInv`.  `Represents` says of a line which doctypes and distances it
  is the bytes of, `Proper` that doctypes and docids rise and no section is empty, `Holds`
  that these are the documents.  The lemmas go from numbers to lines.  A sum over a
  sequence is a function of its length and splits where the sequence does (`Sums`), so a
  section found by counting bytes is the one that was written (`ReadBack`), and replacing,
  inserting or removing a section leaves the others where they are found.  In a section, a
  docid put between two divides their distance and takes five bytes more at most
  (`AddsToSection`), and one removed joins two (`RemovesFromSection`): the sum of two
  distances takes no more bytes than both.  A section that is new has up to five bytes for
  the doctype, five for the docid and, in base 2, three for its length, and the count of
  sections may take one more: within the 15 of posting.cc:92.
* `KillsKeepPayloads`, `KillsKeepFinished` (`CommandQueueProofs`): `UnfinishedHavePayload`
  and `FinishedIsFinal` for `CrashSpec`.  A restart breaks much of the invariant of
  `CommandQueueProofs`: records stay active with no command in hand, payloads stay without
  a command.  What is left is `PayloadsSafe`, which asks of the ids in use only that they
  are stored, different from each other and drawn before; a kill can only shrink that set.
  `HandStatus` says that what is taken or runs is not finished.
* `KillsKeepIndex` (`CommandQueueProofs`): `SettledIndexIsStored` for `CrashSpec`.
  `IndexFollows` does not survive a kill, because a text may be left without metadata and
  a loading may be cut short.  `IndexAgrees` says that each entry is either exact as
  before, or `LeftOut`: neither in the index nor on its way there, and of a document
  without metadata or of a loading that was cut short.  A restart makes this true at once:
  nothing is in the index and there is no task (`EmptyAtStart`).

* `DropsSucceed`, `KeysStayTogether`, `MarksAlwaysResolve`, `AssociationsCurrent`,
  `AllAssociated` (`AssociationStoreProofs`): `AssertionsHold`, `KeysInPairs`,
  `MarksResolve`, `CurrentUnlessMet`, `AssociatedWhenDone`, from one invariant.
  `ThreadsOK`: no two threads have one document.  `PairsMet`: two threads at one pair
  are in `met`; so a thread whose pair is not finds the key it saw (`MarksOK`).
  `KeysOK`: one key of a pair is without the other only where a thread is about to
  write it or the drop to remove it.  `CurrentOK`: what is stored, and what a thread
  has in hand, is of the present texts, since texts change only when no thread is at
  work and the keys of the document are gone.  `DoneOK`: what a thread has been
  through is saved, unless it has no room for more; and what it counts as saved are
  different documents with a key, so that a full thread has left its document with as
  many associations as a search makes.  Associations are not removed while threads are
  at work, so the number stays when the thread has gone (a subset of a finite set has no
  more elements).

* `RequestsAnswered` (`AssociationStoreProofs`): `ReadersAnswered`, from the invariant
  above and `ReaderOK`: the documents of a reader that was not disturbed are stored in
  the versions it began with, and there is a key for each pair it has still to read.  A
  reader that found the letter `x` reads the reverse key in a later step.  If the letter
  is still there then, `KeysOK` says that the passages are under the reverse key: no
  thread is between the two writes (`Marking`) and no drop between the two removals
  (`Unmarking`).  What comes of parsing the letter has then three causes only: the reader
  was disturbed, both keys hold the letter, or one holds what a search has made of that;
  the last two only for pairs in `met`.
* `NoneLoadedTwiceOrMissed` (`LoaderProofs`): `LoadsEachOnce`.  `OrderOK`: what is created
  rises, the rest of the page lies behind it and the next page behind both.  `NoneMissed`:
  a document that was there all the time is created, lost, on the page or at the cursor
  and behind it.
* `ListIsOfTheField`, `SelectedIsShown`, `DocumentGoneToIsShown`,
  `WindowComparesItsMatch` (`WebInterfaceProofs`): `ListFitsField`, `ShownIsSelected`,
  `GoToShows`, `WindowShowsMatch`.  These speak of the time when nothing is under way.
  The invariant `Coming` speaks of the time before: as long as answers come in order,
  what is not yet as it should be will be made so by the `Latest` request of its kind.
  An answer to a list selects a row and asks for its document behind everything else, so
  a new `Latest` takes over.  `GoalComing` needs that a page begins with the document
  whose key is its cursor.
* `ListingsAnswer`, `OrderedKeysAgree`, `NextPageAdvances`, `FollowingMeetsAll`,
  `PagesBehindAreRight` (`DocumentQueryProofs`): `ListingAnswers`, `OrderedAgrees`,
  `PagesAdvance`, `PagesCoverAll`, `PagesFromBehind`.  The first two hold for all
  constants.  The last three assume `Plain`, values without characters that are encoded;
  `query_escaped` shows what happens without.  They hold for any forms: the walks during
  which a form leaves an ordered key behind, or that begin with one left over, are `torn`.
  `FollowingMeetsAll` assumes `LimitsPositive`: a limit of 0 is accepted, and lists
  nothing.  The invariants: `LeftOK`, for `OrderedKeysAgree`: what is written is the rest
  of a form (`Gave`), and a key of the document that is not of its value was superseded
  before or is among what the form has given, which is superseded or the form's last.
  `KeysOK`: the items have their ordered keys, but for the one being written, and while
  no key is left over these are all (`Kept`).  `UntornOK`: while no key is removed, what
  is listed stays and is what is read.  `BeyondOK`: the link to the next page is behind
  the page.
  `AheadOK`: documents that stay and have not been met lie ahead of wherever the request
  is.  `BehindOK`: while nothing is written, the cursors found from behind are still the
  ones that a walk from behind finds; that they are the right ones is counting
  (`LastIsEnd`, `PreviousIsBefore`).
* `LongestPassagesFound` (`SearchingProofs`): `PassagesAreLongestCommon`.  Run after run
  is taken from the equal windows, from any position of the first window on.
  `MatchOK`: with a window all that follow it on its diagonal are left, so what is left
  is whole runs; and the passages found are those of the runs that were taken.  In
  the end nothing is left, and these are all of them.
* `SharersAreCounted` (`SearchingProofs`): `SearchFindsAll`.  `TallyOK` says what a tally
  knows after a position: its last hit, modulo the byte; that the differences of a run of
  hits are ones; and that it has counted if there has been a run of `RunLength + 1` hits
  anywhere before.  The theorem assumes `NoHashIsBlank`: a window that is not blank may
  happen to have the hash of blank ones, and is then not looked up (posting.cc:369).
* `BestMatchesTaken`, `PassagesReadBothWays` (`SearchingProofs`): `BestAreAssociated`,
  `SameFromBothEnds`.  `RankOK`: what is still to be compared is in order and counts no
  more than what was associated, and what was counted is associated, still to be compared
  or without a passage.  The second is then a fact about two texts: when no hash is passed
  over, or the texts are not equally long, the pairs of equal windows are those of the
  two texts the other way round, mirrored, and so are the longest runs (`OtherWayRound`).

The inductive invariants were checked with TLC on instances of `queue_client`,
`queue_races`, `slots`, `postline`, `assoc_threads`, `crashes`, `loader`, `web`,
`query_pages` and `searching` before they were proved.

Only model-checked:

* liveness under fairness, which is out of the prover's reach: `EveryCommandFinishes`,
  `EveryPayloadFreed`, `LoadEnds`, `MasksLift`;
* the two properties of which a run shows that the code violates them.

## 5. Not modelled

* Automatic docids (document.cc:346-364): a counter for each doctype that passes over
  the docids of stored documents, not those of additions that are still queued, so that
  an automatic docid may be one a client has named just before; no property covers
  it.  The other hazard of `PROJECT.json` without a property is the association of a
  missing document, which needs none to be seen (section 3).
* Searches of request threads on an index with a document that is being dropped
  (search.cc:58): `CommandQueue` has the searches of commands, `IndexSlots` has those
  of request threads on the index alone.
* In the web interface: the grids of status and performance, which poll every two
  seconds and start one more poll each time their tab is activated; the paging of the
  index, the queue and the fragments.
* Instrumentation, histograms and counts: lists of numbers for display.
* A page of the queue with a limit of 0 (queue.cc:79, where the count wraps around).
* Flags, logging, templates, static files: input and output without state of their own.
* The arithmetic of hashes (`common.h`): a hash is any function of a window here.
* Vendored code: Kyoto Cabinet and Tycoon, JsonCpp, gflags, RE2 and ExtJS are
  external, modelled where the code relies on them.
