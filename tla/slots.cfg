SPECIFICATION FairSpec
CONSTANTS
  d1 = d1
  d2 = d2
  Searchers = {q1, q2}
  Docs = {d1, d2}
  Hashes <- MCHashes
  PostingHashes <- MCPostingHashes
  SlotOf <- MCSlotOf
  SlotCount = 2
  MaxTasks = 2
  MaxSearches = 2
CHECK_DEADLOCK FALSE
INVARIANTS PayloadOutlivesTasks SearchSeesOneMoment SettledIsExact
PROPERTIES EveryPayloadFreed
