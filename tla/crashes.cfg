SPECIFICATION CrashFairSpec
CONSTANTS
  Handlers = {h1}
  Processor = processor
  Docs = {d1, d2}
  Texts = {t1}
  Hashes <- MCHashes
  PostingHashes <- MCPostingHashes
  SlotOf <- MCSlotOf
  SlotCount = 1
  HighWater = 1
  LowWater = 1
  Served = {"POST", "DELETE", "associate"}
  MaxQueueId = 2
  MaxPayloadId = 3
  NoDoc = NoDoc
  NoText = NoText
  NoCommand = NoCommand
  NoTask = NoTask
CHECK_DEADLOCK FALSE
INVARIANTS UnfinishedHavePayload SettledIndexIsStored
PROPERTIES FinishedIsFinal EveryCommandFinishes
