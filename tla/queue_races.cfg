SPECIFICATION Spec
CONSTANTS
  t1 = t1
  Handlers = {h1, h2}
  Processor = processor
  Docs = {d1, d2}
  Texts = {t2}
  Hashes <- MCHashes
  PostingHashes <- MCPostingHashes
  SlotOf <- MCSlotOf
  SlotCount = 2
  HighWater = 1
  LowWater = 0
  Served = {"POST", "PUT", "DELETE", "associate", "associate all", "load"}
  MaxQueueId = 2
  NoDoc = NoDoc
  NoText = NoText
  NoCommand = NoCommand
  NoTask = NoTask
SYMMETRY MCSymmetry
CHECK_DEADLOCK FALSE
INVARIANTS PayloadsMatchCommands OneCommandInHand IndexSettled AssociationsSound
