SPECIFICATION Spec
CONSTANTS
  d1 = d1
  d2 = d2
  d3 = d3
  Docs <- MCTwoDocs
  Matches <- MCOneMatch
  Threads = {t1, t2}
  NumResults = 1
  Ranges <- MCAll
  Mark = Mark
  Garbage = Garbage
  Nothing = Nothing
  NoDoc = NoDoc
  Readable = {}
  MaxRead = 0
  MaxVersion = 2
  MaxKills = 0
CHECK_DEADLOCK FALSE
INVARIANTS CurrentFromBothEnds
