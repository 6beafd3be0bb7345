SPECIFICATION Spec
CONSTANTS
  d1 = d1
  d2 = d2
  d3 = d3
  Docs <- MCThreeDocs
  Matches <- MCMatches
  Threads = {t1, t2}
  NumResults = 1
  Ranges <- MCRanges
  Mark = Mark
  Garbage = Garbage
  Nothing = Nothing
  NoDoc = NoDoc
  Readable = {d1}
  MaxRead = 2
  MaxVersion = 4
  MaxKills = 1
SYMMETRY MCSymmetry
CHECK_DEADLOCK FALSE
INVARIANTS AssertionsHold KeysInPairs CurrentUnlessMet MarksResolve ReadersAnswered
PROPERTIES AssociatedWhenDone
