SPECIFICATION Spec
CONSTANTS
  d1 = d1
  d2 = d2
  Docs = {d1, d2}
  NoDoc = NoDoc
  TargetDocs = {d1, d2}
  Letters <- MCLetters
  Marks <- MCMarks
  Blank <- MCBlank
  WindowSize = 3
  BlankLimit = 2
  PostingThreshold = 2
  Hash <- MCHash
  WhiteSpaceHash = WhiteSpaceHash
  StoredTexts <- MCStoredTexts
  RunLength = 2
  Modulus = 3
  NumResults = 1
CHECK_DEADLOCK FALSE
INVARIANTS SearchFindsAll BestAreAssociated SameFromBothEnds PassagesAreLongestCommon
