SPECIFICATION Spec
CONSTANTS
  Docs <- MCDocs
  Moving <- MCMoving
  PageSize = 2
  MaxAttempts = 2
INVARIANTS LoadsEachOnce
PROPERTIES LoadEnds
