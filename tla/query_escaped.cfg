SPECIFICATION Spec
CONSTANTS
  Docs <- MCDocs
  DocType <- MCDocType
  Sections <- MCSections
  Values <- MCValues
  Forms <- MCForms
  Escape <- MCBlank
  Requests <- MCRequests
  Moving <- MCMoving
  MaxWrites = 0
CHECK_DEADLOCK FALSE
INVARIANTS PagesCoverAll
