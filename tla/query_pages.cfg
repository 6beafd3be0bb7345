SPECIFICATION Spec
CONSTANTS
  Docs <- MCDocs
  DocType <- MCDocType
  Sections <- MCSections
  Values <- MCValues
  Forms <- MCForms
  Escape <- MCPlain
  Requests <- MCRequests
  Moving <- MCMoving
  MaxWrites = 1
CHECK_DEADLOCK FALSE
INVARIANTS OrderedAgrees ListingAnswers PagesCoverAll
PROPERTIES PagesAdvance PagesFromBehind
