SPECIFICATION Spec
CONSTANTS
  Docs <- MCDocs
  DocType <- MCDocType
  Orders = {"doctype", "title"}
  Key <- MCKey
  DefaultOrder = "doctype"
  Filters <- MCFilters
  Matches <- MCMatches
  Invalid = Invalid
  NoDoc = NoDoc
  NoWindow = NoWindow
  PageSize = 2
  MaxInFlight = 2
INVARIANTS ListFitsField ShownIsSelected GoToShows WindowShowsMatch
PROPERTIES MasksLift
