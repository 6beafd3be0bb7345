SPECIFICATION LineSpec
CONSTANTS
  Doctypes <- MCDoctypes
  Docids <- MCDocids
  Base = 2
  MaxLineLength = 30
  NoEntry = NoEntry
INVARIANTS LineEncodesDocuments LineFits
