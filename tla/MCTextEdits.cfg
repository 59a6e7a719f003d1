CONSTANTS
  Contents <- WideContents
  NewTexts <- Insertions
  MaxLines = 1
  MaxEdits = 1
SPECIFICATION Spec
INVARIANTS ColumnsAreCodeUnits
