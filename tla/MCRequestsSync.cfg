CONSTANTS
  s1 = s1
  s2 = s2
  completion = completion
  rangeFormatting = rangeFormatting
  Server <- MCServer
  Key <- MCKey
  RangeKey <- MCRangeKey
  SyncKey <- MCRangeKey
  MaxSelections = 3
  MaxBatches = 3
  MaxRequests = 5
SPECIFICATION Spec
INVARIANTS SyncCallAttended
