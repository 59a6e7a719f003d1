CONSTANTS
  Current = "current"
  Hidden = "hidden"
  Closed = "closed"
  Absent = "absent"
  MaxOps = 2
SPECIFICATION Spec
INVARIANTS AbortKeeps
