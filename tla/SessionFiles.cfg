CONSTANTS
  MaxStarts = 4
  MaxFaults = 1
  MaxSignals = 2
  Externals = {1}
  DuringEnd = FALSE
SPECIFICATION FairSpec
INVARIANTS NothingLeft Reachable
PROPERTIES OnlyOwn ExitIsComplete EditorGoesOn
CHECK_DEADLOCK FALSE
