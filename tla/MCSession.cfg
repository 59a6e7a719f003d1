CONSTANTS
  n1 = n1
  n2 = n2
  r1 = r1
  r2 = r2
  fileA = fileA
  fileB = fileB
  Name <- TwoNames
  Root <- BothRoots
  Buffer <- BothBuffers
  RootOf <- OwnRoots
  NamesOf <- OwnNames
  SingleInstance <- OneName
  Fragile <- Other
  Asked = {"request", "resolve"}
  MaxVersion = 3
  MaxSends = 5
  MaxRestarts = 1
SPECIFICATION MCSpec
INVARIANTS TypeOK Mirror DidOpenFirst InSync TextInSync WaitsForUpdate
PROPERTIES ParkedServed VersionsGrow
