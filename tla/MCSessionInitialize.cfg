CONSTANTS
  n1 = n1
  n2 = n2
  r1 = r1
  r2 = r2
  fileA = fileA
  fileB = fileB
  Name <- TwoNames
  Root <- BothRoots
  Buffer <- BothBuffers
  RootOf <- OwnRoots
  NamesOf <- OwnNames
  SingleInstance <- OneName
  Fragile <- Other
  Asked = {"request"}
  MaxVersion = 2
  MaxSends = 4
  MaxRestarts = 1
SPECIFICATION Spec
INVARIANTS InitializeFirst
