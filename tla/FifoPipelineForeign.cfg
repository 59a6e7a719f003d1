CONSTANTS
  Kinds = {"plain", "text", "exit", "foreign"}
  MaxMessages = 1
  MaxLines = 1
SPECIFICATION FairSpec
PROPERTIES WorkerStops
