CONSTANTS
  Capacity = 1
  PipeSize = 1
  MaxCalls = 6
  MaxEvents = 1
SPECIFICATION FairSpec
INVARIANTS TypeOK HeardAtEof ReceivedAtEnd
PROPERTIES CallsGetAnswered StopEnds
