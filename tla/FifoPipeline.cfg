CONSTANTS
  Kinds = {"plain", "text", "exit", "foreign"}
  MaxMessages = 2
  MaxLines = 2
SPECIFICATION FairSpec
INVARIANTS TypeOK WaitJustified
PROPERTIES ChannelSpec MessagesArrive ShutdownEnds
