CONSTANTS
  Contents <- MCContents
  MaxLines = 2
  MaxEdits = 2
  NewTexts <- MCNewTexts
  Current = "current"
  Hidden = "hidden"
  Closed = "closed"
  Absent = "absent"
  MaxOps = 2
  Labels <- MCLabels
  Texts <- MCTexts
  WordCharacters = {"a", "b"}
  MaxSymbols = 2
  Length = 4
  Width = 3
  ModesGiven = {"<a-i>", "[", "}"}
  MaxCount = 2
  Servers = {"s1", "s2"}
  Files = {"f", "g", "log"}
  Log = "log"
  Patterns = {"all", "some", "braces"}
  Braces = {"braces"}
  Matches <- MCMatches
  MaxChanges = 2
  MaxRegistrations = 2
  ChannelSize = 1
  Ids = {1, 2}
  Tokens = {"t1", "t2"}
  Clients = {"c1", "c2"}
  Buffers = {"b1", "b2"}
  MaxLists = 2
  MaxLength = 1
  MaxVersion = 2
  MaxChoices = 1
  LineNumbers = {0, 1}
  Reports <- MCReports
  LensLines = {{}, {0, 1}}
  MaxDiagnostics = 2
  MaxVersions = 2
  First = "s1"
  Actions <- MCActions
  Resolvers = {"s2"}
  MaxRevision = 3
SPECIFICATION Spec
INVARIANTS EditsAreMeant PositionsAgree  SymbolsFound ChangesAreTold MessagesAnswered HourglassOnlyWhenBusy EditsOfAccepted DiagnosticsShown ActionsAreDone
CHECK_DEADLOCK FALSE
