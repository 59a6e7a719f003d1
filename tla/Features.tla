------------------------------ MODULE Features ------------------------------
(***************************************************************************)
(* The parts of kakoune-lsp that share no state with each other.  Each     *)
(* behaviour is one of the part named at its beginning, with the variables *)
(* of the others out of use.                                               *)
(***************************************************************************)
EXTENDS Integers, Sequences, FiniteSets

\* Each is described in the modules that have it.
CONSTANTS
  Contents, MaxLines, MaxEdits, NewTexts,                         \* TextEdits
  Current, Hidden, Closed, Absent, MaxOps,                        \* WorkspaceEdits
  Labels, Texts, WordCharacters, MaxSymbols, Length, Width,       \* Symbols
  ModesGiven, MaxCount,
  Servers,                                                        \* the four below but Completion
  Files, Log, Patterns, Braces, Matches,                          \* FileWatch
  MaxChanges, MaxRegistrations, ChannelSize,
  Ids, Tokens,                                                    \* ServerMessages
  Clients, Buffers, MaxLists, MaxLength, MaxVersion, MaxChoices,  \* Completion
  LineNumbers, Reports, LensLines, MaxDiagnostics, MaxVersions,   \* Diagnostics
  First, Actions, Resolvers, MaxRevision                          \* CodeActions

ASSUME FeaturesAssumption == MaxVersion \in Nat /\ MaxLength \in Nat

VARIABLES
  part,
  text, encoding, edits, client, answer,
  ops, done, disk, buffers, documents, command, told, applied, ran, typed, before,
  content, answers, selection, did,
  watcher, changed, raw, channel, informed, quiet, made, registered, ticks, panic,
  queue, bell, menus, asked, crossed, progress, working, created, hourglass,
  provider, version, at, window, lists, calls, items, toEditor, requests, resolving, edited,
  document, versions, diagnostics, lenses, knows, published, latest, options,
  able, revision, call, sent, toServer, unresolved, performed

ofTextEdits == <<text, encoding, edits, client, answer>>
ofWorkspaceEdits == <<ops, done, disk, buffers, documents, command, told, applied, ran, typed, before>>
ofSymbols == <<content, answers, selection, did>>
ofFileWatch == <<watcher, changed, raw, channel, informed, quiet, made, registered, ticks, panic>>
ofMessages == <<queue, bell, menus, asked, crossed, progress, working, created, hourglass>>
ofCompletion ==
  <<provider, version, at, window, lists, calls, items, toEditor, requests, resolving, edited>>
ofDiagnostics == <<document, versions, diagnostics, lenses, knows, published, latest, options>>
ofCodeActions == <<able, revision, call, sent, toServer, unresolved, performed>>

vars ==
  <<part, ofTextEdits, ofWorkspaceEdits, ofSymbols, ofFileWatch, ofMessages,
    ofCompletion, ofDiagnostics, ofCodeActions>>

\* A variable that is out of use.
Unused == 0

NoTextEdits ==
  /\ text = Unused /\ encoding = Unused /\ edits = Unused /\ client = Unused /\ answer = Unused
NoWorkspaceEdits ==
  /\ ops = Unused /\ done = Unused /\ disk = Unused /\ buffers = Unused /\ documents = Unused
  /\ command = Unused /\ told = Unused /\ applied = Unused /\ ran = Unused /\ typed = Unused
  /\ before = Unused
NoSymbols ==
  /\ content = Unused /\ answers = Unused /\ selection = Unused /\ did = Unused
NoFileWatch ==
  /\ watcher = Unused /\ changed = Unused /\ raw = Unused /\ channel = Unused /\ informed = Unused
  /\ quiet = Unused /\ made = Unused /\ registered = Unused /\ ticks = Unused /\ panic = Unused
NoMessages ==
  /\ queue = Unused /\ bell = Unused /\ menus = Unused /\ asked = Unused /\ crossed = Unused
  /\ progress = Unused /\ working = Unused /\ created = Unused /\ hourglass = Unused
NoCompletion ==
  /\ provider = Unused /\ version = Unused /\ at = Unused /\ window = Unused /\ lists = Unused
  /\ calls = Unused /\ items = Unused /\ toEditor = Unused /\ requests = Unused
  /\ resolving = Unused /\ edited = Unused
NoDiagnostics ==
  /\ document = Unused /\ versions = Unused /\ diagnostics = Unused /\ lenses = Unused
  /\ knows = Unused /\ published = Unused /\ latest = Unused /\ options = Unused
NoCodeActions ==
  /\ able = Unused /\ revision = Unused /\ call = Unused /\ sent = Unused
  /\ toServer = Unused /\ unresolved = Unused /\ performed = Unused

TextEdit == INSTANCE TextEdits
WorkspaceEdit == INSTANCE WorkspaceEdits
Symbol == INSTANCE Symbols WITH text <- content
Watch == INSTANCE FileWatch WITH told <- informed
Message == INSTANCE ServerMessages
Completing == INSTANCE Completion
Diagnostic == INSTANCE Diagnostics WITH Lines <- LineNumbers
CodeAction == INSTANCE CodeActions WITH
  version <- revision, asked <- sent, resolving <- unresolved, made <- performed,
  MaxVersion <- MaxRevision

\* A line ends before the column that stands for its end.
ASSUME PositionsAssumption ==
  /\ MaxLines \in Nat
  /\ \A c \in Contents : /\ c \in Seq({TextEdit!Narrow, TextEdit!Wide})
                         /\ TextEdit!BytesOf(c) < TextEdit!EolOffset

\* There is a server; lines are counted from zero; severities are those of LSP, or none.
ASSUME DiagnosticsAssumption ==
  /\ Servers # {} /\ MaxDiagnostics \in Nat
  /\ Reports \subseteq Nat \X Nat \X (0..4)
  /\ \A lines \in LensLines : IsFiniteSet(lines) /\ lines \subseteq Nat

ASSUME ActionsAssumption == \A s \in Servers : Actions[s] \subseteq CodeAction!Offers(s)

Parts == {"text edits", "workspace edits", "symbols", "file watch", "messages", "progress",
          "completion", "diagnostics", "code actions"}

Init ==
  /\ part \in Parts
  /\ IF part = "text edits" THEN TextEdit!Init ELSE NoTextEdits
  /\ IF part = "workspace edits" THEN WorkspaceEdit!Init ELSE NoWorkspaceEdits
  /\ IF part = "symbols" THEN Symbol!Init ELSE NoSymbols
  /\ IF part = "file watch" THEN Watch!Init ELSE NoFileWatch
  /\ IF part \in {"messages", "progress"} THEN Message!Init ELSE NoMessages
  /\ IF part = "completion" THEN Completing!Init ELSE NoCompletion
  /\ IF part = "diagnostics" THEN Diagnostic!Init ELSE NoDiagnostics
  /\ IF part = "code actions" THEN CodeAction!Init ELSE NoCodeActions

Next ==
  \/ /\ part = "text edits" /\ TextEdit!Next
     /\ UNCHANGED <<part, ofWorkspaceEdits, ofSymbols, ofFileWatch, ofMessages,
                    ofCompletion, ofDiagnostics, ofCodeActions>>
  \/ /\ part = "workspace edits" /\ WorkspaceEdit!Next
     /\ UNCHANGED <<part, ofTextEdits, ofSymbols, ofFileWatch, ofMessages,
                    ofCompletion, ofDiagnostics, ofCodeActions>>
  \/ /\ part = "symbols" /\ Symbol!Next
     /\ UNCHANGED <<part, ofTextEdits, ofWorkspaceEdits, ofFileWatch, ofMessages,
                    ofCompletion, ofDiagnostics, ofCodeActions>>
  \/ /\ part = "file watch" /\ Watch!Next
     /\ UNCHANGED <<part, ofTextEdits, ofWorkspaceEdits, ofSymbols, ofMessages,
                    ofCompletion, ofDiagnostics, ofCodeActions>>
  \/ /\ part = "messages" /\ Message!NextMessage
     /\ UNCHANGED <<part, ofTextEdits, ofWorkspaceEdits, ofSymbols, ofFileWatch,
                    ofCompletion, ofDiagnostics, ofCodeActions>>
  \/ /\ part = "progress" /\ Message!NextProgress
     /\ UNCHANGED <<part, ofTextEdits, ofWorkspaceEdits, ofSymbols, ofFileWatch,
                    ofCompletion, ofDiagnostics, ofCodeActions>>
  \/ /\ part = "completion" /\ Completing!Next
     /\ UNCHANGED <<part, ofTextEdits, ofWorkspaceEdits, ofSymbols, ofFileWatch,
                    ofMessages, ofDiagnostics, ofCodeActions>>
  \/ /\ part = "diagnostics" /\ Diagnostic!Next
     /\ UNCHANGED <<part, ofTextEdits, ofWorkspaceEdits, ofSymbols, ofFileWatch,
                    ofMessages, ofCompletion, ofCodeActions>>
  \/ /\ part = "code actions" /\ CodeAction!Next
     /\ UNCHANGED <<part, ofTextEdits, ofWorkspaceEdits, ofSymbols, ofFileWatch,
                    ofMessages, ofCompletion, ofDiagnostics>>

Spec == Init /\ [][Next]_vars

\* Text edits of a server leave in a buffer or a file what they mean (text_edit.rs).
EditsAreMeant == part = "text edits" => TextEdit!EditsAreMeant

\* A position or range means the same place to the editor and to a server, but for
\* columns in code units that are taken for the end of the line (position.rs).
PositionsAgree == part = "text edits" => TextEdit!PositionsAgree

\* Workspace edits leave files and buffers as if made one after the other
\* (workspace.rs).
AppliedAsMeant == part = "workspace edits" => WorkspaceEdit!AppliedAsMeant

\* The next or previous symbol is the nearest in the first answer that has symbols, unless
\* an empty one came before it; a name is found where it is, or at the end of a longer
\* word; breadcrumbs lead to the innermost symbol; lsp-object with a count does what it
\* does when repeated (document_symbol.rs).
SymbolsFound ==
  part = "symbols" =>
    /\ Symbol!NothingToSearch /\ Symbol!NextIsNearest /\ Symbol!FoundIsNamed
    /\ Symbol!BreadcrumbsLead /\ Symbol!ObjectAsRepeated

\* Servers are told of every change they watch for, and the log does not keep them
\* busy (text_sync.rs).
ChangesAreTold == part = "file watch" => Watch!ChangesAreTold

\* Each message request gets one answer, its own, once it was shown (show_message.rs).
MessagesAnswered == part = "messages" => Message!MessagesAnswered

\* The hourglass goes away when the servers' work ends (progress.rs).
HourglassOnlyWhenBusy == part = "progress" => Message!HourglassOnlyWhenBusy

\* The edits made for an accepted completion item are its own (completion.rs).
EditsOfAccepted == part = "completion" => Completing!EditsOfAccepted

\* A buffer shows what all servers said of it, and for the version they said it of
\* (diagnostics.rs).
DiagnosticsShown == part = "diagnostics" => Diagnostic!DiagnosticsShown

\* A code action is done as a whole and by its server, and servers are asked about the
\* text as it is (code_action.rs).
ActionsAreDone == part = "code actions" => CodeAction!ActionsAreDone

=============================================================================
