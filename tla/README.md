# kakoune-lsp in TLA+

A model of kakoune-lsp (`kak-lsp`), the program between the Kakoune editor and
language servers, at the level of its event loop, threads and queues. The modules
are written from the Rust code under `src/` and the plugin `rc/lsp.kak`; where a
comment below gives a line, it is a line of those files.

* `PROJECT.json` lists the components, the runs, the theorems, the hazards and, for
  every definition, the lines of code it stands for.
* `tlc -config X.cfg M` checks a run, `tlapm MProofs.tla` checks the proofs about `M`.

## 1. The system

One `kak-lsp` process serves one Kakoune session.

| Component | State it keeps | Operations | Talks to |
|---|---|---|---|
| Editor plugin (`rc/lsp.kak`) | per buffer: `timestamp`, `lsp_timestamp`, what is on disk | hooks (open, idle, save, close), commands, synchronous commands, restart | writes the command fifo and the buffer fifo; reads `kak -p` commands and response fifos |
| Inbound transport (`controller.rs` 54-331, 749-897) | `command_buffer`, `text_buffer`, `force_exit`, `FIFO_READER_DONE` | reader thread, parser thread | channel to the event loop |
| Event loop (`controller.rs` 899-1216) | `Context` | one turn for each editor request, server message, timer, file event | everything |
| Routing and start (`controller.rs` 1217-1637, `capabilities.rs` 18-450) | `language_servers`, `route_cache`, tombstones, `pending_requests` | route, start, initialize, park, flush | servers, document sync |
| Document sync (`text_sync.rs`, `ensure_did_open`) | `documents`, `pending_requests_from_future` | didOpen, didChange, didClose, didSave | servers |
| Requests and batches (`context.rs`, `controller.rs` 1051-1191) | `batches`, `batch_sizes`, `response_waitlist`, `outstanding_requests` | call, cancel, success, failure | servers, features (callbacks) |
| Server transport (`language_server_transport.rs`, `thread_worker.rs`) | three threads and two bounded channels for each server | read, write, join | child process |
| Outbound transport (`editor_transport.rs`, `ResponseFifo`) | bounded channel | `kak -p`, response fifos | editor |
| Process and files (`main.rs`) | session directory, symlink, fifos, pid file | start, clean-up, panic hook | editor |
| Features (`language_features/*`, `diagnostics.rs`, `progress.rs`, `show_message.rs`, `workspace.rs`) | completion items, diagnostics, progress tokens, message requests, file watchers | one batch each, callbacks that format editor commands | event loop |
| Pure parts (`text_edit.rs`, `position.rs`, `markup.rs`, tokenizer) | none | conversions | features |

What is hard: three threads share buffers under mutexes and condition variables;
two fifos are read independently but must be paired; requests wait in three places
(a starting server, a future text, an answer) and come out in different orders;
the same request is repeated while the last one is unanswered; one server of
several fails; panics, the idle timeout and dead servers end the process at any
point and the next message starts one that knows nothing; and an editor in a
synchronous command waits for every mistake made here.

What makes each part correct:

* requests: the bookkeeping in four maps and the slots agree; a callback sees
  exactly the results it should; every call ends; a repeated request is neither
  starved nor left running more than twice;
* session: servers have the documents kak-lsp has, kak-lsp has what the editor told
  it, nothing is sent for a document that is not open, requests wait only for what
  will come;
* inbound transport: the two fifos and two threads are one fifo channel of complete
  messages; nobody sleeps with work to do; the threads stop;
* server transport: no message is lost between the threads, no cycle of full channels
  and pipes, and every shutdown ends with all threads joined and the server gone;
* session files: whoever ends removes its own files and all of them, whoever runs can
  be found, and the editor's polling loops end;
* features: what is rendered or edited is what the servers meant, for the document
  they meant, in spite of several servers, late answers, and conversions between
  three ways to count columns.

## 2. Modules

| Module | Models | Status |
|---|---|---|
| `Requests` | `context.rs` 181-500, answers in `controller.rs` 1051-1191 | modelled, checked, proved |
| `RequestsProofs` | theorems about `Requests` | proved |
| `Session` | editor hooks, routing, initialize, parking, document sync, restarts | modelled, checked, proved |
| `SessionProofs` | theorems about `Session` | proved |
| `FifoPipeline` | fifos, reader, parser, event loop exit, joins | modelled, checked, proved |
| `EditorChannel` | what the inbound transport promises; `FifoPipeline` implements it | abstract specification |
| `FifoPipelineProofs` | theorems about `FifoPipeline` | proved |
| `ServerTransport` | threads, channels and pipes of a server, its end and that of the process | modelled, checked, proved |
| `ServerTransportProofs` | theorems about `ServerTransport` | proved |
| `SessionFiles` | files of the session, start and clean-up in `main.rs`, `lsp-start`, `lsp-exit`, `lsp-restart` | modelled, checked, proved |
| `SessionFilesProofs` | theorems about `SessionFiles` | proved |
| `ServerMessages` | `show_message.rs`, `progress.rs` | modelled, checked, proved |
| `FileWatch` | registrations, watcher, pending events in `text_sync.rs` and `controller.rs` | modelled, checked, proved |
| `Positions` | `position.rs` | operators, checked against a definition of places, proved |
| `TextEdits` | `text_edit.rs`: one document; extends `Positions` | checked against what edits mean; positions proved |
| `WorkspaceEdits` | `workspace.rs`, and where edits go | modelled, checked, proved |
| `Symbols` | `document_symbol.rs` | checked against what the commands promise |
| `Completion` | `completion.rs`, the menu in `lsp.kak` | modelled, checked, proved |
| `Diagnostics` | `diagnostics.rs`, `code_lens.rs` | modelled in part, checked, proved |
| `CodeActions` | `code_action.rs`, `lsp-code-actions` in `lsp.kak` | modelled, checked, proved |
| `CodeActionsProofs` | theorems about `CodeActions` | proved |
| `Features` | all of `ServerMessages`, `FileWatch`, `TextEdits`, `WorkspaceEdits`, `Symbols`, `Completion`, `Diagnostics`, `CodeActions`, one of them in each behaviour | composition |
| `FeaturesProofs` | theorems about `Features`: messages, progress, completion, file watching, code actions, workspace edits | proved |
| `DataProofs` | theorems about `Features`: diagnostics, positions | proved |
| `MCRequests`, `MCSession`, `MCTextEdits`, `MCFeatures` | instances for TLC | |

### Requests

A *key* stands for the triple (method, buffer, client) by which
`outstanding_requests` is keyed besides the server. `BatchCall` is `Context::call`
and the head of `batch_call`; each iteration of its loop, which numbers a request,
enters it into the waitlist and possibly cancels another, is a `SendRequest`. While
the loop is under way (`sending.ops # <<>>`) nothing else of kak-lsp happens, but
time passes for the reader of a behaviour, not for the event loop: answers are
taken only when it is idle. `Success` and `Failure` are the two arms of
`ServerMessage::Response`, with the early `continue` for canceled requests and
missing batches in `IgnoredAnswer`. `OpLists` says what calls exist: one request
for each of some servers (`RequestParams::All` and most uses of `Each`), or, for
range formatting, one request per selection to a single server. A caller of a
synchronous key sends nothing until its call has ended. `calls` is a history
variable: what the caller asked for and what it got.

### Session

Texts are version numbers: a document is the version kak-lsp and the server call it
(`version`) and the one its text really is of (`text`); the two differ when the
text was read from the disk. The editor's actions are the hooks and commands of
`lsp.kak` with their guards (`lsp-if-changed-since`, `lsp-synchronously`). The
command fifo is reliable and in order here, which is what `FifoPipeline` is
about. Every `Receive...` action is one turn of `process_editor_request` with all
that it calls: routing, starting servers, parking, dispatching with
`ensure_did_open`; the two drains inside a turn (`pending_requests` after
initialize, `pending_requests_from_future` after a newer text) take one step per
request, with `turn` keeping everything else out. Servers are named by the address
(name, root) they were started for. `Panic` and `Die` lose all of kak-lsp's state
and what it had not read; the editor's side stays.

`view` (what each server has been told) , `early`, `unopened` and `told` are history
variables.

### FifoPipeline and EditorChannel

A command is one token and a text is two cells per line, so that a text may be read
half-way through a line. Reader, parser and event loop are three processes. Every
step of theirs that another one can observe is a step here: finding the buffer empty
under the mutex (`AtEnd`) and releasing it by waiting (`Wait`) are separate steps
with the mutex held between them, appending to a buffer and notifying are separate
steps, setting `force_exit` and notifying are separate steps. `Poll` is `mio`'s
poll over the waker and both fifos. The event loop is modelled as far as it can be
left: at `kakoune/exit`, at a message of another session, or by a forced exit (idle
timeout, dead server, dead file watcher), followed by the joins of the parser and
the reader, in the order in which the workers are dropped.

`EditorChannel` is a fifo channel of whole messages, of which some (those whose
options do not parse) are refused. The refinement mapping takes the messages sent
and not yet parsed for its queue.

### ServerTransport

The writer (`writer_loop` and the `wait` for the child), the reader, the reader of
standard error and the thread that runs `kak -p` are processes, and so is the event
loop as far as it touches them: it sends (and waits for room in the bounded channel),
receives from the unbounded one, leaves its loop when a channel from a server is
closed and empty, sends the exit notification, and joins the threads in the order in
which the fields of `LanguageServerTransport` are dropped (`DropOrder`). Log messages
take room in the channel of the editor transport, of which other servers have some
already. Pipes have a capacity; writing to the pipe of a dead server kills the process
(SIGPIPE is handled like SIGTERM, `main.rs` 767). The server is external: it may die
at any time or send nonsense, after which the reader gives up and what follows is lost.
`count` is a history variable: how many messages got past which point.

### SessionFiles

Every system call of `run_main` that makes or removes a file is a step, in the order of
`Startup` and of `DropOrder` (the fields of `SessionDirectory`). What has been noted for
removal (`Recorded`) depends on the step reached; what a process that ends has still to remove
is the set `left`, taken from in that order (`NextToDrop`). A step may fail; a process may panic,
be killed or get signals, in `do_cleanup` as well, where a second one in the same thread
waits for a mutex it holds (`"stuck"`). The editor runs one command at a time:
`lsp-start` waits for its child, then polls for the pid file; `lsp-do-send` opens the
fifo; `lsp-exit` and `lsp-restart` poll for the end of the directory.

### Text edits, positions, workspace edits

A text is a sequence of lines of characters that are one code unit and one byte wide,
or two units and four bytes; the operators of `Positions` go through ropes' indices as the code does.
`TextEdits` computes, for up to two edits, the commands for a buffer (sorted, coalesced,
minimized, redundant ones dropped, each as a selection and an insertion or change,
which `Run` executes as Kakoune does) and the new text of a file. For positions there is a
definition of what is meant, too: a *place* is a number of characters, `LspName` and
`KakouneName` are what the two sides call it, and `Clamp` is where the editor goes when it is
given a coordinate. `PositionsAgree` says that the conversions keep the place; its one
exception, `TakenForEnd`, is where the code compares code units with the number of characters
(`position.rs` 342), and a position is kept if and only if it is not one of these.
The run has no line with such a column, in which edits would be lost as well, as
`edits_utf16` shows; that the exception is exact is proved for any lines (section 4).
Edits of buffers and of files are both compared with
`Edited`, which says what a set of edits means without any of this. `WorkspaceEdits` is
about where edits go and when: operations one after the other; files edited on disk at
once; edits of open documents gathered in one command that the editor runs later, while
the user may type and save; the reply to the server. Whatever touches a file may fail
(`MayFail`: creating, removing and moving, but not what is ignored because the file exists,
nor the removal of a missing file), and moving a missing file does fail (`Fails`).
`MeantBy(n)` is what the first n operations mean. A failure ends the edit: what was done to
files stays, as `AppliedAsMeant` says, and what was gathered for buffers is thrown away,
which is not what the declared failure handling promises, as `edits_abort` shows.

### Symbols

An answer is a set of symbols with a parent, a range and a name that occurs in the text.
`Result` is the first answer of several; next and previous symbol, `lsp-object`,
breadcrumbs, the list, the menu and goto are operators on it, and an action each.
A kind of symbols that is unknown is an error for `lsp-object` and a panic, which aborts
the process, for next and previous symbol (`document_symbol.rs` 433 and 779), before any
answer is looked at.
The properties say what the commands promise: `NothingToSearch`, `NextIsNearest`,
`ObjectAsRepeated` (an object with a count is what that many repetitions select),
`BreadcrumbsLead`, `FoundIsNamed`; `SymbolsFound` is their conjunction. They speak of the
first answer that has symbols (`FirstNonEmpty`), and are worded around what the code does
not do:

* it takes the first answer there is, although the comments (48, 83) say the first
  non-empty one: when that is an empty list, nothing is found whatever the other servers
  know (`EmptyFirst`);
* a name is looked for with a boundary behind it, not before it: `ab` is found in the `aab`
  of the run's second text. `FoundIsNamed` says that the name is not the beginning of a
  longer word; it may be the end of one, and a name in which the first character recurs may
  be missed;
* children before their parents, or siblings that overlap, are found out of order
  (`InOrder`).

### FileWatch, ServerMessages

`FileWatch` has the file system, the debouncer, the worker's bounded channel and the
event loop with its pending events and one-second tick, which any other event restarts.
A registration replaces the watcher and loses what it had. `ServerMessages` has two
machines without common state (`NextMessage`, `NextProgress`): the queue of message
requests with the editor's menus, and the life of progress tokens with the hourglass.
`asked`, `crossed`, `working` are history variables: what each request was answered,
whether a menu was answered in a buffer that other servers serve too, and which work a
server believes to be under way.

### Completion, Diagnostics

`Completion` keeps the items of the last list (`items`: its version, its client), the
lists on their way to the editor, what each window has in its options and menu, the
choices on their way back, and the resolve requests to servers. The editor may select,
accept and dismiss items while all of this is under way. In `window`, `choice`, `size`
and `astray` are history: what the user really chose, and whether the window's options or
hook are by then about something else. `EditsOfAccepted` says that edits made belong to
the chosen item, unless one of the three cases that the code cannot tell apart
occurred; the hazard at `completion.rs` 317 lists them.

`Diagnostics` follows one buffer through versions, closing and reopening. Servers publish
for the version they know; kak-lsp renders everything it has for the version it knows.
Rendered are counts, painted ranges in order of severity, the text of each line and the
flags of lines, merged with code lenses. `DiagnosticsShown` says what the buffer shows
once every server has published for the version at hand.

### CodeActions

One use of `lsp-code-actions` (or of its variants: with kinds, with a regex, `-sync`, from
the idle hook) in one buffer. `call` is what was asked and what became of it: the answers
so far, the round (a request within a line is repeated for whole lines when nobody has an
action), and the outcome: a menu, the indicator, an error, or one action that is done.
Doing an action means requests that the editor sends back (`toServer`): the edit, the
command, or the action itself to be resolved. Typing and the didChange after it are one
step, `Type`, which a synchronous request keeps from happening (`Blocked`). `asked` and
`made` are history: which ranges were sent in which version, and what was done in which.
A second use of the command only supersedes the first, which is what `Requests` is about.

`ActionsAreDone` joins five properties. `RangesAreCurrent` and `AskedAgainOnce` are about
what servers are asked, `KindsAsked` about whose offers the kinds bind, `ActionIsDone` says
that what is picked is done once, whole, edit before command, and by its server, and
`SyncIsCurrent` that a synchronous edit is made in the text it was asked about. They are
worded around what the code does not do:

* the kinds given to `lsp-code-actions` reach one server only (`mem::take`, 95), whichever
  comes first in a map, and none when the request is repeated; `lsp.kak` 921 says that only
  matching actions are shown;
* an edit is read with the encoding of the first server of the buffer, whoever offered it
  (`controller.rs` 1885);
* all servers are asked to resolve an action, and the first answer counts: a server that
  returns what it does not know would win over the one that does; here it answers with an
  error;
* the resolution of an action picked by a synchronous request is not synchronous, and the
  edits of a menu are made in whatever the text is by then;
* `-auto-single` is sent as a kind (`lsp.kak` 922), `auto_single` is always false.

## 3. Runs

| Run | Instance | Checks | States |
|---|---|---|---|
| `requests` | 2 servers; completion and range formatting; up to 3 selections, 3 batches, 5 requests | `TypeOK`, `OutstandingIsLive`, `OutcomeFaithful`, `OpenCallAttended`, `SupersededByLater`, `OldestSurvives`, `CallsEnd` | 106 824 |
| `requests_sync` | the same, range formatting synchronous | `SyncCallAttended` is violated | |
| `session` | 2 names, 2 roots, a file in each; one server shareable, one that may not start; 2 versions, 4 messages, 1 restart; as long as only the file with one server is opened, 3 versions, 5 messages until the restart, and requests that do not wait | `TypeOK`, `Mirror`, `DidOpenFirst`, `InSync`, `TextInSync`, `WaitsForUpdate`, `ParkedServed`, `VersionsGrow` | 565 502 |
| `session_initialize` | as `session`, without the longer behaviours | `InitializeFirst` is violated | |
| `session_restart` | as `session`, without the longer behaviours | `WaitsForEditor` is violated | |
| `fifo` | all kinds of message; 2 messages of up to 2 lines | `TypeOK`, `WaitJustified`, `ChannelSpec`, `MessagesArrive`, `ShutdownEnds` | 177 574 |
| `fifo_foreign` | 1 message | `WorkerStops` is violated | |
| `transport` | channels and pipes of size 1; 6 calls, 1 message or log line of the server's own | `TypeOK`, `HeardAtEof`, `ReceivedAtEnd`, `CallsGetAnswered`, `StopEnds` | 269 264 |
| `session_files` | 4 processes, 1 of them started outside the editor; 1 fault, 2 signals | `NothingLeft`, `Reachable`, `OnlyOwn`, `ExitIsComplete`, `EditorGoesOn` | 428 500 |
| `features` | one feature per behaviour, see below | `EditsAreMeant`, `PositionsAgree`, `AppliedAsMeant`, `SymbolsFound`, `ChangesAreTold`, `MessagesAnswered`, `HourglassOnlyWhenBusy`, `EditsOfAccepted`, `DiagnosticsShown`, `ActionsAreDone` | 921 259 |
| `edits_utf16` | one line with two characters of two code units | `ColumnsAreCodeUnits` is violated | |
| `edits_abort` | workspace edits of two operations, as in `features` | `AbortKeeps` is violated | |

Why the bounds are enough. *Requests*: a slot has two places, so the third request
of a kind is the first that displaces one; three batches of one kind, or three
selections, reach that; five requests leave room for answers and errors between,
and two servers for an error of one while the other still owes an answer.
*Session*: the smallest instance with a shared server, a start that fails after
another one succeeded, and an initialize batch of two; four messages allow an
open, an update and a request in both files, or any three with a restart between.
For a file alone at one server `WithinBounds` (`MCSession`) trades routing for length: three
versions make a version that is skipped, and a fifth message is one more to wait for it. Only
what the editor does is bounded, never a step that fairness is about. *FifoPipeline*: two texts of different length are needed to have newlines
in excess; the third message adds nothing the second does not, since the parser is
back at its first place after each.

*ServerTransport*: capacity 1 makes every channel and pipe full as soon as anything is in
it, which is the worst case for those who wait; six calls are more than channel, pipe and
hands of both directions can hold together, so that everyone who can block does.
*SessionFiles*: a server, a restart that meets its remains, and one more of each side; one
fault, because a second one is only another cause of the same removal; two signals,
because the second one meets the clean-up of the first.

*Features* has nine parts that share no variables: `part`, fixed in `Init`, names the one that a behaviour is about, the others' variables are out of use,
and each property speaks of its own part. `MCFeatures` and its configuration give them
their values: two edits in a text of up
to two lines, each empty or of a wide and a narrow character (two edits can touch, share a
line, or span lines; a line with *two* wide characters is what `edits_utf16` is about); workspace edits of two operations on a current, a hidden, a closed and a missing
file; answers of two symbols, which may be nested or siblings in any order, in a text of
four characters over two lines, counts up to two; two changes, two registrations and two
servers for watching; two servers with the same ids and tokens; two clients, two buffers,
two versions and two lists for completion (one list may be answered late, or asked for by
another client, or made for another version; a list has one item or none, as the index of a
choice is never changed on its way); two servers with two diagnostics in all, two lines,
two versions for diagnostics, severities that are lowest, highest and missing, and lenses
in no line or in all; two servers, one of which can resolve, and three versions for code
actions: one for the request, one for its repetition, one for the edit.

Deadlock is checked in `requests`, `session`, `fifo` and `transport`;
`Quiescent` in each of their modules names the states in which there is rightly nothing
to do within the bounds. In `session_files` all processes may have ended, and in
`features` a command may be done: there it is not.

### Fairness

* `Requests`: the loop of `batch_call` goes on, and a server answers each request it
  has been sent, canceled or not, as JSON-RPC demands. No fairness for new calls.
* `Session`: the event loop takes what there is to take and finishes its drains;
  servers answer `initialize`, with a result or an error. Nothing is assumed of the
  editor.
* `FifoPipeline`: each thread is scheduled and the editor finishes a text it has
  begun to write. Forced exits and new messages are never assumed.
* `ServerTransport`: each thread is scheduled, `kak -p` ends, and a server that lives
  reads, answers, and exits when its input is closed, which the code says it relies on
  (`language_server_transport.rs` 110). Nothing makes it die or say anything of its own.
* `SessionFiles`: processes and the shell loops of the editor are scheduled. No request,
  fault, timeout or signal is assumed.

### What the violated runs show

1. `requests_sync`: `:lsp-range-formatting-sync` with three selections blocks the
   editor. The third request displaces the second of the same call
   (`context.rs` 450-470), its answer is thrown away before it is counted
   (`controller.rs` 1057), and the callback that owns the response fifo is kept in
   `batches` for good, although `ResponseFifo`'s `Drop` (`types.rs` 297-305) is there
   to release a blocked editor. Asynchronous range formatting of three selections
   silently does nothing for the same reason; `OpenCallAttended` and
   `SupersededByLater` are worded to leave that case to this run.
2. `session_initialize`: `dispatch_pending_editor_requests` flushes everything that
   is parked as soon as any initialize batch is complete, so a server that is still
   being initialized gets `didOpen`; a parked `didSave` even panics
   (`text_sync.rs` 102). The comment at `controller.rs` 1221 promises otherwise.
3. `session_restart`: a request in a synchronized buffer that kak-lsp does not know,
   after a restart, goes to `pending_requests_from_future` before `ensure_did_open`
   can open the document, against the comment at `controller.rs` 2152; nothing gets
   it out before the next edit.
4. `fifo_foreign`: at a request that names another session the event loop breaks
   without `trigger_force_exit`, and the process waits for its parser forever.
5. `edits_utf16`: `lsp_character_to_byte_offset_utf_16` compares a column in code units
   with the number of characters of the line (`position.rs` 377), so an edit near the end
   of a line with two wide characters is refused, in a file and in a buffer, although
   `CHANGELOG.md` 348 says that columns are code units.
6. `edits_abort`: a workspace edit changes an open buffer, and an operation on a file that
   comes after it fails. `apply_edit` returns before it sends the gathered command
   (`workspace.rs` 359-368, 381), so the buffer is never changed, although failure handling
   is declared to be `Abort` (`capabilities.rs` 77), by which what comes before the failing
   operation stays executed. Operations on files that came before it do stay.

## 4. Proofs

Each module of proofs is about any values of the constants: any number of servers,
buffers, messages, processes, and channels of any size. Each has an inductive invariant,
shown to hold initially and to be kept by every action, and from which the properties of
the runs follow.

### Requests

`RequestsProofs` has three layers.

* `TypeInv` is `TypeOK` with `Known`: what is in the waitlist is in flight at exactly
  one server and belongs to a call that was made. Without it an answer could name a
  batch outside `calls`.
* `SlotsLive` is what `OutstandingIsLive` says of the slots. That a new request is
  different from the ones in its slot, and younger, follows from `TypeInv`: the live
  requests are in the waitlist, whose ids are below the request counter. `AddToSlot` and
  `RemoveFromSlot` are the lemmas about the two operations on slots.
* `CallsInv` is about the batches. For an open call and a server, the results at hand and
  those to come (`ToCome`: still to be sent by the loop, or in the waitlist and not
  canceled) never exceed the number expected, and are exactly as many unless the call is
  superseded (`AddsUp`); so a batch is complete exactly when nothing is to come.
  `WaitlistInv` says that only a superseded call has canceled requests, `SendingInv` what
  the loop of `batch_call` is about. `Complete` compares sums over the servers; what is
  needed of them (`SumsExist`, `SumsAgree` and what follows) is by induction over finite
  sets in first-order form: `WFMin`, that a nonempty set of naturals has a least member,
  takes the place of the library's induction theorems.

From them: `TypeCorrect`, `OutstandingCorrect` (`OutstandingIsLive`),
`CallbacksSeeWhatWasAsked` (`OutcomeFaithful`), `LastWordStands` (`SupersededByLater`),
`OpenCallsAreAttended` (`OpenCallAttended`), and `OldestIsKept` (`OldestSurvives`, an action
property): every safety property of the run. The assumption used is `RequestsAssumption`.

### Session

`SessionProofs` is about one queue for each buffer: what is parked, followed by what is
still in the fifo (`Queue`), with the document of kak-lsp at one end and the buffer in the
editor at the other. On this way

* versions never go back until the buffer is closed (`Grows`);
* the last update is the one the editor sent last (`LastIs`);
* if kak-lsp has not ended before, every message finds the document open (`AllOpen`).

A hook appends to the queue, a turn of the event loop takes a message out, either the next
one of the fifo or, when the parked ones are flushed, the first of a buffer that is not
about to wait again; routing changes only what a message carries. The lemmas
`AppendKeeps...`, `AlikeKeeps` and those about `Dropped` say so for sequences; the rest of
`Inv` is needed to apply them:

* `RoutesInv`: a server that was started has a route, and waits in one batch at most;
* `Mirrored`: the servers of a buffer have kak-lsp's document, the others none (from which
  `Mirror`); it needs that the routes of a buffer with a document never change;
* `QueuesInv`: parked messages carry the servers of their buffer, one of which is not
  ready, and those that wait for a text have all servers ready, so the two queues are about
  different buffers and a flush cannot overtake;
* `BlockedInv`: nothing was ever dispatched or parked for a buffer with a tombstone (`blocked`);
* `TextsInv`: the text of a document is of the version it is called, before any end of
  kak-lsp;
* `DueInv`: a request whose text has come was drained, unless a newer update is on its way.

From it: `TypeCorrect`, `DidOpenComesFirst` (`DidOpenFirst`), `ServersMirror` (`Mirror`),
`NoUpdateLost` (`InSync`), `TextsInSync` (`TextInSync`), `RequestsWaitForUpdates`
(`WaitsForUpdate`) and `VersionsNeverGoBack` (`VersionsGrow`): every safety property of the
two runs. The assumption used is `SessionAssumption`.

### FifoPipeline

The inductive invariant `Inv` joins to `TypeOK` and `WaitJustified`:

* `Ordered`: while the parser goes on, the command buffer and the fifo hold exactly
  the commands it has not read, in order. So the command it reads next is that of
  message `parsed + 1`, without which the parser could expect a text that nobody
  writes.
* `TextsHaveLines`: a message with a text has at least one newline in it, so that
  `text_of_buffer` is never asked for nothing.
* `NothingYet`: while the parser holds the mutex and is about to wait, nothing has
  arrived; this is where the mutex is used.

`CutExists` is the lemma about `text_of_buffer`: with at least as many newlines as the
text has lines, there is a place to cut (the `unwrap` never fails). From `Inv`:
`FifoTypeCorrect`, `NoWakeUpIsLost` (`WaitJustified`) and `CommandsStayInOrder`
(`Ordered`).

`PipelineIsChannel` is the refinement: `Spec => ChannelSpec`. What is in the text buffer,
the buffer fifo and not yet written (`Coming`) is the texts of the messages not yet parsed,
one after the other: `TextsInOrder` says that there are places `start[k]` where they
begin. The text that `text_of_buffer` cuts, up to the newline that its number of lines
makes the last one, is then the first of them, since texts end with a newline
(`TextsEnd`): the parser delivers the oldest message with its own text. Nothing else that
a thread does is seen by the channel. The assumption used is `FifoPipelineAssumption`.

### ServerTransport

`TypeInv` is `TypeOK` with `Handed`: who is about to write has something in
hand. `FlowInv` follows the messages:

* `InputFlow`: but for a dead server, the messages sent and not heard are those in the
  channel, in the writer's hand and in the pipe; `InputClosed`: the writer closes the pipe
  only when the channel is empty and its sender gone.
* `OutputFlow`: while the event loop runs, what was spoken and not received is in the
  channel, and, as long as the reader reads, in the part of the pipe before any nonsense;
  `OutputEnded`: a server given up as gone owes nothing.

From them: `TypeCorrect`, `FlowsCorrect`, `HeardCorrect` (`HeardAtEof`) and
`ReceivedCorrect` (`ReceivedAtEnd`). The assumption used is `ServerTransportAssumption`.

### SessionFiles

`SessionFilesProofs` holds for any processes and any number of faults and signals. Its
invariant joins to the types:

* `Owned`: the files there are all of one process, those it has made on its way so far
  (`Has`), and a process that ends has noted each of its own for removal;
* `Alone`: at most one process relies on there being no session (`Busy`), and then only
  its own files are there;
* `Waits`: such a process of the editor's is one that the editor waits for, so that the
  editor starts no other.

From it: `TidyEnd` (`NothingLeft`), `ServersAreFound` (`Reachable`), `NobodyElsesFiles`
(`OnlyOwn`) and `ExitsAreComplete` (`ExitIsComplete`). They assume `~DuringEnd`, as in the
run: that the editor starts no server while an external one ends. With such a start `Alone`
is false, and so is `OnlyOwn`: the start finds the directory there, fails, or takes over
files that the other then removes (section 5). The other assumption is
`SessionFilesAssumption`.

### CodeActions

`CodeActionsProofs` holds for any servers and any actions. Its invariant `Inv` joins to the
types (`Typed`):

* `AskedWell`: `RangesAreCurrent`, `AskedAgainOnce`, and the round is at most 1 before the
  ranges are whole lines, so that a request already repeated is not repeated again.
* `PickedLate`: before an action is picked nothing is under way or done.
* `SyncHolds`: from a synchronous request to the end of the edit it leads to, the document
  keeps the version it was asked about, since the editor is blocked all the while.

`KindsInv` says that what the first server offered is of the kinds asked for until the request
is repeated. `DoneInv` says of a picked action that it is about to be resolved, that the
servers are resolving it, or that what was done and what the editor will still send are, one
after the other, what the action means (`InProgress`).

From them: `CodeActionsAskWell` (`Spec => [](RangesAreCurrent /\ AskedAgainOnce)`),
`SynchronousIsCurrent` (`Spec => []SyncIsCurrent`), and `CodeActionsDone`
(`Spec => [](KindsAsked /\ ActionIsDone)`). The last one assumes `ActionsOffered`: that the
actions are such as the protocol allows, where a literal command always has something to
run. `ActionsAssumption` in `Features` says the same of its constants.

### Features

`FeaturesProofs` has the properties of the run, for any values of the constants. A theorem
about the part that is in use carries over to `Features`, since the steps of the others
leave its variables alone.

* `MessagesCorrect` (`MessagesAnswered`): `MessagesInv` joins to it that a request is in the
  queue at one place, or in one menu, or answered (`OnePlace`). `HourglassCorrect`
  (`HourglassOnlyWhenBusy`): `ProgressInv` says that a shown hourglass belongs to work that is
  known, and that known work is under way at some server.
* `CodeActionsCorrect` (`ActionsAreDone`) takes the invariants from the module above.
  `SameCodeActions` says that the part of `Features` is what that module is about.
* `CompletionCorrect` (`EditsOfAccepted`): `CompletionInv` follows a list and its index on
  the whole way: what is on its way to the editor, in its window, chosen, in a request, being
  resolved. At each place it is for the client and version it was asked for (`IsFor`), and
  the choice that the request names is the one that was made, unless one of the cases has
  happened that the property excepts (`astray`, `Twins`).
* `WatchCorrect` (`ChangesAreTold`): `ToldInv` says of each change that the present worker
  has seen and a pattern covers that every server was told, or that it is under way
  (`UnderWay`): not yet handed over, in a batch, or pending. `TicksInv` charges each telling
  to a change: the tellings so far, one more if anything is pending, one for each batch, and
  one for each event not handed over, but for the log's, are no more than the changes made.
* `NothingBeforeItsTime`: a workspace edit leaves the editor's buffers alone until its
  command is run, and servers are told of a file edited on disk what
  it contains, unless some other operation is about this file.
* `WorkspaceEditsApplied` (`AppliedAsMeant`): `EditsInv` compares the state after the first
  `done` operations with what they mean (`Seen[done]`). Files that are not open are already
  what they should be (`OnDisk`); for buffers the command holds one entry for each operation
  that edits one, with the text it was computed from, which is still the buffer's if the user
  left it alone, and with the decision about writing it that was right when it was taken and
  still is (`Ordered`, `Ordering`). When the editor runs the command, each entry finds its
  buffer as it was, since an edit `Plain` has at most one for it (`RunSteps`), so both sides meet
  (`AsMeant`) and stay so (`Lasting`). Of an edit that failed, `OnDisk` is what there is to say.

`DataProofs` is about the parts whose computations are longer than their steps.

* `DiagInv` is about the state: a server that published for the version at hand knows this
  version, and can publish for no other until the next one (`UpToDate`), so nothing late can
  replace what is kept; and what is kept of such a server corresponds one to one to what it
  published last (`KeptAsPublished`), whatever the others publish (`NewEntries`).
* `OptionsAreCurrent`: what the buffer shows is rendered from all that is known at that
  time, and for the version at hand, from the first publication for this version on.
* The rest is about rendering, for any diagnostics and lenses. Counts and painted ranges are
  compared by bijections (`Counted`, `InlineMatched`); the text of a line is by induction
  that of its worst diagnostic (`TextIsWorst`); and `Flagged` is the invariant of the loop that
  merges diagnostics and lenses: flags are those of what was taken, each diagnostic has its
  flag, a lens has its flag when its line has no diagnostic, and no lens that is left is
  before a diagnostic already taken. It is kept by every step of the merge (`FlagStep`), and
  tells at the end what the flags of each line are (`FlagsTell`).
* From them: `DiagnosticsCorrect` (`DiagnosticsShown`).

* `PlacesAreKept` (`PositionsAgree`): the text stays a document (`DocumentInv`), so the theorem
  is about conversions, for any lines. A line has, for each number of its characters, the bytes
  and the code units before it; both sequences increase strictly, because no character has
  width zero (`SumsGrow`, `WidthsExist`), so counting the characters that end before an offset
  leads back to the one the offset is of (`CharOf`, `BackToChar`). A text has an increasing
  sequence of the places where its lines begin (`Layout`), so each place is in one line, at one
  offset (`EveryPlace`, `LineOfPlace`); what both sides call it follows (`Names`), and each
  conversion is computed from this (`OfEditor`, `OfServer`, `OfRange`). The end of a range that
  is the beginning of a line becomes the newline before it, which needs that the column
  for it lies behind all of the line.

A definition by recursion is reasoned about in first-order form: that there is such a
function (`RunExists`, `MeantExists`, `Recursion`), and what it computes, are shown by a least
counterexample (`Induction`), since the library's theorems on induction take operators as
parameters.

The assumptions used are `FeaturesAssumption` (numbers are natural), `ActionsAssumption`,
`PositionsAssumption` and `DiagnosticsAssumption`. Of positions: a line has fewer bytes than
`EOL_OFFSET`, 1 000 000, the column by which the code itself names the end of any line
(`position.rs` 28); in a longer line it would name a character before the end. Of
diagnostics: there is a server, lines are counted from zero, severities are those of
the protocol or none, and lenses are finitely many. Without any server `DiagnosticsShown` would
ask that options are rendered before anything was published.

### Only model-checked

All liveness properties (`CallsEnd`, `ParkedServed`, `MessagesArrive`, `ShutdownEnds`,
`CallsGetAnswered`, `StopEnds`, `EditorGoesOn`), which are out of the prover's reach.
`EditsAreMeant` and `SymbolsFound`: they compare what is computed by folds,
`SelectSeq` and nested recursive functions over characters, edits or trees of symbols with
what it should be. The operators of the community modules that these are built from are
themselves defined by recursion on their arguments, and the provers know none of their
properties.

## 5. What is not modelled

* Time: the idle timeout is an action that may happen at any moment. It restarts at every
  event, messages of servers included (`controller.rs` 932), while `README.asciidoc` 188
  speaks of requests from Kakoune: a server that talks keeps a session nobody uses alive.
* Wording and layout: markup, widths of characters, menus, what info boxes say.
* Hover, goto, hierarchies, selection ranges, signature help, rename, formatting, inlay
  hints, semantic tokens, highlights and the extensions of single servers:
  each is one batch of `Requests` whose answer is formatted, or is an edit of
  `WorkspaceEdits`. What picking a code lens does is left out, too.
* Settings and configuration: changes of `lsp_servers` in an open buffer, the deprecated
  configuration file, `workspace/didChangeConfiguration`, scratch buffers and requests
  without a buffer.
* A failing `write` to the buffer fifo; the tokenizer of the command fifo.
* `ServerTransport`: a `kak -p` that never ends, and a server that closes its input
  without exiting or does not exit when it is closed; then the process hangs, too.
* `SessionFiles`: two starts that run into each other (the loser's clean-up unlinks the
  winner's files), and a start by the editor while an external server ends, which
  attaches to it and polls for ever; `DuringEnd` lets the latter happen.
* `Symbols`: the hover of `lsp-hover-next-symbol`, and symbols' icons and details.
* `Diagnostics`: the `*diagnostics*` buffer and tags.

## 6. What could come next

1. `Session`: changes of `lsp_servers`; a blocked editor across panics; then its
   composition with `SessionFiles`, so that a request survives what the files show.
2. Proofs about operators of `TextEdits` and `Symbols`, in the way of `DataProofs`:
   with folds rewritten as recursive functions, the lemmas on sorted and overlapping edits
   first.
