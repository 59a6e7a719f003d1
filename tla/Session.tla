------------------------------ MODULE Session ------------------------------
(***************************************************************************)
(* From the editor's buffers to the language servers' documents: the path  *)
(* of an editor request through the event loop (process_editor_request,    *)
(* route_request, dispatch_* in controller.rs), the start of language      *)
(* servers and their initialize handshake (capabilities.rs), and document  *)
(* synchronization (text_sync.rs).                                         *)
(*                                                                         *)
(* The editor (rc/lsp.kak) writes messages to a fifo and never looks back. *)
(* The event loop takes them in order and routes each to the servers of    *)
(* its buffer, starting those that do not run yet.  A message waits in one *)
(* of two places: "pending" while a server of its buffer is still being    *)
(* initialized, "future" while it is about a newer text than the last one  *)
(* received.  Both queues are flushed inside a turn of the event loop, one *)
(* message per step here.                                                  *)
(*                                                                         *)
(* What goes wrong with the requests themselves is module Requests.        *)
(***************************************************************************)
EXTENDS Integers, Sequences, FiniteSets

CONSTANTS
  Name,           \* names of language servers
  Root,           \* project roots
  Buffer,         \* files
  RootOf,         \* find_project_root: the root of each file
  NamesOf,        \* lsp_servers: the servers configured for each file
  SingleInstance, \* names with single_instance or workspace folder support
  Fragile,        \* names whose command may fail to start
  Asked,          \* the kinds of asynchronous requests users make
  MaxVersion,     \* bound: edits of a buffer
  MaxSends,       \* bound: messages in a behaviour
  MaxRestarts     \* bound: ends of kak-lsp, the ones from outside

\* What the route cache holds for an address that has no server.
NoServer == <<"no", "server">>

ASSUME SessionAssumption ==
  /\ NoServer \notin Name \X Root
  /\ RootOf \in [Buffer -> Root]
  /\ NamesOf \in [Buffer -> (SUBSET Name) \ {{}}]
  /\ SingleInstance \subseteq Name
  /\ Fragile \subseteq Name
  /\ Asked \subseteq {"request", "resolve"}
  /\ MaxVersion \in Nat /\ MaxSends \in Nat /\ MaxRestarts \in Nat

VARIABLES
  version,  \* editor: timestamp of each buffer, 0 if it is closed
  synced,   \* editor: option lsp_timestamp of each buffer
  saved,    \* the version of each buffer that is on disk
  told,     \* history: newest version didOpen or didChange told this kak-lsp
  sends,    \* history: messages the editor has sent
  restarts, \* history: ends of kak-lsp, from outside or in a panic
  pipe,     \* the command fifo, parsed and in order
  routes,   \* Context.route_cache
  status,   \* Context.language_servers, by the address each was started for
  batches,  \* the initialize batches in flight
  blocked,  \* Context.buffer_tombstones
  dead,     \* Context.server_tombstones
  pending,  \* Context.pending_requests
  future,   \* Context.pending_requests_from_future
  turn,     \* the queue this turn of the event loop is flushing
  docs,     \* Context.documents
  view,     \* the documents each server has been told of
  early,    \* history: servers sent a notification before they were ready
  unopened  \* history: documents a server was told of while not open there

editor == <<version, synced, saved, told, sends>>
routing == <<routes, status, batches, blocked, dead>>
queues == <<pending, future, turn>>
texts == <<docs, view, early, unopened>>
vars == <<editor, restarts, pipe, routing, queues, texts>>

-----------------------------------------------------------------------------

\* A server is named by the address (name and root) it was started for: the
\* route cache keeps a second one from being started for the same address.
Server == Name \X Root
Statuses == {"absent", "spawned", "initializing", "ready", "failed"}

\* A document: its version number and the version its text really is of.
Doc == [version : Nat, text : Nat]
NoDoc == [version |-> -1, text |-> -1]

Updates == {"didOpen", "didChange"}
Notifications == Updates \cup {"didClose", "didSave", "didChangeConfiguration"}
Requests == {"request", "sync", "resolve"}

\* An EditorRequest.  A "sync" request carries a response fifo; "resolve" is
\* completionItem/resolve, the request that never waits for its text.
Message == [kind : Notifications \cup Requests, buf : Buffer, version : Nat,
            servers : SUBSET Server]

ServersOf(b) == {routes[<<n, RootOf[b]>>] : n \in NamesOf[b]}

-----------------------------------------------------------------------------
(***************************************************************************)
(* The editor.                                                             *)
(***************************************************************************)

Init ==
  /\ version = [b \in Buffer |-> 0]
  /\ synced = [b \in Buffer |-> -1]
  /\ saved = [b \in Buffer |-> 0]
  /\ told = [b \in Buffer |-> 0]
  /\ sends = 0
  /\ restarts = 0
  /\ pipe = <<>>
  /\ routes = [a \in Server |-> NoServer]
  /\ status = [s \in Server |-> "absent"]
  /\ batches = {}
  /\ blocked = {}
  /\ dead = {}
  /\ pending = <<>>
  /\ future = <<>>
  /\ turn = "idle"
  /\ docs = [b \in Buffer |-> NoDoc]
  /\ view = [s \in Server |-> [b \in Buffer |-> NoDoc]]
  /\ early = {}
  /\ unopened = {}

Msg(kind, b, v) == [kind |-> kind, buf |-> b, version |-> v, servers |-> {}]

Waiting(q) == \E i \in DOMAIN q : q[i].kind = "sync"

\* lsp-send: append to the fifo; while a synchronous command is under way the
\* editor does nothing else.
Send(ms) ==
  /\ ~Waiting(pipe) /\ ~Waiting(pending)
  /\ sends + Len(ms) <= MaxSends
  /\ sends' = sends + Len(ms)
  /\ pipe' = pipe \o ms

KakLspUnchanged == UNCHANGED <<restarts, routing, queues, texts>>

\* BufCreate: lsp-did-open, which leaves lsp_timestamp alone.
Open(b) ==
  /\ version[b] = 0
  /\ version' = [version EXCEPT ![b] = 1]
  /\ saved' = [saved EXCEPT ![b] = 1]
  /\ told' = [told EXCEPT ![b] = 1]
  /\ Send(<<Msg("didOpen", b, 1)>>)
  /\ UNCHANGED synced /\ KakLspUnchanged

Edit(b) ==
  /\ version[b] \in 1..MaxVersion - 1
  /\ ~Waiting(pipe) /\ ~Waiting(pending)
  /\ version' = [version EXCEPT ![b] = @ + 1]
  /\ UNCHANGED <<synced, saved, told, sends, pipe>> /\ KakLspUnchanged

\* InsertIdle and NormalIdle: lsp-did-change, if the buffer has changed since.
Update(b) ==
  /\ version[b] > 0 /\ synced[b] # version[b]
  /\ synced' = [synced EXCEPT ![b] = version[b]]
  /\ told' = [told EXCEPT ![b] = version[b]]
  /\ Send(<<Msg("didChange", b, version[b])>>)
  /\ UNCHANGED <<version, saved>> /\ KakLspUnchanged

\* A command of the user, sent as things are.
Ask(b, kind) ==
  /\ version[b] > 0
  /\ Send(<<Msg(kind, b, version[b])>>)
  /\ UNCHANGED <<version, synced, saved, told>> /\ KakLspUnchanged

\* lsp-synchronously: lsp-did-change first.
AskSync(b) ==
  /\ version[b] > 0
  /\ IF synced[b] # version[b]
     THEN /\ Send(<<Msg("didChange", b, version[b]), Msg("sync", b, version[b])>>)
          /\ synced' = [synced EXCEPT ![b] = version[b]]
          /\ told' = [told EXCEPT ![b] = version[b]]
     ELSE /\ Send(<<Msg("sync", b, version[b])>>)
          /\ UNCHANGED <<synced, told>>
  /\ UNCHANGED <<version, saved>> /\ KakLspUnchanged

\* BufWritePost: lsp-did-save.
Save(b) ==
  /\ version[b] > 0
  /\ saved' = [saved EXCEPT ![b] = version[b]]
  /\ Send(<<Msg("didSave", b, version[b])>>)
  /\ UNCHANGED <<version, synced, told>> /\ KakLspUnchanged

\* BufClose: lsp-did-close; the buffer's options go with it.
Close(b) ==
  /\ version[b] > 0
  /\ Send(<<Msg("didClose", b, version[b])>>)
  /\ version' = [version EXCEPT ![b] = 0]
  /\ synced' = [synced EXCEPT ![b] = -1]
  /\ told' = [told EXCEPT ![b] = 0]
  /\ UNCHANGED saved /\ KakLspUnchanged

-----------------------------------------------------------------------------
(***************************************************************************)
(* The end of kak-lsp: everything it knew is gone, and so is what it had   *)
(* not read.  The next message starts a new one (lsp-do-send), with a      *)
(* fresh Context.                                                          *)
(***************************************************************************)

Fresh ==
  /\ routes' = [a \in Server |-> NoServer]
  /\ status' = [s \in Server |-> "absent"]
  /\ batches' = {}
  /\ blocked' = {}
  /\ dead' = {}
  /\ pending' = <<>>
  /\ future' = <<>>
  /\ turn' = "idle"
  /\ docs' = [b \in Buffer |-> NoDoc]
  /\ view' = [s \in Server |-> [b \in Buffer |-> NoDoc]]
  /\ UNCHANGED <<version, synced, saved, early, unopened>>

\* A panic aborts the process (main.rs).
Panic ==
  /\ Fresh
  /\ pipe' = <<>>
  /\ restarts' = restarts + 1
  /\ told' = [b \in Buffer |-> 0]
  /\ UNCHANGED sends

\* A language server died, the idle timeout ran out or a signal came.
Die ==
  /\ restarts < MaxRestarts
  /\ restarts' = restarts + 1
  /\ Fresh
  /\ pipe' = <<>>
  /\ told' = [b \in Buffer |-> 0]
  /\ UNCHANGED sends

\* lsp-restart, in buffer b.
Restart(b) ==
  /\ version[b] > 0
  /\ ~Waiting(pipe) /\ ~Waiting(pending)
  /\ restarts < MaxRestarts
  /\ restarts' = restarts + 1
  /\ sends + 2 <= MaxSends
  /\ sends' = sends + 2
  /\ Fresh
  /\ pipe' = <<Msg("didChangeConfiguration", b, version[b]), Msg("didOpen", b, version[b])>>
  /\ told' = [a \in Buffer |-> IF a = b THEN version[b] ELSE 0]

-----------------------------------------------------------------------------
(***************************************************************************)
(* Routing: route_request.                                                 *)
(***************************************************************************)

Missing(b) == {n \in NamesOf[b] : routes[<<n, RootOf[b]>>] = NoServer}

\* can_serve, of a server started for another root.  (A server that has this
\* root already is found in the route cache.)
CanServe(s, n) == s[1] = n /\ n \in SingleInstance /\ status[s] = "ready"

Shared(b) == {n \in Missing(b) : \E s \in Server : CanServe(s, n)}
Started(b) == Missing(b) \ Shared(b)

\* The server a name leads to, if it had no route.  With two roots there is one
\* candidate to share at most.
Address(b, n) ==
  IF n \in Shared(b) THEN CHOOSE s \in Server : CanServe(s, n) ELSE <<n, RootOf[b]>>

\* The route cache after the names in done have been gone through.
RouteNames(b, done) ==
  routes' = [a \in Server |->
               IF a[1] \in done \cap Missing(b) /\ a[2] = RootOf[b] THEN Address(b, a[1])
               ELSE routes[a]]

\* The servers of an initialize batch: some of those of one buffer.
Batch == (UNION {SUBSET {<<n, RootOf[b]>> : n \in NamesOf[b]} : b \in Buffer}) \ {{}}

Launched(b, done) == {<<n, RootOf[b]>> : n \in done \cap Started(b)}

\* All names are routed; the new servers get one initialize batch.
Route(b) ==
  LET new == Launched(b, NamesOf[b]) IN
  /\ b \notin blocked
  /\ Started(b) \cap dead = {}
  /\ RouteNames(b, NamesOf[b])
  /\ status' = [s \in Server |-> IF s \in new THEN "initializing" ELSE status[s]]
  /\ batches' = IF new = {} THEN batches ELSE batches \cup {new}
  /\ UNCHANGED <<blocked, dead>>

\* The message with the servers it is routed to.
Routed(m) ==
  [m EXCEPT !.servers =
     {IF n \in Missing(m.buf) THEN Address(m.buf, n) ELSE routes[<<n, RootOf[m.buf]>>] :
        n \in NamesOf[m.buf]}]

AllReady(m) == \A s \in m.servers : status[s] = "ready"

-----------------------------------------------------------------------------
(***************************************************************************)
(* Document synchronization: dispatch_editor_request, ensure_did_open and  *)
(* text_sync.rs.                                                           *)
(***************************************************************************)

\* The document the servers open if they have to: the text that comes with the
\* message, or else what is on the disk, as the version the message is about.
OpeningDoc(m) ==
  [version |-> m.version, text |-> IF m.kind \in Updates THEN m.version ELSE saved[m.buf]]

\* Mutation: only didOpen opens documents.
OpensNot(m) == m.kind = "didOpen"

\* ensure_did_open's early return.
Opens(m) == m.kind = "didOpen" \/ docs[m.buf] = NoDoc

DocAfterOpen(m) == IF Opens(m) THEN OpeningDoc(m) ELSE docs[m.buf]

\* Mutation: off by one.
IsNewByTwo(m) == m.kind = "didChange" /\ DocAfterOpen(m).version + 1 < m.version

\* text_document_did_change's early return.
IsNew(m) == m.kind = "didChange" /\ DocAfterOpen(m).version < m.version

\* Mutation: a didChange brings its version but not its text.
DocAfterKeepingText(m, d) ==
  IF m.kind = "didClose" THEN NoDoc
  ELSE IF IsNew(m) THEN [version |-> m.version, text |-> d.text]
  ELSE IF Opens(m) THEN OpeningDoc(m)
  ELSE d

\* What a document is after the message, where it was d.
DocAfter(m, d) ==
  IF m.kind = "didClose" THEN NoDoc
  ELSE IF IsNew(m) THEN [version |-> m.version, text |-> m.version]
  ELSE IF Opens(m) THEN OpeningDoc(m)
  ELSE d

\* Whether the message itself, not the opening it may cause, reaches server s.
\* A server without capabilities is asked nothing (server_has_capability).
Reaches(m, s) ==
  \/ m.kind \in {"didOpen", "didClose", "didSave", "didChangeConfiguration"}
  \/ IsNew(m)
  \/ m.kind \in Requests /\ status[s] = "ready"

\* Mutation: servers that are not ready are left out.
DispatchToReady(m) ==
  /\ docs' = [docs EXCEPT ![m.buf] = DocAfter(m, @)]
  /\ view' = [s \in Server |->
                IF s \in m.servers /\ status[s] = "ready"
                THEN [view[s] EXCEPT ![m.buf] = DocAfter(m, @)] ELSE view[s]]
  /\ UNCHANGED <<early, unopened>>

\* dispatch_editor_request, with ensure_did_open.
Dispatch(m) ==
  /\ docs' = [docs EXCEPT ![m.buf] = DocAfter(m, @)]
  /\ view' = [s \in Server |->
                IF s \in m.servers THEN [view[s] EXCEPT ![m.buf] = DocAfter(m, @)] ELSE view[s]]
  /\ unopened' = unopened \cup
       {<<s, m.buf>> : s \in {s \in m.servers :
          Reaches(m, s) /\ ~Opens(m) /\ view[s][m.buf] = NoDoc}}
  /\ early' = early \cup
       {s \in m.servers : status[s] # "ready" /\ (Opens(m) \/ Reaches(m, s))}

\* text_document_did_save unwraps the capabilities of its servers.
PanicsOn(m) == m.kind = "didSave" /\ \E s \in m.servers : status[s] # "ready"

-----------------------------------------------------------------------------
(***************************************************************************)
(* The event loop.                                                         *)
(***************************************************************************)

\* The message at hand, when the previous turn is over.
NextMessage == Head(pipe)
Take == turn = "idle" /\ pipe # <<>> /\ pipe' = Tail(pipe)
EditorUnchanged == UNCHANGED <<editor, restarts>>

\* buffer_tombstones
ReceiveBlocked ==
  /\ Take
  /\ NextMessage.buf \in blocked
  /\ EditorUnchanged /\ UNCHANGED <<routing, queues, texts>>

\* A server cannot be started: the request is dropped, and the servers started
\* for it so far never see their initialize request.
ReceiveUnstartable(n, done) ==
  LET b == NextMessage.buf IN
  /\ Take
  /\ b \notin blocked
  /\ n \in Started(b) \cap (dead \cup Fragile) /\ n \notin done
  /\ done \cap Started(b) \cap dead = {}
  /\ RouteNames(b, done)
  /\ status' = [s \in Server |-> IF s \in Launched(b, done) THEN "spawned" ELSE status[s]]
  /\ dead' = dead \cup {n}
  /\ blocked' = blocked \cup {b}
  /\ EditorUnchanged /\ UNCHANGED <<batches, queues, texts>>

\* process_editor_request: park the message until its servers are initialized.
ReceiveParked ==
  /\ Take
  /\ Route(NextMessage.buf)
  /\ ~AllReady(Routed(NextMessage))
  /\ pending' = Append(pending, Routed(NextMessage))
  /\ EditorUnchanged /\ UNCHANGED <<future, turn, texts>>

\* dispatch_incoming_editor_request: the request is about a text that has not
\* arrived.
AheadOfText(m) ==
  m.kind \in {"request", "sync"} /\ (IF docs[m.buf] = NoDoc THEN 0 ELSE docs[m.buf].version) < m.version

ReceiveAhead ==
  /\ Take
  /\ Route(NextMessage.buf)
  /\ AllReady(Routed(NextMessage))
  /\ AheadOfText(NextMessage) /\ NextMessage.kind # "sync"
  /\ future' = Append(future, Routed(NextMessage))
  /\ EditorUnchanged /\ UNCHANGED <<pending, turn, texts>>

\* assert!(request.response_fifo.is_none())
ReceiveSyncAhead ==
  /\ turn = "idle" /\ pipe # <<>>
  /\ NextMessage.buf \notin blocked
  /\ AllReady(Routed(NextMessage))
  /\ AheadOfText(NextMessage) /\ NextMessage.kind = "sync"
  /\ Panic

\* Mutation: only requests for an older version than the one that arrived.
DueLater(m, d) == d[m.buf] # NoDoc /\ m.version < d[m.buf].version

\* A request whose text has arrived.
Due(m, d) == d[m.buf] # NoDoc /\ m.version <= d[m.buf].version

AnyDue == \E i \in DOMAIN future : Due(future[i], docs')

ReceiveDispatched ==
  /\ Take
  /\ Route(NextMessage.buf)
  /\ AllReady(Routed(NextMessage))
  /\ ~AheadOfText(NextMessage)
  /\ Dispatch(Routed(NextMessage))
  /\ turn' = IF NextMessage.kind \in Updates /\ AnyDue THEN "future" ELSE "idle"
  /\ EditorUnchanged /\ UNCHANGED <<pending, future>>

\* One iteration of the retain over pending_requests_from_future.
DispatchFuture ==
  /\ turn = "future"
  /\ \E i \in DOMAIN future :
       /\ Due(future[i], docs)
       /\ \A j \in 1..i - 1 : ~Due(future[j], docs)
       /\ future' = SubSeq(future, 1, i - 1) \o SubSeq(future, i + 1, Len(future))
       /\ Dispatch(future[i])
  /\ turn' = IF \E i \in DOMAIN future' : Due(future'[i], docs) THEN "future" ELSE "idle"
  /\ EditorUnchanged /\ UNCHANGED <<pipe, routing, pending>>

\* Mutation: initialization does not flush the parked requests.
FlushNothing == "idle"

\* dispatch_pending_editor_requests: everything that is parked, whichever server
\* it waits for.
Flush == IF pending = <<>> THEN "idle" ELSE "pending"

\* Mutation: the parked requests are popped off the end of the queue.
DispatchPendingLast ==
  /\ turn = "pending"
  /\ LET m == pending[Len(pending)] IN ~PanicsOn(m) /\ Dispatch(m)
  /\ pending' = SubSeq(pending, 1, Len(pending) - 1)
  /\ turn' = IF Len(pending) = 1 THEN "idle" ELSE "pending"
  /\ EditorUnchanged /\ UNCHANGED <<pipe, routing, future>>

\* Mutation: the flush does not notice that it is done.
DispatchPendingOn ==
  /\ turn = "pending"
  /\ ~PanicsOn(Head(pending))
  /\ Dispatch(Head(pending))
  /\ pending' = Tail(pending)
  /\ EditorUnchanged /\ UNCHANGED <<pipe, routing, future, turn>>

\* One iteration of the loop over pending_requests.
DispatchPending ==
  /\ turn = "pending"
  /\ ~PanicsOn(Head(pending))
  /\ Dispatch(Head(pending))
  /\ pending' = Tail(pending)
  /\ turn' = IF Len(pending) = 1 THEN "idle" ELSE "pending"
  /\ EditorUnchanged /\ UNCHANGED <<pipe, routing, future>>

DispatchPendingPanics ==
  /\ turn = "pending"
  /\ PanicsOn(Head(pending))
  /\ Panic

-----------------------------------------------------------------------------
(***************************************************************************)
(* The end of an initialize batch (see Requests for how it gets there).    *)
(***************************************************************************)

\* All its servers answered: they are ready, and told so with "initialized".
InitializeDone(batch) ==
  /\ turn = "idle" /\ batch \in batches
  /\ batches' = batches \ {batch}
  /\ status' = [s \in Server |-> IF s \in batch THEN "ready" ELSE status[s]]
  /\ turn' = Flush
  /\ EditorUnchanged /\ UNCHANGED <<pipe, routes, blocked, dead, pending, future, texts>>

\* All its servers answered with an error: the batch is dropped.
InitializeFailed(batch) ==
  /\ turn = "idle" /\ batch \in batches
  /\ batches' = batches \ {batch}
  /\ status' = [s \in Server |-> IF s \in batch THEN "failed" ELSE status[s]]
  /\ EditorUnchanged /\ UNCHANGED <<pipe, routes, blocked, dead, queues, texts>>

\* Some of them did: the callback looks for the missing results and panics.
InitializePartlyFailed(batch) ==
  /\ turn = "idle" /\ batch \in batches
  /\ Cardinality(batch) > 1
  /\ Panic

-----------------------------------------------------------------------------

EditorStep ==
  \/ \E b \in Buffer :
       Open(b) \/ Edit(b) \/ Update(b) \/ AskSync(b) \/ Save(b) \/ Close(b) \/ Restart(b)
  \/ \E b \in Buffer, kind \in Asked : Ask(b, kind)

Receive ==
  \/ ReceiveBlocked
  \/ \E n \in Name, done \in SUBSET Name : ReceiveUnstartable(n, done)
  \/ ReceiveParked
  \/ ReceiveAhead
  \/ ReceiveSyncAhead
  \/ ReceiveDispatched

Initialized(batch) ==
  InitializeDone(batch) \/ InitializeFailed(batch) \/ InitializePartlyFailed(batch)

FlushStep == DispatchFuture \/ DispatchPending \/ DispatchPendingPanics

\* Within the bounds, nothing is left to do.
Quiescent == pipe = <<>> /\ turn = "idle" /\ batches = {} /\ UNCHANGED vars

Next ==
  \/ EditorStep
  \/ Die
  \/ Receive
  \/ FlushStep
  \/ \E batch \in Batch : Initialized(batch)
  \/ Quiescent

Spec == Init /\ [][Next]_vars

\* The event loop keeps running and servers answer their initialize request.
Fairness ==
  /\ WF_vars(Receive)
  /\ WF_vars(FlushStep)
  /\ \A batch \in Batch : WF_vars(Initialized(batch))

FairSpec == Spec /\ Fairness

-----------------------------------------------------------------------------
(***************************************************************************)
(* Properties.                                                             *)
(***************************************************************************)

\* Type invariant.  A queue is flushed only while there is something in it to
\* dispatch, and messages in the queues have all their servers.
TypeOK ==
  /\ version \in [Buffer -> Nat] /\ saved \in [Buffer -> Nat] /\ told \in [Buffer -> Nat]
  /\ synced \in [Buffer -> Nat \cup {-1}]
  /\ sends \in Nat /\ restarts \in Nat
  /\ pipe \in Seq(Message) /\ pending \in Seq(Message) /\ future \in Seq(Message)
  /\ routes \in [Server -> Server \cup {NoServer}]
  /\ status \in [Server -> Statuses]
  /\ batches \subseteq Batch
  /\ blocked \subseteq Buffer /\ dead \subseteq Name
  /\ turn \in {"idle", "pending", "future"}
  /\ docs \in [Buffer -> Doc \cup {NoDoc}]
  /\ view \in [Server -> [Buffer -> Doc \cup {NoDoc}]]
  /\ early \subseteq Server /\ unopened \subseteq Server \X Buffer
  /\ turn = "pending" => pending # <<>>
  /\ turn = "future" => \E i \in DOMAIN future : Due(future[i], docs)

\* Every server has the very documents that kak-lsp has: the positions it
\* converts with its own copy mean the same text to the servers (text_sync.rs).
Mirror ==
  \A b \in Buffer : \A s \in ServersOf(b) \ {NoServer} : view[s][b] = docs[b]

\* "Ensure that textDocument/didOpen is sent for the given buffer before any
\* other request" (controller.rs 2150): a server is told of no document that is
\* not open there, whatever restarts and failures came before.
DidOpenFirst == unopened = {}

UpdateIn(b, q) == \E i \in DOMAIN q : q[i].buf = b /\ q[i].kind \in Updates
OnItsWay(b) == UpdateIn(b, pipe) \/ UpdateIn(b, pending)

\* What the editor has told this kak-lsp of a buffer is what kak-lsp has, or it
\* is still on its way: no update is lost by parking, flushing or routing.
InSync ==
  \A b \in Buffer \ blocked :
    told[b] > 0 /\ ~OnItsWay(b) => docs[b].version = told[b]

\* Moreover the text is the editor's, as long as kak-lsp does not have to make up
\* for a didOpen it never saw, which is when it reads the disk.
TextInSync ==
  \A b \in Buffer \ blocked :
    restarts = 0 /\ told[b] > 0 /\ ~OnItsWay(b) => docs[b].text = told[b]

\* A request waits for a future text only if the editor has not told kak-lsp of
\* that text yet (controller.rs 1668-1728).
WaitsForUpdate ==
  \A i \in DOMAIN future :
    LET m == future[i] IN
      turn = "future" \/ told[m.buf] < m.version \/ OnItsWay(m.buf)

\* While a document is open at a server its version never goes back.
VersionsGrow ==
  [][\A s \in Server, b \in Buffer :
       view[s][b] # NoDoc /\ view'[s][b] # NoDoc =>
         view'[s][b].version >= view[s][b].version]_vars

\* Parked requests are dispatched, unless a server never gets ready.
ParkedServed ==
  pending # <<>> ~>
    (pending = <<>> \/ \E s \in Server : status[s] \in {"failed", "spawned"})

\* "initialize request must be first request from client to language server ...
\* we park all requests from editor before initialization is complete"
\* (controller.rs 1221-1225).
InitializeFirst == early = {}

\* "That session can send a request for some already open (opened before
\* kakoune-lsp/lsp exit) buffer ... ensure_did_open tries to sneak in didOpen"
\* (controller.rs 2152): a request that waits for a text waits for one that the
\* editor is going to send without another edit.
WaitsForEditor ==
  \A i \in DOMAIN future :
    LET b == future[i].buf IN
      \/ turn = "future"
      \/ version[b] = 0
      \/ synced[b] # version[b]
      \/ OnItsWay(b)

=============================================================================
