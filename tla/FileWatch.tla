------------------------------ MODULE FileWatch ------------------------------
(***************************************************************************)
(* Watching files for servers (text_sync.rs, controller.rs): a server      *)
(* registers patterns; a worker thread with a debouncer per watched        *)
(* directory hands batches of changes to the event loop, which gathers     *)
(* them and tells every server after a second without other traffic.       *)
(* A registration replaces the worker.                                     *)
(*                                                                         *)
(* The file system and notify_debouncer_full are external: a change is     *)
(* handed to the callback some time after it was made.                     *)
(***************************************************************************)
EXTENDS Integers, Sequences, FiniteSets, SequencesExt

CONSTANTS
  Servers,
  Files, Log,      \* files, and the one to which kakoune-lsp logs
  Patterns, Braces,\* patterns; those with braces are not supported
  Matches,         \* pairs of a pattern and a file
  MaxChanges, MaxRegistrations, \* bounds
  ChannelSize      \* of the worker's channel: 1024 in the code

VARIABLES
  watcher,   \* ctx.file_watcher: number of its worker, its watches and pending_file_events
  changed,   \* changes made while a worker watched: worker, file, and kind, as a set
  raw,       \* those not yet handed to the callback of the worker, in order
  channel,   \* batches from the worker
  told,      \* what each server was told of
  quiet,     \* has a second passed since the last thing the event loop did?
  made, registered, \* how many changes, registrations
  ticks,     \* how often servers were told
  panic      \* an assertion failed

vars == <<watcher, changed, raw, channel, told, quiet, made, registered, ticks, panic>>

EventKinds == {"create", "change", "delete"}
\* What servers watch: everything, which is the default, or less.
Watches == [pattern : Patterns, kinds : {EventKinds, {"change"}}]
NoWatcher == [worker |-> 0, watches |-> {}, pending |-> {}]

\* Mutation: the log is a file like others.
EventFileChangesLogged(e, watches) ==
  IF \E w \in watches : e.kind \in w.kinds /\ <<w.pattern, e.file>> \in Matches
  THEN {[file |-> e.file, kind |-> e.kind]} ELSE {}

\* event_file_changes: what a change is for servers, if it is anything.
EventFileChanges(e, watches) ==
  IF e.file # Log /\ \E w \in watches : e.kind \in w.kinds /\ <<w.pattern, e.file>> \in Matches
  THEN {[file |-> e.file, kind |-> e.kind]} ELSE {}

-----------------------------------------------------------------------------
(***************************************************************************)
(* client/registerCapability: the registrations in one request are         *)
(* gathered, and asserted to be no more than one.                          *)
(***************************************************************************)

Supported(watches) == {w \in watches : w.pattern \notin Braces}

Register(registrations) ==
  /\ registered < MaxRegistrations /\ ~panic /\ registered' = registered + 1
  /\ panic' = (Len(registrations) = 2 /\ Supported(registrations[1]) # {})
  /\ quiet' = FALSE
  /\ LET requested == UNION {Supported(r) : r \in Range(registrations)} IN
     IF panic' \/ requested = {} THEN UNCHANGED <<watcher, raw, channel>>
     ELSE \* The old worker goes, and with it what it and the event loop had gathered.
          /\ watcher' = [worker |-> watcher.worker + 1, watches |-> requested, pending |-> {}]
          /\ raw' = <<>> /\ channel' = <<>>
  /\ UNCHANGED <<changed, told, made, ticks>>

-----------------------------------------------------------------------------
(***************************************************************************)
(* The worker                                                              *)
(***************************************************************************)

Change(f, kind) ==
  /\ made < MaxChanges /\ ~panic /\ made' = made + 1
  /\ watcher.worker # 0
  /\ raw' = Append(raw, [file |-> f, kind |-> kind])
  /\ changed' = changed \cup {[worker |-> watcher.worker, file |-> f, kind |-> kind]}
  /\ UNCHANGED <<watcher, channel, told, quiet, registered, ticks, panic>>

\* The debouncer's callback with what was gathered in a second.  An empty batch is not
\* sent; a full channel blocks the callback.
Debounced ==
  /\ raw # <<>> /\ Len(channel) < ChannelSize /\ ~panic
  /\ \E n \in 1..Len(raw) :
       LET batch == UNION {EventFileChanges(e, watcher.watches) : e \in Range(SubSeq(raw, 1, n))} IN
       /\ raw' = SubSeq(raw, n + 1, Len(raw))
       /\ channel' = IF batch = {} THEN channel ELSE Append(channel, batch)
  /\ UNCHANGED <<watcher, changed, told, quiet, made, registered, ticks, panic>>

-----------------------------------------------------------------------------
(***************************************************************************)
(* The event loop.  The tick of one second is made anew in every           *)
(* iteration.                                                              *)
(***************************************************************************)

FromFileWatcher ==
  /\ channel # <<>> /\ ~panic
  /\ watcher' = [watcher EXCEPT !.pending = @ \cup Head(channel)]
  /\ channel' = Tail(channel)
  /\ quiet' = FALSE
  /\ UNCHANGED <<changed, raw, told, made, registered, ticks, panic>>

SecondPasses ==
  /\ ~quiet /\ watcher.pending # {} /\ ~panic
  /\ quiet' = TRUE
  /\ UNCHANGED <<watcher, changed, raw, channel, told, made, registered, ticks, panic>>

\* Something else: a message of a server or the editor.
Traffic ==
  /\ quiet /\ ~panic
  /\ quiet' = FALSE
  /\ UNCHANGED <<watcher, changed, raw, channel, told, made, registered, ticks, panic>>

\* Every server is told, and that is logged.
FromPendingFileWatcher ==
  /\ quiet /\ watcher.pending # {} /\ ~panic
  /\ told' = [s \in Servers |-> told[s] \cup watcher.pending]
  /\ watcher' = [watcher EXCEPT !.pending = {}]
  /\ raw' = Append(raw, [file |-> Log, kind |-> "change"])
  /\ quiet' = FALSE
  /\ ticks' = ticks + 1
  /\ UNCHANGED <<changed, channel, made, registered, panic>>

-----------------------------------------------------------------------------

Init ==
  /\ watcher = NoWatcher /\ changed = {} /\ raw = <<>> /\ channel = <<>>
  /\ told = [s \in Servers |-> {}]
  /\ quiet = FALSE /\ made = 0 /\ registered = 0 /\ ticks = 0 /\ panic = FALSE

\* What is in one request: patterns in one registration or in two.
Registrations == {<<{v, w}>> : v, w \in Watches} \cup {<<{v}, {w}>> : v, w \in Watches}

Settled == panic \/ (raw = <<>> /\ channel = <<>> /\ watcher.pending = {})

Next ==
  \/ \E r \in Registrations : Register(r)
  \/ \E f \in Files, kind \in EventKinds : Change(f, kind)
  \/ Debounced \/ FromFileWatcher \/ SecondPasses \/ Traffic \/ FromPendingFileWatcher
  \/ Settled /\ UNCHANGED vars

Spec == Init /\ [][Next]_vars

-----------------------------------------------------------------------------
(***************************************************************************)
(* Properties.                                                             *)
(***************************************************************************)

\* When nothing is under way, every server was told of every change that was made since
\* the last registration and that some registered pattern covers, whatever was gathered
\* in which batch; and each time they were told something had changed, so that the
\* log does not keep them busy for ever.
ChangesAreTold ==
  /\ Settled /\ ~panic => \A c \in changed : c.worker = watcher.worker =>
       \A s \in Servers :
         (c.file # Log /\ \E w \in watcher.watches : c.kind \in w.kinds /\ <<w.pattern, c.file>> \in Matches)
           => [file |-> c.file, kind |-> c.kind] \in told[s]
  /\ ticks <= made

=============================================================================
