-------------------------- MODULE ServerTransport --------------------------
(***************************************************************************)
(* A language server and the threads between it and the event loop         *)
(* (language_server_transport.rs, thread_worker.rs): the writer, which     *)
(* takes messages from a bounded channel and writes them to the server's   *)
(* standard input; the reader of its standard output, which puts what it   *)
(* reads into an unbounded channel; the reader of its standard error,      *)
(* which turns lines into log messages for the editor; and the thread that *)
(* takes commands for the editor from a bounded channel and runs kak -p    *)
(* (editor_transport.rs).  Channels and pipes make whoever finds them full *)
(* wait.                                                                   *)
(*                                                                         *)
(* When the event loop has been left, the server is told to exit, and the  *)
(* threads are joined in the order in which the fields of                  *)
(* LanguageServerTransport are dropped.                                    *)
(*                                                                         *)
(* The server is external: it answers what it is asked, one request at a   *)
(* time, sends messages of its own, some of which want an answer, writes   *)
(* to its standard error, may send nonsense and may die at any time.       *)
(***************************************************************************)
EXTENDS Integers, Sequences

CONSTANTS
  Capacity, \* of the bounded channels; 1024 in the code
  PipeSize, \* of the pipes to and from the server
  MaxCalls, \* bound: requests of the event loop to the server
  MaxEvents \* bound: messages and log lines of the server's own

ASSUME ServerTransportAssumption ==
  /\ Capacity \in Nat \ {0} /\ PipeSize \in Nat \ {0}
  /\ MaxCalls \in Nat /\ MaxEvents \in Nat

VARIABLES
  loop,       \* where the event loop is
  cause,      \* history: why it was left
  toServer,   \* channel of to_lang_server
  fromServer, \* channel of from_lang_server
  toEditor,   \* channel of the editor transport: how many commands are in it
  writer,     \* where the writer is, and the message it has in hand
  reader,     \* where the reader of standard output is
  errors,     \* where the reader of standard error is
  stdin, stdout, stderr, \* the pipes; only the number of lines in stderr
  server,     \* where the server is, and what it is about to write
  count       \* history: messages and requests that got past certain points

loopVars == <<loop, cause>>
channels == <<toServer, fromServer, toEditor>>
pipes == <<stdin, stdout, stderr>>
vars == <<loopVars, channels, writer, reader, errors, pipes, server, count>>

-----------------------------------------------------------------------------

ToServer == {"call", "reply", "exit"}
FromServer == {"answer", "request", "note", "garbage"}
None == "none"

\* Where the event loop is once it has been left.
Joins == {"joinWriter", "joinReader", "joinErrors"}

\* Mutation: the reader's worker is dropped before the writer's.
DropOrderReaderFirst == <<"joinReader", "joinWriter", "joinErrors", "ended">>

\* The fields of LanguageServerTransport.
DropOrder == <<"joinWriter", "joinReader", "joinErrors", "ended">>

\* Worker's drop has come to this one's input.
Dropped(join) == \E k \in 1..3 : \E m \in k..4 : DropOrder[k] = join /\ DropOrder[m] = loop

Over == {"ended", "killed"}
Left == {"sendExit"} \cup Joins \cup Over

Counters == {"calls", "answers", "sent", "heard", "spoken", "received", "events"}
Plus(c) == [count EXCEPT ![c] = @ + 1]

Init ==
  /\ loop = "idle" /\ cause = None
  /\ toServer = <<>> /\ fromServer = <<>> /\ toEditor \in 0..Capacity \* of other servers
  /\ writer = [at |-> "receive", hand |-> None]
  /\ reader = "read"
  /\ errors = "read"
  /\ stdin = <<>> /\ stdout = <<>> /\ stderr = 0
  /\ server = [at |-> "read", hand |-> None]
  /\ count = [c \in Counters |-> 0]

-----------------------------------------------------------------------------
(***************************************************************************)
(* The bounded channels and what closes them.                              *)
(***************************************************************************)

HasRoom == Len(toServer) < Capacity
\* Mutation: the channel of the editor transport takes whatever is put into it.
LoggingUnbounded == toEditor' = toEditor + 1

Logging == toEditor < Capacity /\ toEditor' = toEditor + 1

\* The server has nobody left to read from.
StdinClosed == writer.at \in {"wait", "done"}
Dead == server.at = "dead"

-----------------------------------------------------------------------------
(***************************************************************************)
(* The event loop.                                                         *)
(***************************************************************************)

LoopUnchanged == UNCHANGED <<writer, reader, errors, pipes, server>>

\* A request from the editor or a timer makes it call the server.
Call ==
  /\ loop = "idle" /\ count.calls < MaxCalls
  /\ loop' = "call"
  /\ count' = Plus("calls")
  /\ UNCHANGED <<cause, channels>> /\ LoopUnchanged

\* It takes a message; to a request of the server it replies.
Receive ==
  /\ loop = "idle" /\ fromServer # <<>>
  /\ fromServer' = Tail(fromServer)
  /\ loop' = IF Head(fromServer) = "request" THEN "reply" ELSE "idle"
  /\ count' = [count EXCEPT !.received = @ + 1,
                            !.answers = IF Head(fromServer) = "answer" THEN @ + 1 ELSE @]
  /\ UNCHANGED <<cause, toServer, toEditor>> /\ LoopUnchanged

\* Context::batch_call, notify and reply: wait for room in the channel.
Send ==
  /\ loop \in {"call", "reply"} /\ HasRoom
  /\ toServer' = Append(toServer, loop)
  /\ loop' = "idle"
  /\ count' = Plus("sent")
  /\ UNCHANGED <<cause, fromServer, toEditor>> /\ LoopUnchanged

\* Mutation: a server is gone as soon as its reader is.
DisconnectedEarly ==
  /\ loop = "idle" /\ reader = "done"
  /\ loop' = "sendExit" /\ cause' = "disconnected"
  /\ UNCHANGED <<channels, count>> /\ LoopUnchanged

\* The reader is gone, and with it its end of the channel: "received error from
\* server".
Disconnected ==
  /\ loop = "idle" /\ fromServer = <<>> /\ reader = "done"
  /\ loop' = "sendExit" /\ cause' = "disconnected"
  /\ UNCHANGED <<channels, count>> /\ LoopUnchanged

\* kakoune/exit, the idle timeout, or another server that is gone.
ExitRequested ==
  /\ loop = "idle"
  /\ loop' = "sendExit" /\ cause' = "exit"
  /\ UNCHANGED <<channels, count>> /\ LoopUnchanged

\* stop_session: the exit notification.  Then the sender is dropped.
SendExit ==
  /\ loop = "sendExit" /\ HasRoom
  /\ toServer' = Append(toServer, "exit")
  /\ loop' = Head(DropOrder)
  /\ count' = Plus("sent")
  /\ UNCHANGED <<cause, fromServer, toEditor>> /\ LoopUnchanged

\* Drop for ScopedThread: the thread is joined.
Joined(join) ==
  \/ join = "joinWriter" /\ writer.at = "done"
  \/ join = "joinReader" /\ reader = "done"
  \/ join = "joinErrors" /\ errors = "done"

Join ==
  /\ \E k \in 1..3 : loop = DropOrder[k] /\ Joined(loop) /\ loop' = DropOrder[k + 1]
  /\ UNCHANGED <<cause, channels, count>> /\ LoopUnchanged

Loop == Receive \/ Send \/ Disconnected \/ SendExit \/ Join

-----------------------------------------------------------------------------
(***************************************************************************)
(* The threads.                                                            *)
(***************************************************************************)

WriterUnchanged == UNCHANGED <<loopVars, fromServer, toEditor, reader, errors, stdout, stderr, server, count>>

\* Mutation: the writer stops as soon as its input is closed.
WriterReceiveHasty ==
  /\ writer.at = "receive"
  /\ IF Dropped("joinWriter")
     THEN writer' = [at |-> "wait", hand |-> None] /\ UNCHANGED toServer
     ELSE /\ toServer # <<>>
          /\ writer' = [at |-> "write", hand |-> Head(toServer)]
          /\ toServer' = Tail(toServer)
  /\ UNCHANGED stdin /\ WriterUnchanged

\* The next message; or there is none and never will be: the writer closes
\* standard input and waits for the child.
WriterReceive ==
  /\ writer.at = "receive"
  /\ \/ /\ toServer # <<>>
        /\ writer' = [at |-> "write", hand |-> Head(toServer)]
        /\ toServer' = Tail(toServer)
     \/ /\ toServer = <<>> /\ Dropped("joinWriter")
        /\ writer' = [at |-> "wait", hand |-> None]
        /\ UNCHANGED toServer
  /\ UNCHANGED stdin /\ WriterUnchanged

WriterWrite ==
  /\ writer.at = "write" /\ ~Dead
  /\ Len(stdin) < PipeSize
  /\ stdin' = Append(stdin, writer.hand)
  /\ writer' = [at |-> "receive", hand |-> None]
  /\ UNCHANGED toServer /\ WriterUnchanged

\* Writing to the pipe of a dead server raises SIGPIPE, and handle_interrupt ends
\* the process (main.rs).
WriterKilled ==
  /\ writer.at = "write" /\ Dead
  /\ loop' = "killed"
  /\ writer' = [at |-> "done", hand |-> None]
  /\ reader' = "done" /\ errors' = "done"
  /\ UNCHANGED <<cause, channels, pipes, server, count>>

\* child.wait()
WriterWait ==
  /\ writer.at = "wait" /\ Dead
  /\ writer' = [at |-> "done", hand |-> None]
  /\ UNCHANGED <<toServer, stdin>> /\ WriterUnchanged

ReaderUnchanged == UNCHANGED <<loopVars, toServer, writer, errors, stdin, stderr, server, count>>

\* Mutation: the channel to the event loop is bounded, too.
ReaderReadBounded ==
  /\ reader = "read"
  /\ stdout # <<>> /\ Len(fromServer) < Capacity
  /\ stdout' = Tail(stdout)
  /\ IF Head(stdout) = "garbage"
     THEN reader' = "log" /\ UNCHANGED fromServer
     ELSE /\ fromServer' = Append(fromServer, Head(stdout))
          /\ reader' = IF Dropped("joinReader") THEN "done" ELSE "read"
  /\ UNCHANGED toEditor /\ ReaderUnchanged

\* A message is put into a channel without bound.  At nonsense the reader gives up;
\* between two messages it looks if somebody is still interested.
ReaderRead ==
  /\ reader = "read"
  /\ stdout # <<>>
  /\ stdout' = Tail(stdout)
  /\ IF Head(stdout) = "garbage"
     THEN reader' = "log" /\ UNCHANGED fromServer
     ELSE /\ fromServer' = Append(fromServer, Head(stdout))
          /\ reader' = IF Dropped("joinReader") THEN "done" ELSE "read"
  /\ UNCHANGED toEditor /\ ReaderUnchanged

ReaderLog ==
  /\ reader = "log" /\ Logging
  /\ reader' = "done"
  /\ UNCHANGED <<fromServer, stdout>> /\ ReaderUnchanged

ReaderDone ==
  /\ reader = "read" /\ stdout = <<>> /\ Dead
  /\ reader' = "done"
  /\ UNCHANGED <<fromServer, toEditor, stdout>> /\ ReaderUnchanged

ErrorsUnchanged ==
  UNCHANGED <<loopVars, toServer, fromServer, writer, reader, stdin, stdout, server, count>>

ErrorsRead ==
  /\ errors = "read"
  /\ IF stderr > 0 THEN stderr' = stderr - 1 /\ errors' = "log"
                   ELSE Dead /\ errors' = "done" /\ UNCHANGED stderr
  /\ UNCHANGED toEditor /\ ErrorsUnchanged

ErrorsLog ==
  /\ errors = "log" /\ Logging
  /\ errors' = "read"
  /\ UNCHANGED stderr /\ ErrorsUnchanged

\* The thread of the editor transport has run kak -p.
ToEditor ==
  /\ toEditor > 0
  /\ toEditor' = toEditor - 1
  /\ UNCHANGED <<stderr, errors>> /\ ErrorsUnchanged

Writer == WriterReceive \/ WriterWrite \/ WriterKilled \/ WriterWait
Reader == ReaderRead \/ ReaderLog \/ ReaderDone
Errors == ErrorsRead \/ ErrorsLog

-----------------------------------------------------------------------------
(***************************************************************************)
(* The server.                                                             *)
(***************************************************************************)

ServerUnchanged == UNCHANGED <<loopVars, channels, writer, reader, errors>>

\* It answers a call; the exit notification may end it, but nobody relies on that.
ServerRead ==
  /\ server.at = "read" /\ stdin # <<>>
  /\ stdin' = Tail(stdin)
  /\ CASE Head(stdin) = "call" -> server' = [at |-> "write", hand |-> "answer"]
       [] Head(stdin) = "reply" -> UNCHANGED server
       [] Head(stdin) = "exit" -> server' \in {server, [at |-> "dead", hand |-> None]}
  /\ count' = Plus("heard")
  /\ UNCHANGED <<stdout, stderr>> /\ ServerUnchanged

\* The server has read its input to the end.
AtEof == server.at = "read" /\ stdin = <<>> /\ StdinClosed

\* "we rely on the assumption that language server will exit when its stdin is
\* closed"
ServerEof ==
  /\ AtEof
  /\ server' = [at |-> "dead", hand |-> None]
  /\ UNCHANGED <<pipes, count>> /\ ServerUnchanged

\* Once the reader has given up, what is written is lost; so is what follows nonsense.
ServerWrite ==
  /\ server.at = "write"
  /\ \/ /\ reader = "read" /\ Len(stdout) < PipeSize
        /\ stdout' = Append(stdout, server.hand)
        /\ count' = IF \E k \in 1..Len(stdout') : stdout'[k] = "garbage" THEN count ELSE Plus("spoken")
     \/ reader # "read" /\ UNCHANGED <<stdout, count>>
  /\ server' = [at |-> "read", hand |-> None]
  /\ UNCHANGED <<stdin, stderr>> /\ ServerUnchanged

ServerLog ==
  /\ server.at = "log" /\ stderr < PipeSize
  /\ stderr' = stderr + 1
  /\ server' = [at |-> "read", hand |-> None]
  /\ UNCHANGED <<stdin, stdout, count>> /\ ServerUnchanged

\* A message or log line of its own.
ServerEvent ==
  /\ server.at = "read" /\ count.events < MaxEvents
  /\ server' \in [at : {"write"}, hand : FromServer \ {"answer"}] \cup [at : {"log"}, hand : {None}]
  /\ count' = Plus("events")
  /\ UNCHANGED pipes /\ ServerUnchanged

ServerDies ==
  /\ ~Dead
  /\ server' = [at |-> "dead", hand |-> None]
  /\ stdin' = <<>>
  /\ UNCHANGED <<stdout, stderr, count>> /\ ServerUnchanged

Server == ServerRead \/ ServerEof \/ ServerWrite \/ ServerLog

-----------------------------------------------------------------------------

\* Nothing happens any more: the process has ended, or everyone waits for the
\* editor or for a message of the server's own.
Quiescent ==
  /\ \/ loop \in Over
     \/ loop = "idle" /\ reader = "read"
  /\ UNCHANGED vars

Next == Call \/ ExitRequested \/ Loop \/ Writer \/ Reader \/ Errors \/ ToEditor
        \/ Server \/ ServerEvent \/ ServerDies \/ Quiescent

Spec == Init /\ [][Next]_vars

\* Threads are scheduled, kak -p ends, and a living server reads, answers and ends
\* as it should.  Nothing makes it say anything of its own, or die.
FairSpec ==
  /\ Spec
  /\ WF_vars(Loop) /\ WF_vars(Writer) /\ WF_vars(Reader) /\ WF_vars(Errors) /\ WF_vars(ToEditor)
  /\ WF_vars(Server)

-----------------------------------------------------------------------------
(***************************************************************************)
(* Properties.                                                             *)
(***************************************************************************)

TypeOK ==
  /\ loop \in {"idle", "call", "reply"} \cup Left
  /\ cause \in {None, "exit", "disconnected"}
  /\ toServer \in Seq(ToServer) /\ Len(toServer) <= Capacity
  /\ fromServer \in Seq(FromServer \ {"garbage"})
  /\ toEditor \in 0..Capacity
  /\ writer \in [at : {"receive", "write", "wait", "done"}, hand : ToServer \cup {None}]
  /\ reader \in {"read", "log", "done"}
  /\ errors \in {"read", "log", "done"}
  /\ stdin \in Seq(ToServer) /\ Len(stdin) <= PipeSize
  /\ stdout \in Seq(FromServer) /\ Len(stdout) <= PipeSize
  /\ stderr \in 0..PipeSize
  /\ server \in [at : {"read", "write", "log", "dead"}, hand : FromServer \cup {None}]
  /\ count \in [Counters -> Nat]

\* A server that finds its input closed has heard everything that was sent to it,
\* the exit notification included: the writer empties the channel before it
\* closes the pipe.
HeardAtEof == AtEof => count.heard = count.sent

\* When the event loop gives up a server that is gone, it has processed every whole
\* message the server wrote before the nonsense or the end.
ReceivedAtEnd == cause = "disconnected" => count.received = count.spoken

\* Every call gets its answer, unless the server or the session ends: there is no
\* cycle of threads that wait for each other, however small the channels and pipes.
CallsGetAnswered == <>[](count.answers = count.calls \/ Dead \/ loop \in Left)

\* A server that dies is noticed, which ends the session; and once the event loop has
\* been left, the process ends, and then no thread of this server is left, and no
\* server.
StopEnds ==
  (Dead \/ loop \in Left) ~>
    loop \in Over /\ Dead /\ writer.at = "done" /\ reader = "done" /\ errors = "done"

=============================================================================
