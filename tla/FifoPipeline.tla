---------------------------- MODULE FifoPipeline ----------------------------
(***************************************************************************)
(* From the editor's fifos to the event loop (controller.rs), and the end  *)
(* of the process.  Three threads: the command reader moves bytes from the *)
(* two fifos into two shared buffers, each with a mutex and a condition    *)
(* variable; the command parser takes tokens out of the one and the text   *)
(* of a buffer out of the other; the event loop takes requests from the    *)
(* parser's channel.                                                       *)
(*                                                                         *)
(* To stop, the event loop joins the parser, which stops at kakoune/exit   *)
(* or when force_exit is set, wakes the reader until that has stopped too, *)
(* and only then ends.                                                     *)
(*                                                                         *)
(* A mutex is held over several steps only where that matters: while the   *)
(* parser has found nothing to read and is about to wait ("aboutTo...").   *)
(***************************************************************************)
EXTENDS Integers, Sequences, FiniteSets

CONSTANTS
  Kinds,       \* the kinds of messages the editor sends
  MaxMessages, \* bound: messages in a behaviour
  MaxLines     \* bound: lines of a buffer

ASSUME FifoPipelineAssumption ==
  /\ Kinds \subseteq {"plain", "text", "exit", "foreign"}
  /\ MaxMessages \in Nat
  /\ MaxLines \in Nat \ {0}

VARIABLES
  script,      \* history: the messages the editor has sent
  unwritten,   \* what the editor is still writing of the last one
  fifo,        \* the command fifo
  altFifo,     \* the buffer fifo
  cmdBuffer,   \* command_buffer
  textBuffer,  \* text_buffer
  forceExit,   \* force_exit
  readerDone,  \* FIFO_READER_DONE
  wake,        \* fifo_reader_waker has been called
  reader,      \* where the command reader is, and what poll found readable
  parser,      \* where the command parser is
  parsed,      \* history: messages it has read
  channel,     \* its output channel
  taken,       \* history: what it has put into the channel
  loop,        \* where the event loop is
  cause        \* history: why it was left

editorVars == <<script, unwritten>>
readerVars == <<readerDone, reader>>
parserVars == <<parser, parsed, taken>>
loopVars == <<loop, cause, forceExit>>
vars == <<editorVars, fifo, altFifo, cmdBuffer, textBuffer, wake, readerVars,
          parserVars, channel, loopVars>>

-----------------------------------------------------------------------------

\* Half a line of message k's text; the second half ends with the newline.
Cell == [msg : Nat, newline : BOOLEAN]
TextOf(k, lines) == [i \in 1..2 * lines |-> [msg |-> k, newline |-> i % 2 = 0]]

\* A message.  "foreign" messages name another session; "broken" ones carry an
\* option that does not parse as TOML.
Message == [kind : Kinds, broken : BOOLEAN, text : Seq(Cell)]

Newlines(text) == Cardinality({i \in DOMAIN text : text[i].newline})

Init ==
  /\ script = <<>>
  /\ unwritten = <<>>
  /\ fifo = <<>> /\ altFifo = <<>>
  /\ cmdBuffer = <<>> /\ textBuffer = <<>>
  /\ forceExit = FALSE
  /\ readerDone = FALSE
  /\ wake = FALSE
  /\ reader = [at |-> "poll", cmd |-> FALSE, text |-> FALSE]
  /\ parser = "token"
  /\ parsed = 0
  /\ channel = <<>>
  /\ taken = <<>>
  /\ loop = "running"
  /\ cause = "none"

-----------------------------------------------------------------------------
(***************************************************************************)
(* The editor: lsp-do-send writes the command, then lsp-send-buffer the    *)
(* text.  All tokens of a command are one here, named by its number.       *)
(***************************************************************************)

\* The fifos are removed when the event loop has been left (do_cleanup).
Listening == loop \in {"running", "forcing"}

SendMessage(kind, broken, lines) ==
  /\ unwritten = <<>> /\ Listening
  /\ Len(script) < MaxMessages
  /\ \A i \in DOMAIN script : script[i].kind # "exit"
  /\ kind = "text" <=> lines > 0
  /\ LET text == TextOf(Len(script) + 1, lines) IN
     /\ script' = Append(script, [kind |-> kind, broken |-> broken, text |-> text])
     /\ unwritten' = text
  /\ fifo' = Append(fifo, Len(script) + 1)
  /\ UNCHANGED <<altFifo, cmdBuffer, textBuffer, wake, readerVars, parserVars, channel, loopVars>>

WriteText ==
  /\ unwritten # <<>> /\ Listening
  /\ altFifo' = Append(altFifo, Head(unwritten))
  /\ unwritten' = Tail(unwritten)
  /\ UNCHANGED <<script, fifo, cmdBuffer, textBuffer, wake, readerVars, parserVars, channel, loopVars>>

-----------------------------------------------------------------------------
(***************************************************************************)
(* The condition variables: whoever waits looks at its buffer again.       *)
(***************************************************************************)

\* A buffer's mutex is held by the parser.
Locked(place) == parser = place

Notified(p, places) ==
  IF p = "waitingForToken" /\ "command" \in places THEN "token"
  ELSE IF p = "waitingForText" /\ "text" \in places THEN "text"
  ELSE p

-----------------------------------------------------------------------------
(***************************************************************************)
(* The command reader.                                                     *)
(***************************************************************************)

ReaderUnchanged == UNCHANGED <<editorVars, parsed, taken, channel, loopVars>>

\* Where the reader is once it has read what poll said there is, but for these.
Reading(done, cmd, text) ==
  [at |-> IF cmd \/ text THEN "read" ELSE IF done THEN "done" ELSE "poll",
   cmd |-> cmd, text |-> text]

Poll ==
  /\ reader.at = "poll"
  /\ wake \/ fifo # <<>> \/ altFifo # <<>>
  /\ readerDone' = (readerDone \/ wake)
  /\ wake' = FALSE
  /\ reader' = Reading(readerDone', fifo # <<>>, altFifo # <<>>)
  /\ UNCHANGED <<fifo, altFifo, cmdBuffer, textBuffer, parser>> /\ ReaderUnchanged

\* read_to_end of the command fifo, and the notification that follows it.
ReadCommands ==
  /\ reader.at = "read" /\ reader.cmd
  /\ ~Locked("aboutToWaitForToken")
  /\ cmdBuffer' = cmdBuffer \o fifo
  /\ fifo' = <<>>
  /\ reader' = [reader EXCEPT !.at = "notifyCommand"]
  /\ UNCHANGED <<altFifo, textBuffer, wake, readerDone, parser>> /\ ReaderUnchanged

NotifyCommand ==
  /\ reader.at = "notifyCommand"
  /\ parser' = Notified(parser, {"command"})
  /\ reader' = Reading(readerDone, FALSE, reader.text)
  /\ UNCHANGED <<fifo, altFifo, cmdBuffer, textBuffer, wake, readerDone>> /\ ReaderUnchanged

\* The same for the buffer fifo.
ReadText ==
  /\ reader.at = "read" /\ ~reader.cmd /\ reader.text
  /\ ~Locked("aboutToWaitForText")
  /\ textBuffer' = textBuffer \o altFifo
  /\ altFifo' = <<>>
  /\ reader' = [reader EXCEPT !.at = "notifyText"]
  /\ UNCHANGED <<fifo, cmdBuffer, wake, readerDone, parser>> /\ ReaderUnchanged

\* Mutation: the waiter for a text is not told.
NotifyTextless ==
  /\ reader.at = "notifyText"
  /\ reader' = Reading(readerDone, FALSE, FALSE)
  /\ UNCHANGED <<fifo, altFifo, cmdBuffer, textBuffer, wake, readerDone, parser>> /\ ReaderUnchanged

NotifyText ==
  /\ reader.at = "notifyText"
  /\ parser' = Notified(parser, {"text"})
  /\ reader' = Reading(readerDone, FALSE, FALSE)
  /\ UNCHANGED <<fifo, altFifo, cmdBuffer, textBuffer, wake, readerDone>> /\ ReaderUnchanged

Reader == Poll \/ ReadCommands \/ NotifyCommand \/ ReadText \/ NotifyText

-----------------------------------------------------------------------------
(***************************************************************************)
(* The command parser.                                                     *)
(***************************************************************************)

ParserUnchanged == UNCHANGED <<editorVars, fifo, altFifo, readerVars, loopVars>>

Current == parsed + 1

\* The end of dispatch_fifo_request: a request with a broken option is dropped,
\* kakoune/exit is the last one.
Deliver(text) ==
  LET m == script[Current]
      request == [kind |-> m.kind, broken |-> m.broken, text |-> text]
  IN
  /\ parsed' = Current
  /\ IF m.broken
     THEN parser' = "token" /\ UNCHANGED <<channel, taken>>
     ELSE /\ channel' = Append(channel, request)
          /\ taken' = Append(taken, request)
          /\ parser' = IF m.kind = "exit" THEN "stopping" ELSE "token"

\* Mutation: a text is expected for every command.
ReadTokenForText ==
  /\ parser = "token" /\ cmdBuffer # <<>>
  /\ cmdBuffer' = Tail(cmdBuffer)
  /\ parser' = "text"
  /\ UNCHANGED <<parsed, channel, taken, textBuffer, wake>> /\ ParserUnchanged

\* dispatch_fifo_request up to the text, if the command has one.
ReadToken ==
  /\ parser = "token" /\ cmdBuffer # <<>>
  /\ cmdBuffer' = Tail(cmdBuffer)
  /\ IF script[Head(cmdBuffer)].kind = "text"
     THEN parser' = "text" /\ UNCHANGED <<parsed, channel, taken>>
     ELSE Deliver(<<>>)
  /\ UNCHANGED <<textBuffer, wake>> /\ ParserUnchanged

Lines == Newlines(script[Current].text)

\* Mutation: the text ends at the last newline there is.
CutAtLast(text, lines) ==
  CHOOSE i \in DOMAIN text : text[i].newline /\ Newlines(SubSeq(text, 1, i)) = Newlines(text)

\* text_of_buffer: the text ends at the newline of its last line; the newlines
\* in excess belong to the texts that follow.
CutAt(text, lines) ==
  CHOOSE i \in DOMAIN text : text[i].newline /\ Newlines(SubSeq(text, 1, i)) = lines

ReadBufferText ==
  /\ parser = "text" /\ Newlines(textBuffer) >= Lines
  /\ LET cut == CutAt(textBuffer, Lines) IN
     /\ Deliver(SubSeq(textBuffer, 1, cut))
     /\ textBuffer' = SubSeq(textBuffer, cut + 1, Len(textBuffer))
  /\ UNCHANGED <<cmdBuffer, wake>> /\ ParserUnchanged

\* at_end: the parser holds the mutex and finds that there is nothing (more) to
\* read.  It gives up if it is to stop; or else it is going to wait.
AtEnd ==
  /\ \/ parser = "token" /\ cmdBuffer = <<>>
     \/ parser = "text" /\ Newlines(textBuffer) < Lines
  /\ parser' = IF forceExit THEN "stopping"
               ELSE IF parser = "token" THEN "aboutToWaitForToken" ELSE "aboutToWaitForText"
  /\ UNCHANGED <<parsed, taken, channel, cmdBuffer, textBuffer, wake>> /\ ParserUnchanged

\* Condvar::wait: release the mutex and wait, at once.
Wait ==
  /\ parser \in {"aboutToWaitForToken", "aboutToWaitForText"}
  /\ parser' = IF parser = "aboutToWaitForToken" THEN "waitingForToken" ELSE "waitingForText"
  /\ UNCHANGED <<parsed, taken, channel, cmdBuffer, textBuffer, wake>> /\ ParserUnchanged

\* The parser stops: wake the reader until it has seen that it is to stop, too.
WakeReader ==
  /\ parser = "stopping" /\ ~readerDone /\ ~wake
  /\ wake' = TRUE
  /\ UNCHANGED <<parserVars, channel, cmdBuffer, textBuffer>> /\ ParserUnchanged

ParserDone ==
  /\ parser = "stopping" /\ readerDone
  /\ parser' = "done"
  /\ UNCHANGED <<parsed, taken, channel, cmdBuffer, textBuffer, wake>> /\ ParserUnchanged

Parser == ReadToken \/ ReadBufferText \/ AtEnd \/ Wait \/ WakeReader \/ ParserDone

-----------------------------------------------------------------------------
(***************************************************************************)
(* The event loop.                                                         *)
(***************************************************************************)

LoopUnchanged ==
  UNCHANGED <<editorVars, fifo, altFifo, cmdBuffer, textBuffer, readerVars, wake,
              parsed, taken>>

\* process_editor_request, as far as it may leave the loop: at kakoune/exit and
\* at a message of another session.
ReceiveRequest ==
  /\ loop = "running" /\ channel # <<>>
  /\ channel' = Tail(channel)
  /\ IF Head(channel).kind \in {"exit", "foreign"}
     THEN loop' = "joiningParser" /\ cause' = Head(channel).kind
     ELSE UNCHANGED <<loop, cause>>
  /\ UNCHANGED <<forceExit, parser>> /\ LoopUnchanged

\* Mutation: force_exit is set without the mutexes.
ForceExitUnlocked ==
  /\ loop = "running"
  /\ forceExit' = TRUE
  /\ loop' = "forcing" /\ cause' = "force"
  /\ UNCHANGED <<parser, channel>> /\ LoopUnchanged

\* trigger_force_exit, when the idle timeout runs out or a language server or
\* the file watcher is gone: under both mutexes, set force_exit ...
ForceExit ==
  /\ loop = "running"
  /\ ~Locked("aboutToWaitForToken") /\ ~Locked("aboutToWaitForText")
  /\ forceExit' = TRUE
  /\ loop' = "forcing" /\ cause' = "force"
  /\ UNCHANGED <<parser, channel>> /\ LoopUnchanged

\* Mutation: only the command buffer's waiter is told.
NotifyCommandOnly ==
  /\ loop = "forcing"
  /\ parser' = Notified(parser, {"command"})
  /\ loop' = "joiningParser"
  /\ UNCHANGED <<channel, forceExit, cause>> /\ LoopUnchanged

\* ... and then notify both condition variables.
NotifyBoth ==
  /\ loop = "forcing"
  /\ parser' = Notified(parser, {"command", "text"})
  /\ loop' = "joiningParser"
  /\ UNCHANGED <<channel, forceExit, cause>> /\ LoopUnchanged

\* The workers are dropped in the reverse order of their creation.
JoinParser ==
  /\ loop = "joiningParser" /\ parser = "done"
  /\ loop' = "joiningReader"
  /\ UNCHANGED <<channel, forceExit, cause, parser>> /\ LoopUnchanged

JoinReader ==
  /\ loop = "joiningReader" /\ reader.at = "done"
  /\ loop' = "ended"
  /\ UNCHANGED <<channel, forceExit, cause, parser>> /\ LoopUnchanged

Loop == ReceiveRequest \/ NotifyBoth \/ JoinParser \/ JoinReader

-----------------------------------------------------------------------------

Editor ==
  \/ \E kind \in Kinds, broken \in BOOLEAN, lines \in 0..MaxLines : SendMessage(kind, broken, lines)
  \/ WriteText

\* The editor may stay silent, and the process may have ended; or it never will,
\* see WorkerStops.
Quiescent ==
  /\ parser \in {"waitingForToken", "waitingForText", "done"}
  /\ reader.at \in {"poll", "done"}
  /\ loop \in {"running", "joiningParser", "ended"}
  /\ UNCHANGED vars

Next == Editor \/ Reader \/ Parser \/ Loop \/ ForceExit \/ Quiescent

Spec == Init /\ [][Next]_vars

\* The threads are scheduled and the editor finishes what it writes; nothing
\* obliges it to send more, nor the process to be forced to exit.
FairSpec ==
  /\ Spec
  /\ WF_vars(Reader) /\ WF_vars(Parser) /\ WF_vars(Loop)
  /\ WF_vars(WriteText)

-----------------------------------------------------------------------------
(***************************************************************************)
(* Properties.                                                             *)
(***************************************************************************)

Places == {"token", "aboutToWaitForToken", "waitingForToken", "text", "aboutToWaitForText",
           "waitingForText", "stopping", "done"}

\* Type invariant.  The parser is at a text only in a message that has one.
TypeOK ==
  /\ script \in Seq(Message) /\ taken \in Seq(Message) /\ channel \in Seq(Message)
  /\ unwritten \in Seq(Cell)
  /\ fifo \in Seq(Nat) /\ cmdBuffer \in Seq(Nat)
  /\ altFifo \in Seq(Cell) /\ textBuffer \in Seq(Cell)
  /\ forceExit \in BOOLEAN /\ readerDone \in BOOLEAN /\ wake \in BOOLEAN
  /\ reader \in [at : {"poll", "read", "notifyCommand", "notifyText", "done"},
                 cmd : BOOLEAN, text : BOOLEAN]
  /\ parser \in Places
  /\ parsed \in 0..Len(script)
  /\ loop \in {"running", "forcing", "joiningParser", "joiningReader", "ended"}
  /\ cause \in {"none", "exit", "foreign", "force"}
  /\ parser \in {"text", "aboutToWaitForText", "waitingForText"} =>
       parsed < Len(script) /\ script[Current].kind = "text"

\* Whoever waits has a reason to: while the parser waits, or is about to, its
\* buffer holds nothing for it and force_exit is not set, or the notification
\* is still to come.  (This is what the mutexes are for.)
WaitJustified ==
  /\ parser \in {"aboutToWaitForToken", "waitingForToken"} =>
       /\ cmdBuffer = <<>> \/ reader.at = "notifyCommand"
       /\ ~forceExit \/ loop = "forcing"
  /\ parser \in {"aboutToWaitForText", "waitingForText"} =>
       /\ Newlines(textBuffer) < Lines \/ reader.at = "notifyText"
       /\ ~forceExit \/ loop = "forcing"
  /\ parser \in {"aboutToWaitForToken", "aboutToWaitForText"} => ~forceExit

\* The pipeline is a channel: whatever the interleaving of the two fifos, every
\* message that is not refused gets to the event loop in order and with its own
\* text (next_string, text_of_buffer, dispatch_fifo_request).
Channel ==
  INSTANCE EditorChannel WITH
    Content <- [kind : Kinds, broken : BOOLEAN,
                text : {<<>>} \cup {TextOf(k, n) : k \in 1..MaxMessages, n \in 1..MaxLines}],
    queue <- SubSeq(script, parsed + 1, Len(script)),
    taken <- taken

ChannelSpec == Channel!Spec

\* What the editor sends gets parsed, as long as the event loop is there.
MessagesArrive ==
  \A k \in 1..MaxMessages : Len(script) >= k ~> (parsed >= k \/ loop # "running")

\* Once the event loop is left at kakoune/exit, or forced to, all threads stop
\* and the process ends, whatever the threads were doing.
ShutdownEnds == loop = "joiningParser" /\ cause \in {"exit", "force"} ~> loop = "ended"

\* "A wrapper around event-processing thread with automatic shutdown semantics"
\* (thread_worker.rs): whenever the event loop is left, its workers stop.
WorkerStops == loop = "joiningParser" ~> loop = "ended"

=============================================================================
