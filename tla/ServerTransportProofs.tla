----------------------- MODULE ServerTransportProofs -----------------------
(***************************************************************************)
(* Proofs about ServerTransport, for channels and pipes of any size and    *)
(* any number of calls and events.                                         *)
(***************************************************************************)
EXTENDS ServerTransport, TLAPS

\* What the type invariant needs beside itself: who is about to write has something
\* in hand.
Handed ==
  /\ writer.at = "write" => writer.hand # None
  /\ server.at = "write" => server.hand # None

TypeInv == TypeOK /\ Handed

\* The input of the server: what was sent and not yet heard is in the channel, in the
\* hand of the writer or in the pipe, until the server dies; and when the pipe is
\* closed the channel is empty, and nobody is left to put anything into it.
InputFlow ==
  \/ Dead
  \/ count.sent = count.heard + Len(toServer) + Len(stdin) + (IF writer.at = "write" THEN 1 ELSE 0)

InputClosed == StdinClosed => Dead \/ (toServer = <<>> /\ loop \in Joins \cup Over)

\* The output of the server: the first n messages of the pipe are whole, and nonsense
\* or nothing comes behind them.
WholeMessages(n) ==
  /\ n \in 0..Len(stdout)
  /\ \A k \in 1..n : stdout[k] # "garbage"
  /\ n < Len(stdout) => stdout[n + 1] = "garbage"

\* As long as the event loop runs, whole messages that were written and not yet
\* received are in the channel or at the front of the pipe; once the reader is gone
\* they are all in the channel.
OutputFlow ==
  loop \notin Left =>
    \E n \in Nat :
      /\ reader = "read" => WholeMessages(n)
      /\ count.spoken = count.received + Len(fromServer) + (IF reader = "read" THEN n ELSE 0)

\* A server given up as gone: nothing is read from it any more, and nothing was missed.
OutputEnded ==
  cause = "disconnected" => loop \in Left /\ reader # "read" /\ count.received = count.spoken

FlowInv == InputFlow /\ InputClosed /\ OutputFlow /\ OutputEnded

-----------------------------------------------------------------------------
(***************************************************************************)
(* Helpers.                                                                *)
(***************************************************************************)

\* An input whose owner was dropped belongs to an event loop that joins its threads.
LEMMA DroppedJoins ==
  ASSUME NEW join, Dropped(join)
  PROVE  loop \in Joins \cup Over
<1>1. PICK k \in 1..3, m \in 1..4 : DropOrder[m] = loop
  BY DEF Dropped
<1>2. m = 1 \/ m = 2 \/ m = 3 \/ m = 4
  OBVIOUS
<1>3. QED BY <1>1, <1>2 DEF DropOrder, Joins, Over

\* Joining a thread leads to the next one, and at last to the end.
LEMMA JoinJoins ==
  ASSUME Join
  PROVE  loop \in Joins \cup Over /\ loop' \in Joins \cup Over /\ loop' # "sendExit"
<1>1. PICK k \in 1..3 : loop = DropOrder[k] /\ loop' = DropOrder[k + 1]
  BY DEF Join
<1>2. k = 1 \/ k = 2 \/ k = 3
  OBVIOUS
<1>3. QED BY <1>1, <1>2 DEF DropOrder, Joins, Over

LEMMA PlusType ==
  ASSUME count \in [Counters -> Nat], NEW c \in Counters
  PROVE  /\ Plus(c) \in [Counters -> Nat]
         /\ Plus(c)[c] = count[c] + 1
         /\ \A d \in Counters \ {c} : Plus(c)[d] = count[d]
BY DEF Plus

\* What is left of the whole messages of a pipe when one was taken.
LEMMA WholeTail ==
  ASSUME stdout \in Seq(FromServer), stdout # <<>>, stdout' = Tail(stdout),
         Head(stdout) # "garbage", NEW n \in Nat, WholeMessages(n)
  PROVE  n > 0 /\ WholeMessages(n - 1)'
<1>1. Len(stdout) > 0 /\ stdout[1] = Head(stdout)
  OBVIOUS
<1>2. n # 0
  BY <1>1 DEF WholeMessages
<1>3. Len(stdout') = Len(stdout) - 1 /\ \A k \in 1..Len(stdout') : stdout'[k] = stdout[k + 1]
  BY <1>1
<1>4. QED BY <1>1, <1>2, <1>3 DEF WholeMessages

\* A message written behind whole messages is whole; behind nonsense, it does not count.
LEMMA WholeAppend ==
  ASSUME stdout \in Seq(FromServer), NEW m \in FromServer, stdout' = Append(stdout, m),
         NEW n \in Nat, WholeMessages(n)
  PROVE  IF \E k \in 1..Len(stdout') : stdout'[k] = "garbage"
         THEN WholeMessages(n)' ELSE n = Len(stdout) /\ WholeMessages(n + 1)'
<1>1. /\ Len(stdout') = Len(stdout) + 1
      /\ stdout'[Len(stdout) + 1] = m
      /\ \A k \in 1..Len(stdout) : stdout'[k] = stdout[k]
  OBVIOUS
<1>2. CASE \E k \in 1..Len(stdout') : stdout'[k] = "garbage"
  <2>1. CASE n < Len(stdout)
    BY <2>1, <1>1, <1>2 DEF WholeMessages
  <2>2. CASE n = Len(stdout)
    <3>1. m = "garbage"
      BY <2>2, <1>1, <1>2 DEF WholeMessages
    <3>2. QED BY <2>2, <3>1, <1>1, <1>2 DEF WholeMessages
  <2>3. QED BY <2>1, <2>2 DEF WholeMessages
<1>3. CASE ~\E k \in 1..Len(stdout') : stdout'[k] = "garbage"
  <2>1. n = Len(stdout)
    BY <1>1, <1>3 DEF WholeMessages
  <2>2. QED BY <2>1, <1>1, <1>3 DEF WholeMessages
<1>4. QED BY <1>2, <1>3

-----------------------------------------------------------------------------
(***************************************************************************)
(* Types.                                                                  *)
(***************************************************************************)

LEMMA InitTypes == Init => TypeInv
BY ServerTransportAssumption
   DEF Init, TypeInv, TypeOK, Handed, None, ToServer, FromServer, Counters

LEMMA LoopTypes ==
  ASSUME TypeInv, Call \/ ExitRequested \/ Loop
  PROVE  TypeInv'
<1> USE DEF TypeInv, TypeOK, Handed, LoopUnchanged, channels, pipes, Left
<1>0. {"calls", "sent"} \subseteq Counters /\ "received" \in Counters /\ "answers" \in Counters
  BY DEF Counters
<1>1. CASE Call
  <2>1. count' \in [Counters -> Nat]
    <3>1. count \in [Counters -> Nat] /\ count' = Plus("calls")
      BY <1>1 DEF Call
    <3>2. QED BY ONLY <1>0, <3>1, PlusType
  <2>2. QED BY <1>1, <2>1 DEF Call
<1>2. CASE ExitRequested
  BY <1>2 DEF ExitRequested
<1>3. CASE Receive
  <2>1. count' \in [Counters -> Nat]
    <3> DEFINE answers == IF Head(fromServer) = "answer" THEN count["answers"] + 1 ELSE count["answers"]
    <3>1. count["received"] + 1 \in Nat /\ answers \in Nat
      BY <1>0
    <3>2. count' = [[count EXCEPT !["received"] = count["received"] + 1] EXCEPT !["answers"] = answers]
      BY <1>0, <1>3 DEF Receive
    <3> HIDE DEF answers
    <3>3. QED BY <1>0, <3>1, <3>2
  <2>2. fromServer' \in Seq(FromServer \ {"garbage"})
    BY <1>3 DEF Receive
  <2>3. QED BY <1>3, <2>1, <2>2 DEF Receive
<1>4. CASE Send \/ SendExit
  <2>1. count' \in [Counters -> Nat]
    <3>1. count \in [Counters -> Nat] /\ count' = Plus("sent")
      BY <1>4 DEF Send, SendExit
    <3>2. QED BY ONLY <1>0, <3>1, PlusType
  <2>2. toServer' \in Seq(ToServer) /\ Len(toServer') <= Capacity
    <3>1. PICK m \in ToServer : toServer' = Append(toServer, m)
      BY <1>4 DEF Send, SendExit, ToServer
    <3>2. Len(toServer) < Capacity
      BY <1>4 DEF Send, SendExit, HasRoom
    <3>3. toServer \in Seq(ToServer)
      OBVIOUS
    <3>4. toServer' \in Seq(ToServer)
      BY ONLY <3>1, <3>3
    <3>5. Len(toServer') = Len(toServer) + 1 /\ Len(toServer) \in Nat
      BY ONLY <3>1, <3>3
    <3>6. Capacity \in Nat
      BY ServerTransportAssumption
    <3>7. Len(toServer') <= Capacity
      BY ONLY <3>2, <3>5, <3>6
    <3>8. QED BY <3>4, <3>7
  <2>3. Head(DropOrder) \in Joins
    BY DEF DropOrder, Joins
  <2>4. QED BY <1>4, <2>1, <2>2, <2>3 DEF Send, SendExit
<1>5. CASE Disconnected
  BY <1>5 DEF Disconnected
<1>6. CASE Join
  BY <1>6, JoinJoins DEF Join
<1>7. QED BY <1>1, <1>2, <1>3, <1>4, <1>5, <1>6 DEF Loop

LEMMA ThreadTypes ==
  ASSUME TypeInv, Writer \/ Reader \/ Errors \/ ToEditor
  PROVE  TypeInv'
<1> USE ServerTransportAssumption
<1> USE DEF TypeInv, TypeOK, Handed, loopVars, WriterUnchanged, ReaderUnchanged, ErrorsUnchanged, None
<1>1. CASE WriterReceive
  <2>1. CASE toServer # <<>> /\ writer' = [at |-> "write", hand |-> Head(toServer)]
             /\ toServer' = Tail(toServer)
    BY <1>1, <2>1 DEF WriterReceive, ToServer
  <2>2. CASE writer' = [at |-> "wait", hand |-> None] /\ UNCHANGED toServer
    BY <1>1, <2>2 DEF WriterReceive
  <2>3. QED BY <1>1, <2>1, <2>2 DEF WriterReceive
<1>2. CASE WriterWrite
  <2>1. stdin' \in Seq(ToServer) /\ Len(stdin') <= PipeSize
    BY <1>2 DEF WriterWrite
  <2>2. QED BY <1>2, <2>1 DEF WriterWrite
<1>3. CASE WriterKilled \/ WriterWait
  BY <1>3 DEF WriterKilled, WriterWait, channels, pipes, Left, Over
<1>4. CASE ReaderRead
  <2>1. stdout' \in Seq(FromServer) /\ Len(stdout') <= PipeSize
    BY <1>4 DEF ReaderRead
  <2>2. fromServer' \in Seq(FromServer \ {"garbage"})
    <3>1. Head(stdout) \in FromServer
      BY <1>4 DEF ReaderRead
    <3>2. CASE Head(stdout) = "garbage"
      BY <1>4, <3>2 DEF ReaderRead
    <3>3. CASE Head(stdout) # "garbage"
      <4>1. fromServer' = Append(fromServer, Head(stdout))
        BY <1>4, <3>3 DEF ReaderRead
      <4>2. Head(stdout) \in FromServer \ {"garbage"}
        BY <3>1, <3>3
      <4>3. QED BY <4>1, <4>2
    <3>4. QED BY <3>2, <3>3
  <2>3. reader' \in {"read", "log", "done"}
    BY <1>4 DEF ReaderRead
  <2>4. QED BY <1>4, <2>1, <2>2, <2>3 DEF ReaderRead
<1>5. CASE ReaderLog \/ ReaderDone
  BY <1>5 DEF ReaderLog, ReaderDone, Logging
<1>6. CASE Errors \/ ToEditor
  BY <1>6 DEF Errors, ErrorsRead, ErrorsLog, ToEditor, Logging
<1>7. QED BY <1>1, <1>2, <1>3, <1>4, <1>5, <1>6 DEF Writer, Reader

LEMMA ServerTypes ==
  ASSUME TypeInv, Server \/ ServerEvent \/ ServerDies
  PROVE  TypeInv'
<1> USE ServerTransportAssumption
<1> USE DEF TypeInv, TypeOK, Handed, loopVars, channels, pipes, ServerUnchanged, None
<1>0. {"heard", "spoken", "events"} \subseteq Counters
  BY DEF Counters
<1>1. CASE ServerRead
  <2>1. count' \in [Counters -> Nat]
    <3>1. count \in [Counters -> Nat] /\ count' = Plus("heard")
      BY <1>1 DEF ServerRead
    <3>2. QED BY ONLY <1>0, <3>1, PlusType
  <2>2. stdin' \in Seq(ToServer) /\ Len(stdin') <= PipeSize
    BY <1>1 DEF ServerRead
  <2>3. Head(stdin) \in {"call", "reply", "exit"}
    BY <1>1 DEF ServerRead, ToServer
  <2>4. server' \in [at : {"read", "write", "log", "dead"}, hand : FromServer \cup {None}] /\ Handed'
    <3>1. CASE Head(stdin) = "call"
      <4>1. server' = [at |-> "write", hand |-> "answer"]
        BY <1>1, <3>1 DEF ServerRead
      <4>2. QED BY <1>1, <4>1 DEF ServerRead, FromServer
    <3>2. CASE Head(stdin) = "reply"
      BY <1>1, <3>2 DEF ServerRead
    <3>3. CASE Head(stdin) = "exit"
      <4>1. server' = server \/ server' = [at |-> "dead", hand |-> None]
        BY <1>1, <3>3 DEF ServerRead
      <4>2. QED BY <1>1, <4>1 DEF ServerRead
    <3>4. QED BY <2>3, <3>1, <3>2, <3>3
  <2>5. QED BY <1>1, <2>1, <2>2, <2>4 DEF ServerRead
<1>2. CASE ServerEof \/ ServerDies
  <2>1. server' = [at |-> "dead", hand |-> None]
    BY <1>2 DEF ServerEof, ServerDies
  <2>2. stdin' \in Seq(ToServer) /\ Len(stdin') <= PipeSize
    <3>1. <<>> \in Seq(ToServer) /\ Len(<<>>) <= PipeSize
      OBVIOUS
    <3>2. stdin' = stdin \/ stdin' = <<>>
      BY <1>2 DEF ServerEof, ServerDies
    <3>3. QED BY <3>1, <3>2
  <2>3. QED BY <1>2, <2>1, <2>2 DEF ServerEof, ServerDies
<1>3. CASE ServerWrite
  <2>1. count' \in [Counters -> Nat]
    <3>1. count' = count \/ count' = Plus("spoken")
      BY <1>3 DEF ServerWrite
    <3>2. Plus("spoken") \in [Counters -> Nat]
      <4>1. count \in [Counters -> Nat]
        OBVIOUS
      <4>2. QED BY ONLY <1>0, <4>1, PlusType
    <3>3. QED BY <3>1, <3>2
  <2>2. stdout' \in Seq(FromServer) /\ Len(stdout') <= PipeSize
    <3>1. CASE Len(stdout) < PipeSize /\ stdout' = Append(stdout, server.hand)
      <4>1. server.hand \in FromServer
        BY <1>3 DEF ServerWrite
      <4>2. QED BY <3>1, <4>1
    <3>2. CASE UNCHANGED stdout
      BY <3>2
    <3>3. QED BY <1>3, <3>1, <3>2 DEF ServerWrite
  <2>3. QED BY <1>3, <2>1, <2>2 DEF ServerWrite
<1>4. CASE ServerLog
  BY <1>4 DEF ServerLog
<1>5. CASE ServerEvent
  <2>1. count' \in [Counters -> Nat]
    <3>1. count \in [Counters -> Nat] /\ count' = Plus("events")
      BY <1>5 DEF ServerEvent
    <3>2. QED BY ONLY <1>0, <3>1, PlusType
  <2>2. QED BY <1>5, <2>1 DEF ServerEvent, FromServer
<1>6. QED BY <1>1, <1>2, <1>3, <1>4, <1>5 DEF Server

LEMMA TypeStep == TypeInv /\ [Next]_vars => TypeInv'
<1> SUFFICES ASSUME TypeInv, [Next]_vars PROVE TypeInv'
  OBVIOUS
<1>1. CASE UNCHANGED vars
  BY <1>1 DEF vars, loopVars, channels, pipes, TypeInv, TypeOK, Handed
<1>2. CASE Next
  BY <1>1, <1>2, LoopTypes, ThreadTypes, ServerTypes DEF Next, Quiescent
<1>3. QED BY <1>1, <1>2

\* Channels and pipes never hold more than they can, threads and the server are in
\* known places, and no nonsense reaches the event loop.
THEOREM TypeCorrect == Spec => []TypeOK
<1>1. TypeInv => TypeOK
  BY DEF TypeInv
<1>2. QED BY InitTypes, TypeStep, <1>1, PTL DEF Spec

-----------------------------------------------------------------------------
(***************************************************************************)
(* The two directions.  Each step is followed through the event loop, the  *)
(* threads and the server.                                                 *)
(***************************************************************************)

LEMMA InitFlows == Init => FlowInv
<1> SUFFICES ASSUME Init PROVE FlowInv
  OBVIOUS
<1>1. {"sent", "heard", "spoken", "received"} \subseteq Counters
  BY DEF Counters
<1>2. InputFlow /\ InputClosed
  BY <1>1 DEF Init, InputFlow, InputClosed, StdinClosed
<1>3. WholeMessages(0)
  BY DEF Init, WholeMessages
<1>4. OutputFlow
  BY <1>1, <1>3 DEF Init, OutputFlow
<1>5. OutputEnded
  BY DEF Init, OutputEnded, None
<1>6. QED BY <1>2, <1>4, <1>5 DEF FlowInv

\* A server once dead stays so.
LEMMA DeadStays ==
  ASSUME Next, Dead
  PROVE  Dead'
BY DEF Next, Loop, Call, ExitRequested, Receive, Send, Disconnected, SendExit, Join,
       LoopUnchanged, Writer, WriterReceive, WriterWrite, WriterKilled, WriterWait, WriterUnchanged,
       Reader, ReaderRead, ReaderLog, ReaderDone, ReaderUnchanged, Errors, ErrorsRead, ErrorsLog,
       ToEditor, ErrorsUnchanged, Server, ServerRead, ServerEof, AtEof, ServerWrite, ServerLog,
       ServerEvent, ServerDies, Quiescent, vars, Dead

\* But for its death the messages on their way to it
\* are all those it has not heard.
LEMMA InputFlowStep ==
  ASSUME TypeInv, InputFlow, Next
  PROVE  InputFlow'
<1> USE DEF TypeInv, TypeOK
<1>0. {"sent", "heard", "calls", "received", "spoken", "events", "answers"} \subseteq Counters
  BY DEF Counters
<1>counts. count \in [Counters -> Nat] /\ Len(toServer) \in Nat /\ Len(stdin) \in Nat
  OBVIOUS
<1>1. CASE Dead
  BY <1>1, DeadStays DEF InputFlow
<1>2. CASE ~Dead
  <2>0. count.sent = count.heard + Len(toServer) + Len(stdin) + (IF writer.at = "write" THEN 1 ELSE 0)
    BY <1>2 DEF InputFlow
  <2> USE DEF InputFlow
  <2>1. CASE Call
    <3>1. count'.sent = count.sent /\ count'.heard = count.heard
      <4>1. count' = Plus("calls")
        BY <2>1 DEF Call
      <4>2. QED BY ONLY <1>0, <1>counts, <4>1, PlusType
    <3>2. QED BY <2>0, <2>1, <3>1 DEF Call, channels, LoopUnchanged, pipes
  <2>2. CASE ExitRequested \/ Disconnected \/ Join \/ Quiescent
    BY <2>0, <2>2 DEF ExitRequested, Disconnected, Join, Quiescent, vars, channels, pipes, LoopUnchanged
  <2>3. CASE Receive
    <3>1. count'.sent = count.sent /\ count'.heard = count.heard
      BY <1>0, <2>3 DEF Receive
    <3>2. QED BY <2>0, <2>3, <3>1 DEF Receive, LoopUnchanged, pipes
  <2>4. CASE Send \/ SendExit
    <3>1. count'.sent = count.sent + 1 /\ count'.heard = count.heard
      <4>1. count' = Plus("sent")
        BY <2>4 DEF Send, SendExit
      <4>2. QED BY ONLY <1>0, <1>counts, <4>1, PlusType
    <3>2. Len(toServer') = Len(toServer) + 1
      BY <2>4 DEF Send, SendExit
    <3>3. UNCHANGED <<writer, stdin>>
      BY <2>4 DEF Send, SendExit, LoopUnchanged, pipes
    <3>4. count.heard \in Nat
      BY ONLY <1>0, <1>counts
    <3>5. count'.sent = count'.heard + Len(toServer') + Len(stdin') + (IF writer'.at = "write" THEN 1 ELSE 0)
      BY ONLY <1>counts, <2>0, <3>1, <3>2, <3>3, <3>4
    <3>6. QED BY <3>5
  <2>5. CASE WriterReceive
    <3>1. CASE toServer # <<>> /\ writer'.at = "write" /\ toServer' = Tail(toServer)
      <4>1. Len(toServer') = Len(toServer) - 1 /\ writer.at # "write"
        BY <2>5, <3>1 DEF WriterReceive
      <4>2. UNCHANGED <<count, stdin>>
        BY <2>5 DEF WriterReceive, WriterUnchanged
      <4>3. count.sent \in Nat /\ count.heard \in Nat /\ Len(toServer) \in Nat /\ Len(stdin) \in Nat
        BY <1>0
      <4>4. QED BY <2>0, <3>1, <4>1, <4>2, <4>3
    <3>2. CASE writer'.at = "wait" /\ UNCHANGED toServer
      BY <2>0, <2>5, <3>2 DEF WriterReceive, WriterUnchanged
    <3>3. QED BY <2>5, <3>1, <3>2 DEF WriterReceive
  <2>6. CASE WriterWrite
    <3>1. Len(stdin') = Len(stdin) + 1 /\ writer.at = "write" /\ writer'.at # "write"
      BY <2>6 DEF WriterWrite
    <3>2. UNCHANGED <<count, toServer>>
      BY <2>6 DEF WriterWrite, WriterUnchanged
    <3>3. count.sent \in Nat /\ count.heard \in Nat /\ Len(toServer) \in Nat /\ Len(stdin) \in Nat
      BY <1>0
    <3>4. count'.sent = count'.heard + Len(toServer') + Len(stdin') + (IF writer'.at = "write" THEN 1 ELSE 0)
      BY ONLY <2>0, <3>1, <3>2, <3>3
    <3>5. QED BY <3>4
  <2>7. CASE WriterKilled \/ WriterWait
    BY <1>2, <2>7 DEF WriterKilled, WriterWait
  <2>8. CASE Reader \/ Errors \/ ToEditor
    BY <2>0, <2>8 DEF Reader, ReaderRead, ReaderLog, ReaderDone, ReaderUnchanged,
       Errors, ErrorsRead, ErrorsLog, ToEditor, ErrorsUnchanged
  <2>9. CASE ServerRead
    <3>1. Len(stdin') = Len(stdin) - 1
      BY <2>9 DEF ServerRead
    <3>2. count'.heard = count.heard + 1 /\ count'.sent = count.sent
      <4>1. count' = Plus("heard")
        BY <2>9 DEF ServerRead
      <4>2. QED BY ONLY <1>0, <1>counts, <4>1, PlusType
    <3>3. UNCHANGED <<toServer, writer>>
      BY <2>9 DEF ServerRead, ServerUnchanged, channels
    <3>4. count.heard \in Nat
      BY ONLY <1>0, <1>counts
    <3>5. count'.sent = count'.heard + Len(toServer') + Len(stdin') + (IF writer'.at = "write" THEN 1 ELSE 0)
      BY ONLY <1>counts, <2>0, <3>1, <3>2, <3>3, <3>4
    <3>6. QED BY <3>5
  <2>10. CASE ServerEof \/ ServerDies
    BY <2>10 DEF ServerEof, ServerDies, Dead
  <2>11. CASE ServerWrite \/ ServerLog \/ ServerEvent
    <3>1. count'.sent = count.sent /\ count'.heard = count.heard
      <4>1. count' = count \/ count' = Plus("spoken") \/ count' = Plus("events")
        BY <2>11 DEF ServerWrite, ServerLog, ServerEvent
      <4>2. CASE count' = count
        BY <4>2
      <4>3. CASE count' = Plus("spoken")
        BY ONLY <1>0, <1>counts, <4>3, PlusType
      <4>4. CASE count' = Plus("events")
        BY ONLY <1>0, <1>counts, <4>4, PlusType
      <4>5. QED BY <4>1, <4>2, <4>3, <4>4
    <3>2. QED BY <2>0, <2>11, <3>1
             DEF ServerWrite, ServerLog, ServerEvent, ServerUnchanged, channels, pipes
  <2>12. QED BY <2>1, <2>2, <2>3, <2>4, <2>5, <2>6, <2>7, <2>8, <2>9, <2>10, <2>11
             DEF Next, Loop, Writer, Server
<1>3. QED BY <1>1, <1>2

\* The writer closes the pipe after the last message, and then there is nobody who
\* could send another.
LEMMA InputClosedStep ==
  ASSUME TypeInv, InputClosed, Next
  PROVE  InputClosed'
<1>0. CASE Dead
  BY <1>0, DeadStays DEF InputClosed
<1> SUFFICES ASSUME ~Dead PROVE InputClosed'
  BY <1>0
<1> USE DEF InputClosed, StdinClosed
<1>1. CASE Call \/ ExitRequested \/ Receive \/ Disconnected
  BY <1>1 DEF Call, ExitRequested, Receive, Disconnected, LoopUnchanged, channels, Joins, Over
<1>2. CASE Send \/ SendExit
  BY <1>2 DEF Send, SendExit, LoopUnchanged, Joins, Over
<1>3. CASE Join
  BY <1>3, JoinJoins DEF Join, LoopUnchanged, channels
<1>4. CASE WriterReceive
  BY <1>4, DroppedJoins DEF WriterReceive, WriterUnchanged, loopVars
<1>5. CASE WriterWrite \/ WriterWait
  BY <1>5 DEF WriterWrite, WriterWait, WriterUnchanged, loopVars
<1>6. CASE WriterKilled
  BY <1>6 DEF WriterKilled
<1>7. CASE Reader \/ Errors \/ ToEditor
  BY <1>7 DEF Reader, ReaderRead, ReaderLog, ReaderDone, ReaderUnchanged,
     Errors, ErrorsRead, ErrorsLog, ToEditor, ErrorsUnchanged, loopVars
<1>8. CASE Server \/ ServerEvent \/ ServerDies
  BY <1>8 DEF Server, ServerRead, ServerEof, ServerWrite, ServerLog, ServerEvent, ServerDies,
     ServerUnchanged, loopVars, channels
<1>9. CASE Quiescent
  BY <1>9 DEF Quiescent, vars, loopVars, channels
<1>10. QED BY <1>1, <1>2, <1>3, <1>4, <1>5, <1>6, <1>7, <1>8, <1>9 DEF Next, Loop, Writer

\* What the event loop has received was written, and what was written is on its way.
LEMMA OutputFlowStep ==
  ASSUME TypeInv, OutputFlow, Next
  PROVE  OutputFlow'
<1> USE DEF TypeInv, TypeOK
<1>0. {"sent", "heard", "calls", "received", "spoken", "events", "answers"} \subseteq Counters
  BY DEF Counters
<1>counts. count \in [Counters -> Nat]
  OBVIOUS
<1> SUFFICES ASSUME loop' \notin Left PROVE OutputFlow'
  BY DEF OutputFlow
<1>1. loop \notin Left
  <2>1. CASE Join
    BY <2>1, JoinJoins DEF Left
  <2>2. CASE ~Join /\ ~Loop
    BY <2>2 DEF Next, Call, ExitRequested, Writer, WriterReceive, WriterWrite, WriterKilled, WriterWait, WriterUnchanged,
       Reader, ReaderRead, ReaderLog, ReaderDone, ReaderUnchanged, Errors, ErrorsRead, ErrorsLog,
       ToEditor, ErrorsUnchanged, Server, ServerRead, ServerEof, ServerWrite, ServerLog,
       ServerEvent, ServerDies, ServerUnchanged, Quiescent, vars, loopVars, Left, Joins, Over
  <2>3. CASE Loop /\ ~Join
    BY <2>3 DEF Loop, Receive, Send, Disconnected, SendExit, Left, Joins, Over, DropOrder
  <2>4. QED BY <2>1, <2>2, <2>3
<1>2. PICK n \in Nat :
        /\ reader = "read" => WholeMessages(n)
        /\ count.spoken = count.received + Len(fromServer) + (IF reader = "read" THEN n ELSE 0)
  BY <1>1 DEF OutputFlow
<1>3. count.spoken \in Nat /\ count.received \in Nat /\ Len(fromServer) \in Nat
  BY <1>0
<1>4. ASSUME UNCHANGED <<fromServer, reader, stdout>>,
             count'.spoken = count.spoken, count'.received = count.received
      PROVE  OutputFlow'
  <2>1. reader' = "read" => WholeMessages(n)'
    BY <1>2, <1>4 DEF WholeMessages
  <2>2. QED BY <1>2, <1>4, <2>1 DEF OutputFlow
<1>5. CASE Call \/ Send
  <2>1. count' = Plus("calls") \/ count' = Plus("sent")
    BY <1>5 DEF Call, Send
  <2>2. count'.spoken = count.spoken /\ count'.received = count.received
    <3>1. CASE count' = Plus("calls")
      BY ONLY <1>0, <1>counts, <3>1, PlusType
    <3>2. CASE count' = Plus("sent")
      BY ONLY <1>0, <1>counts, <3>2, PlusType
    <3>3. QED BY <2>1, <3>1, <3>2
  <2>3. QED BY <1>4, <1>5, <2>2 DEF Call, Send, LoopUnchanged, channels, pipes
<1>6. CASE Receive
  <2>1. count'.received = count.received + 1 /\ count'.spoken = count.spoken
    BY <1>0, <1>6 DEF Receive
  <2>2. Len(fromServer') = Len(fromServer) - 1
    BY <1>6 DEF Receive
  <2>3. UNCHANGED <<reader, stdout>>
    BY <1>6 DEF Receive, LoopUnchanged, pipes
  <2>4. reader' = "read" => WholeMessages(n)'
    BY <1>2, <2>3 DEF WholeMessages
  <2>5. QED BY <1>2, <1>3, <2>1, <2>2, <2>3, <2>4 DEF OutputFlow
<1>7. CASE ExitRequested \/ Disconnected \/ SendExit \/ Join \/ WriterKilled
  BY <1>1, <1>7, JoinJoins
     DEF ExitRequested, Disconnected, SendExit, Join, WriterKilled, Left, Joins, Over, DropOrder
<1>8. CASE WriterReceive \/ WriterWrite \/ WriterWait
  BY <1>4, <1>8 DEF WriterReceive, WriterWrite, WriterWait, WriterUnchanged
<1>9. CASE ReaderRead
  <2>1. UNCHANGED count
    BY <1>9 DEF ReaderRead, ReaderUnchanged
  <2>2. CASE Head(stdout) = "garbage"
    <3>1. stdout[1] = "garbage" /\ reader = "read" /\ reader' = "log" /\ UNCHANGED fromServer
      BY <1>9, <2>2 DEF ReaderRead
    <3>2. n = 0
      BY <1>2, <3>1 DEF WholeMessages
    <3>3. QED BY <1>2, <1>3, <2>1, <3>1, <3>2 DEF OutputFlow
  <2>3. CASE Head(stdout) # "garbage"
    <3>1. Len(fromServer') = Len(fromServer) + 1
      BY <1>9, <2>3 DEF ReaderRead
    <3>2. reader = "read" /\ reader' = "read"
      BY <1>9, <2>3, <1>1, DroppedJoins DEF ReaderRead, Left
    <3>3. n > 0 /\ WholeMessages(n - 1)'
      BY <1>2, <1>9, <2>3, WholeTail DEF ReaderRead
    <3>4. count'.spoken = count'.received + Len(fromServer') + (n - 1)
      BY ONLY <1>2, <1>3, <2>1, <3>1, <3>2
    <3>5. QED BY <3>2, <3>3, <3>4 DEF OutputFlow
  <2>4. QED BY <2>2, <2>3
<1>10. CASE ReaderLog
  BY <1>2, <1>10 DEF ReaderLog, ReaderUnchanged, OutputFlow
<1>11. CASE ReaderDone
  <2>1. n = 0
    BY <1>2, <1>11 DEF ReaderDone, WholeMessages
  <2>2. QED BY <1>2, <1>3, <1>11, <2>1 DEF ReaderDone, ReaderUnchanged, OutputFlow
<1>12. CASE Errors \/ ToEditor
  BY <1>4, <1>12 DEF Errors, ErrorsRead, ErrorsLog, ToEditor, ErrorsUnchanged
<1>13. CASE ServerRead \/ ServerEvent
  <2>1. count' = Plus("heard") \/ count' = Plus("events")
    BY <1>13 DEF ServerRead, ServerEvent
  <2>2. count'.spoken = count.spoken /\ count'.received = count.received
    <3>1. CASE count' = Plus("heard")
      BY ONLY <1>0, <1>counts, <3>1, PlusType
    <3>2. CASE count' = Plus("events")
      BY ONLY <1>0, <1>counts, <3>2, PlusType
    <3>3. QED BY <2>1, <3>1, <3>2
  <2>3. QED BY <1>4, <1>13, <2>2
           DEF ServerRead, ServerEvent, ServerUnchanged, channels, pipes
<1>14. CASE ServerEof \/ ServerLog \/ ServerDies \/ Quiescent
  BY <1>4, <1>14 DEF ServerEof, ServerLog, ServerDies, Quiescent, ServerUnchanged, channels, pipes, vars
<1>15. CASE ServerWrite
  <2>1. UNCHANGED <<fromServer, reader>>
    BY <1>15 DEF ServerWrite, ServerUnchanged, channels
  <2>2. CASE reader # "read"
    BY <1>4, <1>15, <2>1, <2>2 DEF ServerWrite
  <2>3. CASE reader = "read"
    <3>1. stdout' = Append(stdout, server.hand) /\ server.hand \in FromServer
      BY <1>15, <2>3 DEF ServerWrite, Handed
    <3>2. CASE \E k \in 1..Len(stdout') : stdout'[k] = "garbage"
      <4>1. count' = count
        BY <1>15, <2>3, <3>2 DEF ServerWrite
      <4>2. WholeMessages(n)'
        BY <1>2, <2>3, <3>1, <3>2, WholeAppend
      <4>3. QED BY <1>2, <2>1, <4>1, <4>2 DEF OutputFlow
    <3>3. CASE ~\E k \in 1..Len(stdout') : stdout'[k] = "garbage"
      <4>1. count' = Plus("spoken")
        BY <1>15, <2>3, <3>3 DEF ServerWrite
      <4>2. count'.spoken = count.spoken + 1 /\ count'.received = count.received
        BY ONLY <1>0, <1>counts, <4>1, PlusType
      <4>3. WholeMessages(n + 1)'
        BY <1>2, <2>3, <3>1, <3>3, WholeAppend
      <4>4. reader' = "read" /\ fromServer' = fromServer
        BY <2>1, <2>3
      <4>5. count'.received + Len(fromServer') + (n + 1) = count.received + Len(fromServer) + n + 1
        BY ONLY <1>3, <4>2, <4>4
      <4>6. count'.spoken = count'.received + Len(fromServer') + (n + 1)
        BY ONLY <1>2, <1>3, <2>3, <4>2, <4>5
      <4>7. QED BY <4>3, <4>4, <4>6 DEF OutputFlow
    <3>4. QED BY <3>2, <3>3
  <2>4. QED BY <2>2, <2>3
<1>16. QED BY <1>5, <1>6, <1>7, <1>8, <1>9, <1>10, <1>11, <1>12, <1>13, <1>14, <1>15
          DEF Next, Loop, Writer, Reader, Server

\* A server is given up when the channel from its reader is empty, and then neither
\* count changes any more.
LEMMA OutputEndedStep ==
  ASSUME TypeInv, OutputFlow, OutputEnded, Next
  PROVE  OutputEnded'
<1> USE DEF TypeInv, TypeOK
<1>0. {"sent", "heard", "calls", "received", "spoken", "events", "answers"} \subseteq Counters
  BY DEF Counters
<1>counts. count \in [Counters -> Nat]
  OBVIOUS
<1>1. CASE Disconnected
  <2>1. loop \notin Left /\ loop' \in Left /\ cause' = "disconnected"
    BY <1>1 DEF Disconnected, Left, Joins, Over
  <2>2. UNCHANGED <<reader, count>> /\ reader = "done" /\ fromServer = <<>>
    BY <1>1 DEF Disconnected, LoopUnchanged
  <2>3. count.received \in Nat /\ count.spoken \in Nat
    BY <1>0
  <2>4. count.spoken = count.received
    BY <2>1, <2>2, <2>3 DEF OutputFlow
  <2>5. QED BY <2>1, <2>2, <2>4 DEF OutputEnded
<1>2. CASE ExitRequested
  BY <1>2 DEF ExitRequested, OutputEnded
<1>3. CASE ~Disconnected /\ ~ExitRequested
  <2>1. cause' = cause
    BY <1>3 DEF Next, Loop, Call, Receive, Send, SendExit, Join,
       Writer, WriterReceive, WriterWrite, WriterKilled, WriterWait, WriterUnchanged,
       Reader, ReaderRead, ReaderLog, ReaderDone, ReaderUnchanged, Errors, ErrorsRead, ErrorsLog,
       ToEditor, ErrorsUnchanged, Server, ServerRead, ServerEof, ServerWrite, ServerLog,
       ServerEvent, ServerDies, ServerUnchanged, Quiescent, vars, loopVars
  <2> SUFFICES ASSUME cause = "disconnected" PROVE OutputEnded'
    BY <2>1 DEF OutputEnded
  <2>2. loop \in Left /\ reader # "read" /\ count.received = count.spoken
    BY DEF OutputEnded
  <2> SUFFICES loop' \in Left /\ reader' # "read" /\ count'.received = count'.spoken
    BY DEF OutputEnded
  <2>3. ~Call /\ ~Receive /\ ~Send
    BY <2>2 DEF Call, Receive, Send, Left, Joins, Over
  <2>4. CASE SendExit
    <3>1. count' = Plus("sent")
      BY <2>4 DEF SendExit
    <3>2. count'.received = count.received /\ count'.spoken = count.spoken
      BY ONLY <1>0, <1>counts, <3>1, PlusType
    <3>3. QED BY <2>2, <2>4, <3>2 DEF SendExit, LoopUnchanged, DropOrder, Left, Joins
  <2>5. CASE Join
    BY <2>2, <2>5, JoinJoins DEF Join, LoopUnchanged, Left
  <2>6. CASE Writer
    BY <2>2, <2>6 DEF Writer, WriterReceive, WriterWrite, WriterKilled, WriterWait, WriterUnchanged,
       loopVars, Left, Over
  <2>7. CASE Reader \/ Errors \/ ToEditor
    BY <2>2, <2>7 DEF Reader, ReaderRead, ReaderLog, ReaderDone, ReaderUnchanged,
       Errors, ErrorsRead, ErrorsLog, ToEditor, ErrorsUnchanged, loopVars
  <2>8. CASE ServerRead \/ ServerEvent
    <3>1. count' = Plus("heard") \/ count' = Plus("events")
      BY <2>8 DEF ServerRead, ServerEvent
    <3>2. count'.received = count.received /\ count'.spoken = count.spoken
      <4>1. CASE count' = Plus("heard")
        BY ONLY <1>0, <1>counts, <4>1, PlusType
      <4>2. CASE count' = Plus("events")
        BY ONLY <1>0, <1>counts, <4>2, PlusType
      <4>3. QED BY <3>1, <4>1, <4>2
    <3>3. QED BY <2>2, <2>8, <3>2 DEF ServerRead, ServerEvent, ServerUnchanged, loopVars
  <2>9. CASE ServerEof \/ ServerWrite \/ ServerLog \/ ServerDies \/ Quiescent
    BY <2>2, <2>9 DEF ServerEof, ServerWrite, ServerLog, ServerDies, Quiescent, ServerUnchanged,
       loopVars, vars
  <2>10. QED BY <1>3, <2>3, <2>4, <2>5, <2>6, <2>7, <2>8, <2>9 DEF Next, Loop, Server
<1>4. QED BY <1>1, <1>2, <1>3

LEMMA FlowStep == TypeInv /\ FlowInv /\ [Next]_vars => FlowInv'
<1> SUFFICES ASSUME TypeInv, FlowInv, [Next]_vars PROVE FlowInv'
  OBVIOUS
<1>1. CASE Next
  BY <1>1, InputFlowStep, InputClosedStep, OutputFlowStep, OutputEndedStep DEF FlowInv
<1>2. CASE UNCHANGED vars
  BY <1>2 DEF vars, loopVars, channels, pipes, FlowInv, InputFlow, InputClosed, OutputFlow,
     OutputEnded, WholeMessages, StdinClosed, Dead
<1>3. QED BY <1>1, <1>2

\* What both theorems below follow from: nothing is lost between the threads, whatever
\* the capacities.
THEOREM FlowsCorrect == Spec => [](TypeInv /\ FlowInv)
BY InitTypes, InitFlows, TypeStep, FlowStep, PTL DEF Spec

\* Whatever the capacities, a server that reads its input to the end has heard every
\* message that was sent to it, the exit notification included (language_server_transport.rs).
THEOREM HeardCorrect == Spec => []HeardAtEof
<1>1. TypeInv /\ FlowInv => HeardAtEof
  <2> SUFFICES ASSUME TypeInv, FlowInv, AtEof PROVE count.heard = count.sent
    BY DEF HeardAtEof
  <2>1. ~Dead /\ stdin = <<>> /\ StdinClosed /\ writer.at # "write"
    BY DEF AtEof, Dead, StdinClosed
  <2>2. toServer = <<>>
    BY <2>1 DEF FlowInv, InputClosed
  <2>3. count.sent \in Nat /\ count.heard \in Nat
    BY DEF TypeInv, TypeOK, Counters
  <2>4. count.sent = count.heard + Len(toServer) + Len(stdin) + 0
    BY <2>1 DEF FlowInv, InputFlow
  <2>5. QED BY <2>1, <2>2, <2>3, <2>4
<1>2. QED BY <1>1, FlowsCorrect, PTL

\* When the event loop takes a server for gone, it has received every message that the
\* server wrote before nonsense or the end of its output.
THEOREM ReceivedCorrect == Spec => []ReceivedAtEnd
<1>1. FlowInv => ReceivedAtEnd
  BY DEF FlowInv, OutputEnded, ReceivedAtEnd
<1>2. QED BY <1>1, FlowsCorrect, PTL

=============================================================================
