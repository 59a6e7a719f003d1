------------------------- MODULE FifoPipelineProofs -------------------------
(***************************************************************************)
(* Proofs about FifoPipeline, for any number of messages and lines.        *)
(***************************************************************************)
EXTENDS FifoPipeline, FiniteSetTheorems, TLAPS

-----------------------------------------------------------------------------
(***************************************************************************)
(* Cutting a text.                                                         *)
(***************************************************************************)

\* A nonempty set of numbers has a least one.  (By the well-foundedness of finite
\* sets, as the principle for numbers takes an operator.)
LEMMA Least ==
  ASSUME NEW T \in SUBSET Nat, T # {}
  PROVE  \E x \in T : \A y \in T : x <= y
<1> DEFINE Below == {0..x : x \in T}
<1>1. Below \subseteq FiniteSubsetsOf(Nat) /\ Below # {}
  <2>1. ASSUME NEW x \in T
        PROVE  0..x \in SUBSET Nat /\ IsFiniteSet(0..x)
    BY FS_Interval
  <2>2. QED BY <2>1 DEF FiniteSubsetsOf
<1>2. PICK s \in Below : \A t \in Below : <<t, s>> \notin StrictSubsetOrdering(Nat)
  <2>1. IsWellFoundedOn(StrictSubsetOrdering(Nat), FiniteSubsetsOf(Nat))
    BY FS_StrictSubsetOrderingWellFounded
  <2> HIDE DEF Below
  <2>2. QED BY <1>1, <2>1, WFMin
<1>3. PICK x \in T : s = 0..x
  OBVIOUS
<1>4. ASSUME NEW y \in T, y < x
      PROVE  FALSE
  <2>1. 0..y \in Below /\ 0..y \in SUBSET Nat /\ 0..x \in SUBSET Nat
    OBVIOUS
  <2>2. x \in 0..x /\ x \notin 0..y
    BY <1>4
  <2>3. 0..y \subseteq 0..x
    BY <1>4
  <2>4. QED BY <1>2, <1>3, <2>1, <2>2, <2>3 DEF StrictSubsetOrdering
<1>5. QED BY <1>4

NewlinesIn(text, i) == {j \in 1..i : text[j].newline}

\* The newlines of a text, and of its beginnings, are a number; one more half of a
\* line has at most one newline more.
LEMMA NewlineCount ==
  ASSUME NEW text \in Seq(Cell)
  PROVE  /\ Newlines(text) = Cardinality(NewlinesIn(text, Len(text)))
         /\ Newlines(text) \in Nat
         /\ \A i \in 0..Len(text) :
              /\ Newlines(SubSeq(text, 1, i)) = Cardinality(NewlinesIn(text, i))
              /\ Cardinality(NewlinesIn(text, i)) \in Nat
              /\ IsFiniteSet(NewlinesIn(text, i))
<1>1. ASSUME NEW i \in 0..Len(text)
      PROVE  /\ Newlines(SubSeq(text, 1, i)) = Cardinality(NewlinesIn(text, i))
             /\ Cardinality(NewlinesIn(text, i)) \in Nat
             /\ IsFiniteSet(NewlinesIn(text, i))
  <2>1. DOMAIN SubSeq(text, 1, i) = 1..i
    OBVIOUS
  <2>2. \A j \in 1..i : SubSeq(text, 1, i)[j] = text[j]
    OBVIOUS
  <2>3. {j \in DOMAIN SubSeq(text, 1, i) : SubSeq(text, 1, i)[j].newline} = NewlinesIn(text, i)
    BY <2>1, <2>2 DEF NewlinesIn
  <2>4. IsFiniteSet(1..i)
    BY FS_Interval
  <2>5. IsFiniteSet(NewlinesIn(text, i))
    BY <2>4, FS_Subset DEF NewlinesIn
  <2>6. QED BY <2>3, <2>5, FS_CardinalityType DEF Newlines
<1>2. Newlines(text) = Cardinality(NewlinesIn(text, Len(text)))
  <2>1. DOMAIN text = 1..Len(text)
    OBVIOUS
  <2>2. {j \in DOMAIN text : text[j].newline} = NewlinesIn(text, Len(text))
    BY <2>1 DEF NewlinesIn
  <2>3. QED BY <2>2 DEF Newlines
<1>3. QED BY <1>1, <1>2

\* text_of_buffer's unwrap: when there are enough newlines the text has an end, at
\* the newline of its last line.
LEMMA CutExists ==
  ASSUME NEW text \in Seq(Cell), NEW lines \in Nat \ {0}, Newlines(text) >= lines
  PROVE  /\ CutAt(text, lines) \in 1..Len(text)
         /\ text[CutAt(text, lines)].newline
         /\ Newlines(SubSeq(text, 1, CutAt(text, lines))) = lines
<1> DEFINE Count(i) == Cardinality(NewlinesIn(text, i))
           Enough == {i \in 0..Len(text) : Count(i) >= lines}
<1>1. Enough \in SUBSET Nat /\ Enough # {}
  <2>1. Len(text) \in Enough
    BY NewlineCount
  <2>2. QED BY <2>1
<1>2. PICK i \in Enough : \A j \in Enough : i <= j
  <2> HIDE DEF Enough
  <2>1. QED BY <1>1, Least
<1>3. Count(0) = 0
  <2>1. NewlinesIn(text, 0) = {}
    BY DEF NewlinesIn
  <2>2. QED BY <2>1, FS_EmptySet
<1>4. i \in 1..Len(text)
  BY <1>3
<1>5. Count(i - 1) \in Nat /\ Count(i - 1) < lines /\ IsFiniteSet(NewlinesIn(text, i - 1))
  <2>1. i - 1 \in 0..Len(text) /\ i - 1 \notin Enough
    BY <1>2, <1>4
  <2>2. Count(i - 1) \in Nat /\ IsFiniteSet(NewlinesIn(text, i - 1))
    BY <2>1, NewlineCount
  <2>3. QED BY <2>1, <2>2
<1>6. text[i].newline
  <2>1. SUFFICES ASSUME ~text[i].newline
                 PROVE  FALSE
    OBVIOUS
  <2>2. NewlinesIn(text, i) = NewlinesIn(text, i - 1)
    BY <1>4, <2>1 DEF NewlinesIn
  <2>3. QED BY <1>2, <1>5, <2>2
<1>7. Count(i) = lines
  <2>1. NewlinesIn(text, i) = NewlinesIn(text, i - 1) \cup {i}
    BY <1>4, <1>6 DEF NewlinesIn
  <2>2. i \notin NewlinesIn(text, i - 1)
    BY <1>4 DEF NewlinesIn
  <2>3. Count(i) = Count(i - 1) + 1
    BY <1>5, <2>1, <2>2, FS_AddElement
  <2>4. QED BY <1>2, <1>5, <2>3
<1>8. \E n \in DOMAIN text : text[n].newline /\ Newlines(SubSeq(text, 1, n)) = lines
  <2>1. i \in DOMAIN text /\ Newlines(SubSeq(text, 1, i)) = lines
    BY <1>4, <1>7, NewlineCount
  <2>2. QED BY <1>6, <2>1
<1>9. QED BY <1>8 DEF CutAt

-----------------------------------------------------------------------------
(***************************************************************************)
(* The inductive invariant.                                                *)
(***************************************************************************)

TextPlaces == {"text", "aboutToWaitForText", "waitingForText"}

\* The messages whose command the parser has read.
Begun == IF parser \in TextPlaces THEN parsed + 1 ELSE parsed

\* As long as the parser goes on, the commands it has not read are in the command
\* buffer and the fifo, in order: the next one it reads is that of message
\* parsed + 1.
Ordered ==
  parser \notin {"stopping", "done"} =>
    /\ Begun + Len(cmdBuffer) + Len(fifo) = Len(script)
    /\ \A i \in 1..Len(cmdBuffer) : cmdBuffer[i] = Begun + i
    /\ \A i \in 1..Len(fifo) : fifo[i] = Begun + Len(cmdBuffer) + i

\* A message with a text has at least a line of it.
TextsHaveLines ==
  \A k \in 1..Len(script) : script[k].kind = "text" => Newlines(script[k].text) \in Nat \ {0}

\* Nothing arrives while the parser holds the mutex.
NothingYet ==
  /\ parser = "aboutToWaitForToken" => cmdBuffer = <<>>
  /\ parser = "aboutToWaitForText" => Newlines(textBuffer) < Lines

Inv == TypeOK /\ Ordered /\ TextsHaveLines /\ NothingYet /\ WaitJustified

LEMMA InitInv == Init => Inv
<1> SUFFICES ASSUME Init PROVE Inv
  OBVIOUS
<1> USE DEF Init
<1>1. TypeOK
  <2>1. /\ script \in Seq(Message) /\ taken \in Seq(Message) /\ channel \in Seq(Message)
        /\ unwritten \in Seq(Cell)
        /\ fifo \in Seq(Nat) /\ cmdBuffer \in Seq(Nat)
        /\ altFifo \in Seq(Cell) /\ textBuffer \in Seq(Cell)
    OBVIOUS
  <2>2. Len(script) = 0
    OBVIOUS
  <2>3. reader \in [at : {"poll", "read", "notifyCommand", "notifyText", "done"},
                    cmd : BOOLEAN, text : BOOLEAN]
    OBVIOUS
  <2>4. parsed \in 0..Len(script)
    BY <2>2
  <2> HIDE DEF Init
  <2>5. /\ parser = "token" /\ parser \in Places /\ loop = "running" /\ cause = "none"
        /\ forceExit = FALSE /\ readerDone = FALSE /\ wake = FALSE
    BY DEF Init, Places
  <2>6. QED BY <2>1, <2>3, <2>4, <2>5 DEF TypeOK
<1>2. Ordered /\ TextsHaveLines /\ NothingYet /\ WaitJustified
  BY DEF Ordered, Begun, TextPlaces, TextsHaveLines, NothingYet, WaitJustified
<1>3. QED BY <1>1, <1>2 DEF Inv

\* The text the editor writes for a message.
LEMMA TextOfType ==
  ASSUME NEW k \in Nat, NEW lines \in Nat
  PROVE  /\ TextOf(k, lines) \in Seq(Cell)
         /\ lines > 0 => Newlines(TextOf(k, lines)) \in Nat \ {0}
<1>1. TextOf(k, lines) \in Seq(Cell)
  <2>1. TextOf(k, lines) \in [1..2 * lines -> Cell]
    <3>1. \A i \in 1..2 * lines : [msg |-> k, newline |-> i % 2 = 0] \in Cell
      BY DEF Cell
    <3>2. QED BY <3>1 DEF TextOf
  <2>2. 2 * lines \in Nat
    OBVIOUS
  <2>3. QED BY <2>1, <2>2
<1>2. ASSUME lines > 0
      PROVE  Newlines(TextOf(k, lines)) # 0
  <2>1. 2 \in DOMAIN TextOf(k, lines) /\ TextOf(k, lines)[2].newline
    <3>1. 2 \in 1..2 * lines
      BY <1>2
    <3>2. 2 % 2 = 0
      OBVIOUS
    <3>3. QED BY <3>1, <3>2 DEF TextOf
  <2>2. IsFiniteSet(NewlinesIn(TextOf(k, lines), Len(TextOf(k, lines))))
    BY <1>1, NewlineCount
  <2>3. 2 \in NewlinesIn(TextOf(k, lines), Len(TextOf(k, lines)))
    BY <1>1, <2>1 DEF NewlinesIn
  <2>4. Newlines(TextOf(k, lines)) = Cardinality(NewlinesIn(TextOf(k, lines), Len(TextOf(k, lines))))
    BY <1>1, NewlineCount
  <2>5. QED BY <2>2, <2>3, <2>4, FS_EmptySet
<1>3. QED BY <1>1, <1>2, NewlineCount

LEMMA SendInv ==
  ASSUME Inv, NEW kind \in Kinds, NEW broken \in BOOLEAN, NEW lines \in 0..MaxLines,
         SendMessage(kind, broken, lines)
  PROVE  Inv'
<1> DEFINE text == TextOf(Len(script) + 1, lines)
           m == [kind |-> kind, broken |-> broken, text |-> text]
<1>1. TypeOK /\ Ordered /\ TextsHaveLines /\ NothingYet /\ WaitJustified
  BY DEF Inv
<1>2. text \in Seq(Cell) /\ (lines > 0 => Newlines(text) \in Nat \ {0}) /\ m \in Message
  <2>1. Len(script) + 1 \in Nat /\ lines \in Nat
    BY <1>1, FifoPipelineAssumption DEF TypeOK
  <2>2. text \in Seq(Cell) /\ (lines > 0 => Newlines(text) \in Nat \ {0})
    BY <2>1, TextOfType
  <2> HIDE DEF text
  <2>3. QED BY <2>2 DEF Message
<1>3. /\ script' = Append(script, m)
      /\ unwritten' = text
      /\ fifo' = Append(fifo, Len(script) + 1)
      /\ kind = "text" <=> lines > 0
      /\ UNCHANGED <<altFifo, cmdBuffer, textBuffer, wake, readerVars, parserVars, channel, loopVars>>
  BY DEF SendMessage
<1> HIDE DEF m
<1>4. /\ script' \in Seq(Message) /\ Len(script') = Len(script) + 1
      /\ \A k \in 1..Len(script) : script'[k] = script[k]
      /\ script'[Len(script) + 1] = m
  <2>1. script \in Seq(Message)
    BY <1>1 DEF TypeOK
  <2>2. QED BY <1>2, <1>3, <2>1
<1>5. TypeOK'
  <2>1. unwritten' \in Seq(Cell) /\ fifo' \in Seq(Nat) /\ parsed' \in 0..Len(script')
    <3>1. fifo \in Seq(Nat) /\ parsed \in 0..Len(script) /\ Len(script) \in Nat
      BY <1>1 DEF TypeOK
    <3>2. parsed' = parsed
      BY <1>3 DEF parserVars
    <3>3. fifo' \in Seq(Nat)
      BY <1>3, <3>1
    <3>4. parsed' \in 0..Len(script')
      BY <1>4, <3>1, <3>2
    <3>5. QED BY <1>2, <1>3, <3>3, <3>4
  <2>2. parser \in TextPlaces => parsed < Len(script') /\ script'[Current].kind = "text"
    <3>1. SUFFICES ASSUME parser \in TextPlaces
                   PROVE  parsed < Len(script') /\ script'[Current].kind = "text"
      OBVIOUS
    <3>2. /\ parsed < Len(script) /\ script[Current].kind = "text"
          /\ parsed \in 0..Len(script) /\ Len(script) \in Nat
      BY <1>1, <3>1 DEF TypeOK, TextPlaces
    <3>3. Current \in 1..Len(script)
      BY <3>2 DEF Current
    <3>4. QED BY <1>4, <3>2, <3>3
  <2> HIDE DEF text
  <2>3. UNCHANGED <<altFifo, cmdBuffer, textBuffer, wake, readerDone, reader, parser, parsed, taken,
                   channel, loop, cause, forceExit>>
    BY <1>3 DEF readerVars, parserVars, loopVars
  <2>4. QED BY <1>1, <1>4, <2>1, <2>2, <2>3 DEF TypeOK, TextPlaces, Current
<1>6. Ordered'
  <2>1. SUFFICES ASSUME parser' \notin {"stopping", "done"}
                 PROVE  /\ Begun' + Len(cmdBuffer') + Len(fifo') = Len(script')
                        /\ \A i \in 1..Len(cmdBuffer') : cmdBuffer'[i] = Begun' + i
                        /\ \A i \in 1..Len(fifo') : fifo'[i] = Begun' + Len(cmdBuffer') + i
    BY DEF Ordered
  <2>2. Begun' = Begun /\ cmdBuffer' = cmdBuffer /\ parser' = parser
    BY <1>3 DEF Begun, parserVars
  <2>3. Begun \in Nat /\ Len(cmdBuffer) \in Nat /\ fifo \in Seq(Nat) /\ Len(script) \in Nat
    BY <1>1 DEF TypeOK, Begun
  <2>4. Len(fifo') = Len(fifo) + 1
    BY <1>3, <2>3
  <2>5. \A i \in 1..Len(fifo') : fifo'[i] = IF i <= Len(fifo) THEN fifo[i] ELSE Len(script) + 1
    BY <1>3, <2>3
  <2>6. /\ Begun + Len(cmdBuffer) + Len(fifo) = Len(script)
        /\ \A i \in 1..Len(cmdBuffer) : cmdBuffer[i] = Begun + i
        /\ \A i \in 1..Len(fifo) : fifo[i] = Begun + Len(cmdBuffer) + i
    BY <1>1, <2>1, <2>2 DEF Ordered
  <2>7. Len(fifo) \in Nat
    BY <2>3
  <2>8. ASSUME NEW i \in 1..Len(fifo')
        PROVE  fifo'[i] = Begun' + Len(cmdBuffer') + i
    <3>1. CASE i <= Len(fifo)
      <4>1. i \in 1..Len(fifo) /\ fifo'[i] = fifo[i]
        BY <2>5, <2>7, <2>8, <3>1
      <4>2. QED BY <2>2, <2>6, <4>1
    <3>2. CASE i = Len(fifo) + 1
      <4>1. fifo'[i] = Len(script) + 1
        BY <2>5, <2>7, <2>8, <3>2
      <4>2. Begun + Len(cmdBuffer) + (Len(fifo) + 1) = Len(script) + 1
        BY <2>3, <2>6, <2>7
      <4>3. QED BY <2>2, <3>2, <4>1, <4>2
    <3>3. QED BY <2>4, <2>7, <2>8, <3>1, <3>2
  <2>9. Begun' + Len(cmdBuffer') + Len(fifo') = Len(script')
    BY <1>4, <2>2, <2>3, <2>4, <2>6, <2>7
  <2>10. QED BY <2>2, <2>6, <2>8, <2>9
<1>7. TextsHaveLines'
  <2>1. m.kind = "text" => Newlines(m.text) \in Nat \ {0}
    BY <1>2, <1>3 DEF m
  <2>2. ASSUME NEW k \in 1..Len(script'), script'[k].kind = "text"
        PROVE  Newlines(script'[k].text) \in Nat \ {0}
    <3>1. CASE k = Len(script) + 1
      BY <1>4, <2>1, <2>2, <3>1
    <3>2. CASE k # Len(script) + 1
      <4>1. k \in 1..Len(script)
        BY <1>1, <1>4, <3>2 DEF TypeOK
      <4>2. QED BY <1>1, <1>4, <2>2, <4>1 DEF TextsHaveLines
    <3>3. QED BY <3>1, <3>2
  <2>3. QED BY <2>2 DEF TextsHaveLines
<1>8. parser \in TextPlaces => Lines' = Lines
  BY <1>1, <1>3, <1>4 DEF Lines, Current, TypeOK, TextPlaces, parserVars
<1>9. NothingYet' /\ WaitJustified'
  BY <1>1, <1>3, <1>8 DEF NothingYet, WaitJustified, TextPlaces, readerVars, parserVars, loopVars
<1>10. QED BY <1>5, <1>6, <1>7, <1>9 DEF Inv

\* What a step leaves alone.
LEMMA SameInv ==
  ASSUME Inv, UNCHANGED vars
  PROVE  Inv'
<1> USE DEF vars, editorVars, readerVars, parserVars, loopVars
<1>1. TypeOK'
  BY DEF Inv, TypeOK, Current
<1>2. Ordered'
  BY DEF Inv, Ordered, Begun
<1>3. TextsHaveLines'
  BY DEF Inv, TextsHaveLines
<1>4. NothingYet' /\ WaitJustified'
  BY DEF Inv, NothingYet, WaitJustified, Lines, Current
<1>5. QED BY <1>1, <1>2, <1>3, <1>4 DEF Inv

LEMMA WriteInv ==
  ASSUME Inv, WriteText
  PROVE  Inv'
<1>1. /\ altFifo' = Append(altFifo, Head(unwritten))
      /\ unwritten' = Tail(unwritten)
      /\ unwritten # <<>>
      /\ UNCHANGED <<script, fifo, cmdBuffer, textBuffer, wake, readerVars, parserVars,
                    channel, loopVars>>
  BY DEF WriteText
<1>2. TypeOK'
  <2>1. unwritten \in Seq(Cell) /\ altFifo \in Seq(Cell)
    BY DEF Inv, TypeOK
  <2>2. unwritten' \in Seq(Cell) /\ altFifo' \in Seq(Cell)
    BY <1>1, <2>1
  <2>3. QED BY <1>1, <2>2 DEF Inv, TypeOK, Current, readerVars, parserVars, loopVars
<1> USE DEF readerVars, parserVars, loopVars
<1>3. Ordered'
  BY <1>1 DEF Inv, Ordered, Begun
<1>4. TextsHaveLines'
  BY <1>1 DEF Inv, TextsHaveLines
<1>5. NothingYet' /\ WaitJustified'
  BY <1>1 DEF Inv, NothingYet, WaitJustified, Lines, Current
<1>6. QED BY <1>2, <1>3, <1>4, <1>5 DEF Inv

\* The reader only adds to a buffer the parser has not locked, and is then about
\* to notify it.
LEMMA ReaderInv ==
  ASSUME Inv, Reader
  PROVE  Inv'
<1> USE DEF ReaderUnchanged, editorVars, loopVars
<1>1. TypeOK /\ Ordered /\ TextsHaveLines /\ NothingYet /\ WaitJustified
  BY DEF Inv
<1>2. /\ UNCHANGED <<script, unwritten, parsed, taken, channel, loop, cause, forceExit>>
      /\ reader'.at \in {"poll", "read", "notifyCommand", "notifyText", "done"}
      /\ reader' \in [at : {"poll", "read", "notifyCommand", "notifyText", "done"},
                      cmd : BOOLEAN, text : BOOLEAN]
      /\ readerDone' \in BOOLEAN /\ wake' \in BOOLEAN
  <2> DEFINE At == {"poll", "read", "notifyCommand", "notifyText", "done"}
  <2>1. UNCHANGED <<script, unwritten, parsed, taken, channel, loop, cause, forceExit>>
    BY DEF Reader, Poll, ReadCommands, NotifyCommand, ReadText, NotifyText
  <2>2. reader \in [at : At, cmd : BOOLEAN, text : BOOLEAN] /\ readerDone \in BOOLEAN /\ wake \in BOOLEAN
    BY <1>1 DEF TypeOK
  <2>3. ASSUME NEW done \in BOOLEAN, NEW cmd \in BOOLEAN, NEW text \in BOOLEAN
        PROVE  Reading(done, cmd, text) \in [at : At, cmd : BOOLEAN, text : BOOLEAN]
    BY DEF Reading
  <2>4. ASSUME NEW at \in At
        PROVE  [reader EXCEPT !.at = at] \in [at : At, cmd : BOOLEAN, text : BOOLEAN]
    BY <2>2
  <2> HIDE DEF At
  <2>5. reader' \in [at : At, cmd : BOOLEAN, text : BOOLEAN] /\ readerDone' \in BOOLEAN /\ wake' \in BOOLEAN
    <3>1. CASE Poll
      <4>1. readerDone' \in BOOLEAN /\ wake' \in BOOLEAN
        BY <2>2, <3>1 DEF Poll
      <4>2. reader' = Reading(readerDone', fifo # <<>>, altFifo # <<>>)
        BY <3>1 DEF Poll
      <4>3. (fifo # <<>>) \in BOOLEAN /\ (altFifo # <<>>) \in BOOLEAN
        OBVIOUS
      <4>4. QED BY <2>3, <4>1, <4>2, <4>3
    <3>2. CASE ReadCommands
      BY <2>2, <2>4, <3>2 DEF ReadCommands, At
    <3>3. CASE NotifyCommand
      BY <2>2, <2>3, <3>3 DEF NotifyCommand
    <3>4. CASE ReadText
      BY <2>2, <2>4, <3>4 DEF ReadText, At
    <3>5. CASE NotifyText
      BY <2>2, <2>3, <3>5 DEF NotifyText
    <3>6. QED BY <3>1, <3>2, <3>3, <3>4, <3>5 DEF Reader
  <2>6. QED BY <2>1, <2>5 DEF At
<1>3. TextsHaveLines'
  BY <1>1, <1>2 DEF TextsHaveLines
<1>4. CASE Poll
  <2>1. UNCHANGED <<fifo, altFifo, cmdBuffer, textBuffer, parser>> /\ reader.at = "poll"
    BY <1>4 DEF Poll
  <2>2. TypeOK'
    BY <1>1, <1>2, <2>1 DEF TypeOK, Current
  <2>3. Ordered'
    BY <1>1, <1>2, <2>1 DEF Ordered, Begun
  <2>4. NothingYet' /\ WaitJustified'
    BY <1>1, <1>2, <2>1 DEF NothingYet, WaitJustified, Lines, Current
  <2>5. QED BY <1>3, <2>2, <2>3, <2>4 DEF Inv
<1>5. CASE ReadCommands
  <2>1. /\ parser # "aboutToWaitForToken" /\ reader'.at = "notifyCommand" /\ reader.at = "read"
        /\ cmdBuffer' = cmdBuffer \o fifo /\ fifo' = <<>>
        /\ UNCHANGED <<altFifo, textBuffer, parser>>
    BY <1>1, <1>5 DEF ReadCommands, Locked, TypeOK
  <2>2. cmdBuffer \in Seq(Nat) /\ fifo \in Seq(Nat)
    BY <1>1 DEF TypeOK
  <2>3. /\ cmdBuffer' \in Seq(Nat) /\ fifo' \in Seq(Nat)
        /\ Len(cmdBuffer') = Len(cmdBuffer) + Len(fifo) /\ Len(fifo') = 0
        /\ \A i \in 1..Len(cmdBuffer') :
             cmdBuffer'[i] = IF i <= Len(cmdBuffer) THEN cmdBuffer[i] ELSE fifo[i - Len(cmdBuffer)]
    BY <2>1, <2>2
  <2>4. TypeOK'
    BY <1>1, <1>2, <2>1, <2>3 DEF TypeOK, Current
  <2>5. Begun' = Begun /\ Begun \in Nat
    BY <1>1, <1>2, <2>1 DEF Begun, TypeOK
  <2>6. Ordered'
    <3>1. SUFFICES ASSUME parser' \notin {"stopping", "done"}
                   PROVE  /\ Begun' + Len(cmdBuffer') + Len(fifo') = Len(script')
                          /\ \A i \in 1..Len(cmdBuffer') : cmdBuffer'[i] = Begun' + i
                          /\ \A i \in 1..Len(fifo') : fifo'[i] = Begun' + Len(cmdBuffer') + i
      BY DEF Ordered
    <3>2. /\ Begun + Len(cmdBuffer) + Len(fifo) = Len(script)
          /\ \A i \in 1..Len(cmdBuffer) : cmdBuffer[i] = Begun + i
          /\ \A i \in 1..Len(fifo) : fifo[i] = Begun + Len(cmdBuffer) + i
      BY <1>1, <2>1, <3>1 DEF Ordered
    <3>3. Len(cmdBuffer) \in Nat /\ Len(fifo) \in Nat
      BY <2>2
    <3>4. ASSUME NEW i \in 1..Len(cmdBuffer')
          PROVE  cmdBuffer'[i] = Begun' + i
      <4>1. CASE i <= Len(cmdBuffer)
        <5>1. i \in 1..Len(cmdBuffer) /\ cmdBuffer'[i] = cmdBuffer[i]
          BY <2>3, <3>3, <3>4, <4>1
        <5>2. QED BY <2>5, <3>2, <5>1
      <4>2. CASE i > Len(cmdBuffer)
        <5>1. i - Len(cmdBuffer) \in 1..Len(fifo) /\ cmdBuffer'[i] = fifo[i - Len(cmdBuffer)]
          BY <2>3, <3>3, <3>4, <4>2
        <5>2. fifo[i - Len(cmdBuffer)] = Begun + Len(cmdBuffer) + (i - Len(cmdBuffer))
          BY <3>2, <5>1
        <5>3. QED BY <2>5, <3>3, <5>1, <5>2
      <4>3. QED BY <3>3, <3>4, <4>1, <4>2
    <3>5. Begun' + Len(cmdBuffer') + Len(fifo') = Len(script')
      BY <1>2, <2>3, <2>5, <3>2, <3>3
    <3>6. QED BY <2>3, <3>4, <3>5
  <2>7. NothingYet' /\ WaitJustified'
    BY <1>1, <1>2, <2>1 DEF NothingYet, WaitJustified, Lines, Current
  <2>8. QED BY <1>3, <2>4, <2>6, <2>7 DEF Inv
<1>6. CASE NotifyCommand
  <2>1. /\ parser' = IF parser = "waitingForToken" THEN "token" ELSE parser
        /\ UNCHANGED <<fifo, altFifo, cmdBuffer, textBuffer>> /\ reader.at = "notifyCommand"
    BY <1>6 DEF NotifyCommand, Notified
  <2>2. TypeOK'
    BY <1>1, <1>2, <2>1 DEF TypeOK, Current, Places
  <2>3. Ordered'
    BY <1>1, <1>2, <2>1 DEF Ordered, Begun, TextPlaces
  <2>4. NothingYet' /\ WaitJustified'
    BY <1>1, <1>2, <2>1 DEF NothingYet, WaitJustified, Lines, Current
  <2>5. QED BY <1>3, <2>2, <2>3, <2>4 DEF Inv
<1>7. CASE ReadText
  <2>1. /\ parser # "aboutToWaitForText" /\ reader'.at = "notifyText" /\ reader.at = "read"
        /\ textBuffer' = textBuffer \o altFifo /\ altFifo' = <<>>
        /\ UNCHANGED <<fifo, cmdBuffer, parser>>
    BY <1>1, <1>7 DEF ReadText, Locked, TypeOK
  <2>2. textBuffer' \in Seq(Cell) /\ altFifo' \in Seq(Cell)
    <3>1. textBuffer \in Seq(Cell) /\ altFifo \in Seq(Cell)
      BY <1>1 DEF TypeOK
    <3>2. QED BY <2>1, <3>1
  <2>3. TypeOK'
    BY <1>1, <1>2, <2>1, <2>2 DEF TypeOK, Current
  <2>4. Ordered'
    BY <1>1, <1>2, <2>1 DEF Ordered, Begun
  <2>5. NothingYet' /\ WaitJustified'
    BY <1>1, <1>2, <2>1 DEF NothingYet, WaitJustified, Lines, Current
  <2>6. QED BY <1>3, <2>3, <2>4, <2>5 DEF Inv
<1>8. CASE NotifyText
  <2>1. /\ parser' = IF parser = "waitingForText" THEN "text" ELSE parser
        /\ UNCHANGED <<fifo, altFifo, cmdBuffer, textBuffer>> /\ reader.at = "notifyText"
    BY <1>8 DEF NotifyText, Notified
  <2>2. TypeOK'
    BY <1>1, <1>2, <2>1 DEF TypeOK, Current, Places
  <2>3. Ordered'
    BY <1>1, <1>2, <2>1 DEF Ordered, Begun, TextPlaces
  <2>4. NothingYet' /\ WaitJustified'
    BY <1>1, <1>2, <2>1 DEF NothingYet, WaitJustified, Lines, Current
  <2>5. QED BY <1>3, <2>2, <2>3, <2>4 DEF Inv
<1>9. QED BY <1>4, <1>5, <1>6, <1>7, <1>8 DEF Reader

\* The end of dispatch_fifo_request: one message more has been read.
LEMMA DeliverTypes ==
  ASSUME TypeOK, parsed < Len(script), NEW text \in Seq(Cell), Deliver(text)
  PROVE  /\ parsed' = parsed + 1
         /\ parser' \in {"token", "stopping"}
         /\ channel' \in Seq(Message) /\ taken' \in Seq(Message)
<1> DEFINE m == script[Current]
           request == [kind |-> m.kind, broken |-> m.broken, text |-> text]
<1>1. m \in Message
  <2>1. Current \in 1..Len(script) /\ script \in Seq(Message)
    BY DEF TypeOK, Current
  <2>2. QED BY <2>1
<1>2. request \in Message
  <2> HIDE DEF m
  <2>1. m.kind \in Kinds /\ m.broken \in BOOLEAN
    BY <1>1 DEF Message
  <2>2. QED BY <2>1 DEF Message
<1>3. channel \in Seq(Message) /\ taken \in Seq(Message)
  BY DEF TypeOK
<1>4. /\ parsed' = Current
      /\ IF m.broken
         THEN parser' = "token" /\ UNCHANGED <<channel, taken>>
         ELSE /\ channel' = Append(channel, request)
              /\ taken' = Append(taken, request)
              /\ parser' = IF m.kind = "exit" THEN "stopping" ELSE "token"
  BY DEF Deliver
<1> HIDE DEF m, request
<1>5. parsed' = parsed + 1 /\ parser' \in {"token", "stopping"}
  BY <1>4 DEF Current
<1>6. CASE m.broken
  BY <1>3, <1>4, <1>5, <1>6
<1>7. CASE ~m.broken
  <2>1. Append(channel, request) \in Seq(Message) /\ Append(taken, request) \in Seq(Message)
    BY <1>2, <1>3
  <2>2. QED BY <1>4, <1>5, <1>7, <2>1
<1>8. QED BY <1>6, <1>7

\* The parser takes the commands in order, finds the end of every text, and waits
\* only for what has not come.
LEMMA ParserInv ==
  ASSUME Inv, Parser
  PROVE  Inv'
<1>1. TypeOK /\ Ordered /\ TextsHaveLines /\ NothingYet /\ WaitJustified
  BY DEF Inv
<1>2. UNCHANGED <<script, unwritten, fifo, altFifo, readerDone, reader, loop, cause, forceExit>>
  BY DEF Parser, ReadToken, ReadBufferText, AtEnd, Wait, WakeReader, ParserDone,
         ParserUnchanged, editorVars, readerVars, loopVars
<1>3. TextsHaveLines'
  BY <1>1, <1>2 DEF TextsHaveLines
<1>4. /\ script \in Seq(Message) /\ cmdBuffer \in Seq(Nat) /\ textBuffer \in Seq(Cell)
      /\ fifo \in Seq(Nat) /\ parsed \in 0..Len(script) /\ Len(script) \in Nat
      /\ Len(fifo) \in Nat /\ Len(cmdBuffer) \in Nat
  BY <1>1 DEF TypeOK
<1>5. CASE ReadToken
  <2>1. /\ parser = "token" /\ cmdBuffer # <<>> /\ cmdBuffer' = Tail(cmdBuffer)
        /\ UNCHANGED <<textBuffer, wake>>
        /\ IF script[Head(cmdBuffer)].kind = "text"
           THEN parser' = "text" /\ UNCHANGED <<parsed, channel, taken>>
           ELSE Deliver(<<>>)
    BY <1>5 DEF ReadToken
  <2>2. /\ Begun = parsed
        /\ parsed + Len(cmdBuffer) + Len(fifo) = Len(script)
        /\ \A i \in 1..Len(cmdBuffer) : cmdBuffer[i] = parsed + i
        /\ \A i \in 1..Len(fifo) : fifo[i] = parsed + Len(cmdBuffer) + i
    BY <1>1, <2>1 DEF Ordered, Begun, TextPlaces
  <2>3. /\ Len(cmdBuffer) >= 1
        /\ Len(cmdBuffer') = Len(cmdBuffer) - 1 /\ cmdBuffer' \in Seq(Nat)
        /\ \A i \in 1..Len(cmdBuffer') : cmdBuffer'[i] = cmdBuffer[i + 1]
    BY <1>4, <2>1
  <2>4. Head(cmdBuffer) = Current /\ parsed < Len(script)
    <3>1. Head(cmdBuffer) = cmdBuffer[1]
      BY <1>4, <2>1
    <3>2. cmdBuffer[1] = parsed + 1
      BY <1>4, <2>2, <2>3
    <3>3. parsed < Len(script)
      BY <1>4, <2>2, <2>3
    <3>4. QED BY <3>1, <3>2, <3>3 DEF Current
  <2>5. /\ channel' \in Seq(Message) /\ taken' \in Seq(Message)
        /\ \/ parser' = "text" /\ parsed' = parsed /\ script[Current].kind = "text"
           \/ parser' \in {"token", "stopping"} /\ parsed' = parsed + 1
    <3>1. CASE script[Head(cmdBuffer)].kind = "text"
      BY <1>1, <2>1, <2>4, <3>1 DEF TypeOK
    <3>2. CASE script[Head(cmdBuffer)].kind # "text"
      <4>1. <<>> \in Seq(Cell)
        OBVIOUS
      <4>2. QED BY <1>1, <2>1, <2>4, <3>2, <4>1, DeliverTypes
    <3>3. QED BY <3>1, <3>2
  <2>6. TypeOK'
    <3>1. parsed' \in 0..Len(script') /\ parser' \in Places
      BY <1>2, <1>4, <2>4, <2>5 DEF Places
    <3>2. parser' \in TextPlaces => parsed' < Len(script') /\ script'[Current'].kind = "text"
      BY <1>2, <2>4, <2>5 DEF TextPlaces, Current
    <3>3. QED BY <1>1, <1>2, <2>1, <2>3, <2>5, <3>1, <3>2 DEF TypeOK, TextPlaces
  <2>7. Ordered'
    <3>1. Begun' = parsed + 1
      BY <1>4, <2>5 DEF Begun, TextPlaces
    <3>2. Begun' + Len(cmdBuffer') + Len(fifo') = Len(script')
      <4>1. Len(fifo') = Len(fifo) /\ Len(script') = Len(script)
        BY <1>2
      <4>2. parsed + 1 + (Len(cmdBuffer) - 1) + Len(fifo) = Len(script)
        <5>1. parsed \in Int /\ Len(cmdBuffer) \in Int /\ Len(fifo) \in Int
          BY <1>4
        <5>2. parsed + Len(cmdBuffer) + Len(fifo) = Len(script)
          BY <2>2
        <5>3. QED BY <5>1, <5>2
      <4>3. Len(cmdBuffer') = Len(cmdBuffer) - 1
        BY <2>3
      <4>4. QED BY <3>1, <4>1, <4>2, <4>3
    <3>3. ASSUME NEW i \in 1..Len(cmdBuffer')
          PROVE  cmdBuffer'[i] = Begun' + i
      <4>1. i + 1 \in 1..Len(cmdBuffer) /\ cmdBuffer'[i] = cmdBuffer[i + 1]
        <5>1. Len(cmdBuffer) \in Nat /\ Len(cmdBuffer') = Len(cmdBuffer) - 1
          BY <1>4, <2>3
        <5>2. i + 1 \in 1..Len(cmdBuffer)
          BY <5>1
        <5>3. cmdBuffer'[i] = cmdBuffer[i + 1]
          BY <2>3
        <5>4. QED BY <5>2, <5>3
      <4>2. cmdBuffer[i + 1] = parsed + (i + 1)
        BY <2>2, <4>1
      <4>3. QED BY <1>4, <3>1, <4>1, <4>2
    <3>4. ASSUME NEW i \in 1..Len(fifo')
          PROVE  fifo'[i] = Begun' + Len(cmdBuffer') + i
      <4>1. fifo'[i] = parsed + Len(cmdBuffer) + i
        BY <1>2, <2>2, <3>4
      <4>2. Begun' + Len(cmdBuffer') = parsed + Len(cmdBuffer)
        BY <1>4, <2>3, <3>1
      <4>3. QED BY <4>1, <4>2
    <3>5. QED BY <3>2, <3>3, <3>4 DEF Ordered
  <2>8. NothingYet' /\ WaitJustified'
    BY <2>5 DEF NothingYet, WaitJustified
  <2>9. QED BY <1>3, <2>6, <2>7, <2>8 DEF Inv
<1>6. CASE ReadBufferText
  <2> DEFINE cut == CutAt(textBuffer, Lines)
             text == SubSeq(textBuffer, 1, cut)
  <2>1. /\ parser = "text" /\ Newlines(textBuffer) >= Lines
        /\ Deliver(text)
        /\ textBuffer' = SubSeq(textBuffer, cut + 1, Len(textBuffer))
        /\ UNCHANGED <<cmdBuffer, wake>>
    BY <1>6 DEF ReadBufferText
  <2>2. parsed < Len(script) /\ script[Current].kind = "text"
    BY <1>1, <2>1 DEF TypeOK
  <2>3. cut \in 1..Len(textBuffer)
    <3>1. Current \in 1..Len(script)
      BY <1>4, <2>2 DEF Current
    <3>2. Lines \in Nat \ {0}
      BY <1>1, <2>2, <3>1 DEF TextsHaveLines, Lines
    <3>3. QED BY <1>4, <2>1, <3>2, CutExists
  <2> HIDE DEF cut
  <2>4. text \in Seq(Cell) /\ textBuffer' \in Seq(Cell)
    BY <1>4, <2>1, <2>3
  <2> HIDE DEF text
  <2>5. /\ parsed' = parsed + 1 /\ parser' \in {"token", "stopping"}
        /\ channel' \in Seq(Message) /\ taken' \in Seq(Message)
    BY <1>1, <2>1, <2>2, <2>4, DeliverTypes
  <2>6. TypeOK'
    <3>1. parsed' \in 0..Len(script') /\ parser' \in Places
      BY <1>2, <1>4, <2>2, <2>5 DEF Places
    <3>2. parser' \notin TextPlaces
      BY <2>5 DEF TextPlaces
    <3>3. QED BY <1>1, <1>2, <2>1, <2>4, <2>5, <3>1, <3>2 DEF TypeOK, TextPlaces
  <2>7. Ordered'
    <3>1. Begun' = Begun
      BY <2>1, <2>5 DEF Begun, TextPlaces
    <3>2. QED BY <1>1, <1>2, <2>1, <3>1 DEF Ordered
  <2>8. NothingYet' /\ WaitJustified'
    BY <2>5 DEF NothingYet, WaitJustified
  <2>9. QED BY <1>3, <2>6, <2>7, <2>8 DEF Inv
<1>7. CASE AtEnd
  <2>1. UNCHANGED <<parsed, taken, channel, cmdBuffer, textBuffer, wake>>
    BY <1>7 DEF AtEnd
  <2>2. \/ parser = "token" /\ cmdBuffer = <<>>
        \/ parser = "text" /\ Newlines(textBuffer) < Lines
    BY <1>7 DEF AtEnd
  <2>3. parser' = IF forceExit THEN "stopping"
                  ELSE IF parser = "token" THEN "aboutToWaitForToken" ELSE "aboutToWaitForText"
    BY <1>7 DEF AtEnd
  <2>4. Lines' = Lines
    BY <1>2, <2>1 DEF Lines, Current
  <2>5. TypeOK'
    BY <1>1, <1>2, <2>1, <2>2, <2>3 DEF TypeOK, Current, Places
  <2>6. Ordered'
    BY <1>1, <1>2, <2>1, <2>2, <2>3 DEF Ordered, Begun, TextPlaces
  <2>7. NothingYet' /\ WaitJustified'
    BY <1>2, <2>1, <2>2, <2>3, <2>4 DEF NothingYet, WaitJustified
  <2>8. QED BY <1>3, <2>5, <2>6, <2>7 DEF Inv
<1>8. CASE Wait
  <2>1. /\ parser \in {"aboutToWaitForToken", "aboutToWaitForText"}
        /\ parser' = IF parser = "aboutToWaitForToken" THEN "waitingForToken" ELSE "waitingForText"
        /\ UNCHANGED <<parsed, taken, channel, cmdBuffer, textBuffer, wake>>
    BY <1>8 DEF Wait
  <2>2. Lines' = Lines
    BY <1>2, <2>1 DEF Lines, Current
  <2>3. TypeOK'
    BY <1>1, <1>2, <2>1 DEF TypeOK, Current, Places
  <2>4. Ordered'
    BY <1>1, <1>2, <2>1 DEF Ordered, Begun, TextPlaces
  <2>5. NothingYet' /\ WaitJustified'
    BY <1>1, <1>2, <2>1, <2>2 DEF NothingYet, WaitJustified
  <2>6. QED BY <1>3, <2>3, <2>4, <2>5 DEF Inv
<1>9. CASE WakeReader \/ ParserDone
  <2>1. /\ parser = "stopping" /\ parser' \in {"stopping", "done"} /\ wake' \in BOOLEAN
        /\ UNCHANGED <<parsed, taken, channel, cmdBuffer, textBuffer>>
    BY <1>1, <1>9 DEF WakeReader, ParserDone, parserVars, TypeOK
  <2>2. TypeOK'
    BY <1>1, <1>2, <2>1 DEF TypeOK, Current, Places
  <2>3. Ordered' /\ NothingYet' /\ WaitJustified'
    BY <2>1 DEF Ordered, NothingYet, WaitJustified
  <2>4. QED BY <1>3, <2>2, <2>3 DEF Inv
<1>10. QED BY <1>5, <1>6, <1>7, <1>8, <1>9 DEF Parser

\* The event loop sets force_exit while nobody holds a mutex, and then notifies
\* both condition variables: it leaves nobody waiting in vain.
LEMMA LoopInv ==
  ASSUME Inv, Loop \/ ForceExit
  PROVE  Inv'
<1> USE DEF LoopUnchanged, editorVars, readerVars
<1>1. TypeOK /\ Ordered /\ TextsHaveLines /\ NothingYet /\ WaitJustified
  BY DEF Inv
<1>2. UNCHANGED <<script, unwritten, fifo, altFifo, cmdBuffer, textBuffer, readerDone, reader,
                  wake, parsed, taken>>
  BY DEF Loop, ReceiveRequest, NotifyBoth, JoinParser, JoinReader, ForceExit
<1>3. TextsHaveLines' /\ Lines' = Lines
  BY <1>1, <1>2 DEF TextsHaveLines, Lines, Current
<1>4. CASE ReceiveRequest
  <2>1. /\ loop = "running" /\ channel # <<>> /\ channel' = Tail(channel)
        /\ IF Head(channel).kind \in {"exit", "foreign"}
           THEN loop' = "joiningParser" /\ cause' = Head(channel).kind
           ELSE UNCHANGED <<loop, cause>>
        /\ UNCHANGED <<forceExit, parser>>
    BY <1>4 DEF ReceiveRequest
  <2>2. channel' \in Seq(Message)
    <3>1. channel \in Seq(Message)
      BY <1>1 DEF TypeOK
    <3>2. QED BY <2>1, <3>1
  <2>3. TypeOK'
    BY <1>1, <1>2, <2>1, <2>2 DEF TypeOK, Current
  <2>4. Ordered'
    BY <1>1, <1>2, <2>1 DEF Ordered, Begun
  <2>5. NothingYet' /\ WaitJustified'
    BY <1>1, <1>2, <1>3, <2>1 DEF NothingYet, WaitJustified
  <2>6. QED BY <1>3, <2>3, <2>4, <2>5 DEF Inv
<1>5. CASE NotifyBoth
  <2>1. /\ loop = "forcing" /\ loop' = "joiningParser" /\ UNCHANGED <<channel, forceExit, cause>>
        /\ parser' = IF parser = "waitingForToken" THEN "token"
                     ELSE IF parser = "waitingForText" THEN "text" ELSE parser
    BY <1>5 DEF NotifyBoth, Notified
  <2>2. TypeOK'
    BY <1>1, <1>2, <2>1 DEF TypeOK, Current, Places
  <2>3. Ordered'
    BY <1>1, <1>2, <2>1 DEF Ordered, Begun, TextPlaces
  <2>4. NothingYet' /\ WaitJustified'
    BY <1>1, <1>2, <1>3, <2>1 DEF NothingYet, WaitJustified
  <2>5. QED BY <1>3, <2>2, <2>3, <2>4 DEF Inv
<1>6. CASE JoinParser \/ JoinReader
  <2>1. /\ loop \in {"joiningParser", "joiningReader"} /\ loop' \in {"joiningReader", "ended"}
        /\ UNCHANGED <<channel, forceExit, cause, parser>>
    BY <1>6 DEF JoinParser, JoinReader
  <2>2. TypeOK'
    BY <1>1, <1>2, <2>1 DEF TypeOK, Current
  <2>3. Ordered'
    BY <1>1, <1>2, <2>1 DEF Ordered, Begun
  <2>4. NothingYet' /\ WaitJustified'
    BY <1>1, <1>2, <1>3, <2>1 DEF NothingYet, WaitJustified
  <2>5. QED BY <1>3, <2>2, <2>3, <2>4 DEF Inv
<1>7. CASE ForceExit
  <2>1. /\ parser \notin {"aboutToWaitForToken", "aboutToWaitForText"}
        /\ forceExit' = TRUE /\ loop' = "forcing" /\ cause' = "force"
        /\ UNCHANGED <<parser, channel>>
    BY <1>7 DEF ForceExit, Locked
  <2>2. TypeOK'
    BY <1>1, <1>2, <2>1 DEF TypeOK, Current
  <2>3. Ordered'
    BY <1>1, <1>2, <2>1 DEF Ordered, Begun
  <2>4. NothingYet' /\ WaitJustified'
    BY <1>1, <1>2, <1>3, <2>1 DEF NothingYet, WaitJustified
  <2>5. QED BY <1>3, <2>2, <2>3, <2>4 DEF Inv
<1>8. QED BY <1>4, <1>5, <1>6, <1>7 DEF Loop

LEMMA StepInv == Inv /\ [Next]_vars => Inv'
<1> SUFFICES ASSUME Inv, [Next]_vars PROVE Inv'
  OBVIOUS
<1>1. CASE Editor
  BY <1>1, SendInv, WriteInv DEF Editor
<1>2. CASE Reader
  BY <1>2, ReaderInv
<1>3. CASE Parser
  BY <1>3, ParserInv
<1>4. CASE Loop \/ ForceExit
  BY <1>4, LoopInv
<1>5. CASE Quiescent \/ UNCHANGED vars
  BY <1>5, SameInv DEF Quiescent
<1>6. QED BY <1>1, <1>2, <1>3, <1>4, <1>5 DEF Next

-----------------------------------------------------------------------------
(***************************************************************************)
(* The theorems.                                                           *)
(***************************************************************************)

LEMMA InvHolds == Spec => []Inv
BY InitInv, StepInv, PTL DEF Spec

\* The threads' shared state is well typed in every state, for any number of
\* messages and lines: next_string and text_of_buffer always find what they cut out.
THEOREM FifoTypeCorrect == Spec => []TypeOK
<1>1. Inv => TypeOK
  BY DEF Inv
<1>2. QED BY <1>1, InvHolds, PTL

\* The parser never waits on a condition variable without a reason, or without a
\* notification still to come: no wake-up of the command reader or of
\* trigger_force_exit is lost.
THEOREM NoWakeUpIsLost == Spec => []WaitJustified
<1>1. Inv => WaitJustified
  BY DEF Inv
<1>2. QED BY <1>1, InvHolds, PTL

\* The commands that the parser has not read yet are in the command buffer and the
\* fifo, in the editor's order, as long as it goes on: none is lost, doubled or
\* overtaken on the way (read_to_end under the mutex, next_string).
THEOREM CommandsStayInOrder == Spec => []Ordered
<1>1. Inv => Ordered
  BY DEF Inv
<1>2. QED BY <1>1, InvHolds, PTL

-----------------------------------------------------------------------------
(***************************************************************************)
(* The pipeline implements EditorChannel.                                  *)
(***************************************************************************)

\* The texts on their way, from the parser back to the editor.
Coming == textBuffer \o altFifo \o unwritten

\* They are those of the messages the parser has not parsed, one after the other: text k
\* is between start[k] and start[k + 1].
Aligned(start) ==
  /\ start[parsed + 1] = 0 /\ start[Len(script) + 1] = Len(Coming)
  /\ \A j, k \in parsed + 1..Len(script) + 1 : j <= k => start[j] <= start[k]
  /\ \A k \in parsed + 1..Len(script) :
       /\ start[k + 1] = start[k] + Len(script[k].text)
       /\ \A i \in 1..Len(script[k].text) : Coming[start[k] + i] = script[k].text[i]

TextsInOrder == \E start \in [parsed + 1..Len(script) + 1 -> 0..Len(Coming)] : Aligned(start)

\* What follows a command: nothing, or lines that end with a newline.
TextsEnd ==
  \A k \in 1..Len(script) :
    LET text == script[k].text IN
    IF script[k].kind = "text" THEN Len(text) > 0 /\ text[Len(text)].newline ELSE text = <<>>

LEMMA SameSequence ==
  ASSUME NEW S, NEW s \in Seq(S), NEW t \in Seq(S), Len(s) = Len(t),
         \A i \in 1..Len(s) : s[i] = t[i]
  PROVE  s = t
OBVIOUS

\* Three pieces in a row.
LEMMA Pieces ==
  ASSUME NEW a \in Seq(Cell), NEW b \in Seq(Cell), NEW c \in Seq(Cell), NEW s, s = a \o b \o c
  PROVE  /\ s \in Seq(Cell) /\ Len(s) = Len(a) + Len(b) + Len(c)
         /\ \A i \in 1..Len(s) :
              s[i] = IF i <= Len(a) THEN a[i]
                     ELSE IF i <= Len(a) + Len(b) THEN b[i - Len(a)]
                     ELSE c[i - Len(a) - Len(b)]
<1>0. a \o b \in Seq(Cell)
  OBVIOUS
<1>1. PICK t \in Seq(Cell) : t = a \o b
  BY <1>0
<1>2. /\ Len(t) = Len(a) + Len(b)
      /\ \A i \in 1..Len(t) : t[i] = IF i <= Len(a) THEN a[i] ELSE b[i - Len(a)]
  BY <1>1
<1>3. s = t \o c
  BY <1>1
<1>4. /\ s \in Seq(Cell) /\ Len(s) = Len(t) + Len(c)
      /\ \A i \in 1..Len(s) : s[i] = IF i <= Len(t) THEN t[i] ELSE c[i - Len(t)]
  BY <1>3
<1>5. QED BY <1>2, <1>4

\* What the reader takes out of a fifo, and the editor puts in, changes place and nothing
\* else.
LEMMA PiecesMove ==
  ASSUME NEW a \in Seq(Cell), NEW b \in Seq(Cell), NEW c \in Seq(Cell)
  PROVE  /\ (a \o b) \o <<>> \o c = a \o b \o c
         /\ c # <<>> => a \o Append(b, Head(c)) \o Tail(c) = a \o b \o c
<1>1. (a \o b) \o <<>> \o c = a \o b \o c
  OBVIOUS
<1>2. ASSUME c # <<>> PROVE a \o Append(b, Head(c)) \o Tail(c) = a \o b \o c
  <2>1. PICK s \in Seq(Cell) : s = a \o b \o c
    BY Pieces
  <2>0. Append(b, Head(c)) \in Seq(Cell) /\ Tail(c) \in Seq(Cell)
    BY <1>2
  <2>2. PICK d \in Seq(Cell) : d = Append(b, Head(c))
    BY <2>0
  <2>3. PICK e \in Seq(Cell) : e = Tail(c)
    BY <2>0
  <2>4. PICK t \in Seq(Cell) : t = a \o d \o e
    BY Pieces
  <2>5. /\ Len(d) = Len(b) + 1 /\ \A i \in 1..Len(d) : d[i] = IF i <= Len(b) THEN b[i] ELSE c[1]
    BY <1>2, <2>2
  <2>6. /\ Len(e) = Len(c) - 1 /\ Len(c) >= 1 /\ \A i \in 1..Len(e) : e[i] = c[i + 1]
    BY <1>2, <2>3
  <2>7. Len(s) = Len(t)
    <3>1. Len(s) = Len(a) + Len(b) + Len(c) /\ Len(t) = Len(a) + Len(d) + Len(e)
      BY <2>1, <2>4, Pieces
    <3>2. Len(a) \in Nat /\ Len(b) \in Nat /\ Len(c) \in Nat
      OBVIOUS
    <3>3. QED BY <2>5, <2>6, <3>1, <3>2
  <2>8. ASSUME NEW i \in 1..Len(s) PROVE s[i] = t[i]
    <3>1. s[i] = IF i <= Len(a) THEN a[i]
                 ELSE IF i <= Len(a) + Len(b) THEN b[i - Len(a)]
                 ELSE c[i - Len(a) - Len(b)]
      BY <2>1, Pieces
    <3>2. t[i] = IF i <= Len(a) THEN a[i]
                 ELSE IF i <= Len(a) + Len(d) THEN d[i - Len(a)]
                 ELSE e[i - Len(a) - Len(d)]
      BY <2>4, <2>7, Pieces
    <3>3. Len(s) = Len(a) + Len(b) + Len(c) /\ Len(a) \in Nat /\ Len(b) \in Nat /\ Len(c) \in Nat
      BY <2>1, Pieces
    <3>4. CASE i <= Len(a) + Len(b)
      <4>1. CASE i <= Len(a)
        BY <3>1, <3>2, <4>1
      <4>2. CASE i > Len(a)
        <5>1. i - Len(a) \in 1..Len(b) /\ i <= Len(a) + Len(d) /\ ~ i <= Len(a)
          BY <2>5, <3>3, <3>4, <4>2
        <5>2. PICK j \in 1..Len(b) : j = i - Len(a)
          BY <5>1
        <5>3. s[i] = b[j] /\ t[i] = d[j]
          BY <3>1, <3>2, <3>4, <5>1, <5>2
        <5>4. j \in 1..Len(d) /\ j <= Len(b)
          BY <2>5, <3>3
        <5>5. d[j] = b[j]
          BY <2>5, <5>4
        <5>6. QED BY <5>3, <5>5
      <4>3. QED BY <3>3, <4>1, <4>2
    <3>5. CASE i = Len(a) + Len(b) + 1
      <4>1. i - Len(a) = Len(b) + 1 /\ i - Len(a) - Len(b) = 1
        BY <3>3, <3>5
      <4>2. s[i] = c[1]
        BY <3>1, <3>3, <3>5, <4>1
      <4>3. t[i] = d[Len(b) + 1]
        BY <2>5, <3>2, <3>3, <3>5, <4>1
      <4>4. Len(b) + 1 \in 1..Len(d) /\ ~ Len(b) + 1 <= Len(b)
        BY <2>5, <3>3
      <4>5. d[Len(b) + 1] = c[1]
        BY <2>5, <4>4
      <4>6. QED BY <4>2, <4>3, <4>5
    <3>6. CASE i > Len(a) + Len(b) + 1
      <4>1. i - Len(a) - Len(d) \in 1..Len(e) /\ i - Len(a) - Len(d) + 1 = i - Len(a) - Len(b)
        BY <2>5, <2>6, <3>3, <3>6
      <4>2. t[i] = e[i - Len(a) - Len(d)]
        BY <2>5, <3>2, <3>3, <3>6
      <4>3. s[i] = c[i - Len(a) - Len(b)]
        BY <3>1, <3>3, <3>6
      <4>4. QED BY <2>6, <4>1, <4>2, <4>3
    <3>7. \/ i <= Len(a) + Len(b) \/ i = Len(a) + Len(b) + 1 \/ i > Len(a) + Len(b) + 1
      BY <3>3
    <3>8. QED BY <3>4, <3>5, <3>6, <3>7
  <2>9. s = t
    <3>1. s \in Seq(Cell) /\ t \in Seq(Cell)
      OBVIOUS
    <3>2. QED BY <2>7, <2>8, <3>1, SameSequence
  <2>10. QED BY <2>1, <2>2, <2>3, <2>4, <2>9
<1>3. QED BY <1>1, <1>2

\* text_of_buffer cuts off the text the editor has written, whatever follows it.
LEMMA CutIsEnd ==
  ASSUME NEW buffer \in Seq(Cell), NEW text \in Seq(Cell),
         Len(text) > 0, text[Len(text)].newline,
         Newlines(buffer) >= Newlines(text), Newlines(text) \in Nat \ {0},
         \A i \in 1..Len(text) : i <= Len(buffer) => buffer[i] = text[i]
  PROVE  /\ CutAt(buffer, Newlines(text)) = Len(text) /\ Len(text) <= Len(buffer)
         /\ SubSeq(buffer, 1, Len(text)) = text
<1> DEFINE lines == Newlines(text)
           cut == CutAt(buffer, lines)
           n == Len(text)
<1>1. cut \in 1..Len(buffer) /\ buffer[cut].newline /\ Newlines(SubSeq(buffer, 1, cut)) = lines
  BY CutExists
<1>2. /\ lines = Cardinality(NewlinesIn(buffer, cut)) /\ IsFiniteSet(NewlinesIn(buffer, cut))
      /\ lines = Cardinality(NewlinesIn(text, n)) /\ IsFiniteSet(NewlinesIn(text, n))
      /\ n \in Nat /\ Len(buffer) \in Nat
  BY <1>1, NewlineCount
<1> HIDE DEF lines, cut
<1>3. ~ cut < n
  <2>1. SUFFICES ASSUME cut < n PROVE FALSE
    OBVIOUS
  <2>2. NewlinesIn(buffer, cut) \subseteq NewlinesIn(text, n)
    BY <1>1, <1>2, <2>1 DEF NewlinesIn
  <2>3. n \in NewlinesIn(text, n) /\ n \notin NewlinesIn(buffer, cut)
    BY <1>1, <1>2, <2>1 DEF NewlinesIn
  <2>4. QED BY <1>2, <2>2, <2>3, FS_Subset
<1>4. ~ cut > n
  <2>1. SUFFICES ASSUME cut > n PROVE FALSE
    OBVIOUS
  <2>2. NewlinesIn(text, n) \subseteq NewlinesIn(buffer, cut)
    BY <1>1, <1>2, <2>1 DEF NewlinesIn
  <2>3. cut \in NewlinesIn(buffer, cut) /\ cut \notin NewlinesIn(text, n)
    BY <1>1, <1>2, <2>1 DEF NewlinesIn
  <2>4. QED BY <1>2, <2>2, <2>3, FS_Subset
<1>5. cut = n /\ n <= Len(buffer)
  BY <1>1, <1>2, <1>3, <1>4
<1>6. SubSeq(buffer, 1, n) = text
  <2>1. PICK s \in Seq(Cell) : s = SubSeq(buffer, 1, n)
    BY <1>2, <1>5
  <2>2. Len(s) = n /\ \A i \in 1..n : s[i] = buffer[i]
    BY <1>2, <1>5, <2>1
  <2>3. \A i \in 1..n : s[i] = text[i]
    BY <1>2, <1>5, <2>2
  <2>4. s = text
    BY <2>1, <2>2, <2>3
  <2>5. QED BY <2>1, <2>4
<1>7. QED BY <1>5, <1>6 DEF cut, lines

LEMMA MessageTexts ==
  ASSUME TypeOK
  PROVE  /\ Len(script) \in Nat /\ parsed \in 0..Len(script)
         /\ \A k \in 1..Len(script) : /\ script[k] \in Message /\ script[k].text \in Seq(Cell)
                                      /\ Len(script[k].text) \in Nat
         /\ Coming \in Seq(Cell) /\ Len(Coming) \in Nat
<1>1. script \in Seq(Message) /\ parsed \in 0..Len(script)
  BY DEF TypeOK
<1>2. ASSUME NEW m \in Message PROVE m.text \in Seq(Cell) /\ Len(m.text) \in Nat
  BY DEF Message
<1>3. Coming \in Seq(Cell)
  BY Pieces DEF Coming, TypeOK
<1>4. Len(Coming) \in Nat /\ Len(script) \in Nat
  BY <1>1, <1>3
<1>5. \A k \in 1..Len(script) : script[k] \in Message
  BY <1>1
<1>6. QED BY <1>1, <1>2, <1>3, <1>4, <1>5

\* The parser takes the first of the texts, which may be none.
LEMMA TextTaken ==
  ASSUME TypeOK, TextsInOrder, parsed < Len(script), script' = script, parsed' = parsed + 1,
         Len(Coming') = Len(Coming) - Len(script[parsed + 1].text),
         \A i \in 1..Len(Coming') : Coming'[i] = Coming[i + Len(script[parsed + 1].text)]
  PROVE  TextsInOrder'
<1>1. PICK last \in Nat, n \in Nat, c \in Nat, cc \in Nat :
        /\ parsed \in Nat /\ last = Len(script) + 1 /\ parsed + 1 < last
        /\ n = Len(script[parsed + 1].text) /\ c = Len(Coming) /\ cc = Len(Coming') /\ cc = c - n
  <2>1. /\ parsed \in Nat /\ Len(script) + 1 \in Nat /\ parsed + 1 < Len(script) + 1
        /\ Len(script[parsed + 1].text) \in Nat /\ Len(Coming) \in Nat
    BY MessageTexts
  <2>2. PICK start \in [parsed + 1..Len(script) + 1 -> 0..Len(Coming)] : Aligned(start)
    BY DEF TextsInOrder
  <2>3. start[(parsed + 1) + 1] = start[parsed + 1] + Len(script[parsed + 1].text)
    <3>1. parsed + 1 \in parsed + 1..Len(script)
      BY <2>1
    <3>2. QED BY <2>2, <3>1 DEF Aligned
  <2>4. start[parsed + 1] = 0
    BY <2>2 DEF Aligned
  <2>5. (parsed + 1) + 1 \in parsed + 1..Len(script) + 1
    BY <2>1
  <2>6. start[(parsed + 1) + 1] \in 0..Len(Coming)
    BY <2>2, <2>5
  <2>7. Len(Coming) - Len(script[parsed + 1].text) \in Nat
    BY <2>1, <2>3, <2>4, <2>6
  <2>8. QED BY <2>1, <2>7
<1>2. PICK start \in [parsed + 1..last -> 0..c] : Aligned(start)
  BY <1>1 DEF TextsInOrder
<1>3. last - 1 = Len(script)
  BY <1>1
<1>4. start[parsed + 1] = 0 /\ start[last] = c
  BY <1>1, <1>2 DEF Aligned
<1>5. \A j, k \in parsed + 1..last : j <= k => start[j] <= start[k]
  BY <1>1, <1>2 DEF Aligned
<1>6. \A k \in parsed + 1..last - 1 : start[k + 1] = start[k] + Len(script[k].text)
  BY <1>2, <1>3 DEF Aligned
<1>7. \A k \in parsed + 1..last - 1 :
        \A i \in 1..Len(script[k].text) : Coming[start[k] + i] = script[k].text[i]
  BY <1>2, <1>3 DEF Aligned
<1>8. \A k \in parsed + 1..last - 1 : Len(script[k].text) \in Nat
  BY <1>1, <1>3, MessageTexts
<1>9. \A i \in 1..cc : Coming'[i] = Coming[i + n]
  BY <1>1
<1>10. start[parsed + 2] = n
  <2>1. parsed + 1 \in parsed + 1..last - 1 /\ (parsed + 1) + 1 = parsed + 2
    BY <1>1
  <2>2. start[(parsed + 1) + 1] = start[parsed + 1] + Len(script[parsed + 1].text)
    BY <1>6, <2>1
  <2>3. QED BY <1>1, <1>4, <2>1, <2>2
<1>11. ASSUME NEW k \in parsed + 2..last
       PROVE  start[k] \in n..c
  <2>1. parsed + 2 \in parsed + 1..last /\ k \in parsed + 1..last /\ parsed + 2 <= k
    BY <1>1
  <2>2. start[parsed + 2] <= start[k]
    BY <1>5, <2>1
  <2>3. start[k] \in 0..c
    BY <1>2, <2>1
  <2>4. QED BY <1>1, <1>10, <2>2, <2>3
<1>12. PICK next \in [parsed + 2..last -> 0..cc] : next = [k \in parsed + 2..last |-> start[k] - n]
  <2>1. ASSUME NEW k \in parsed + 2..last PROVE start[k] - n \in 0..cc
    <3>1. PICK a \in n..c : a = start[k]
      BY <1>11
    <3>2. cc = c - n
      BY <1>1
    <3>3. QED BY <3>1, <3>2
  <2>2. QED BY <2>1
<1>13. \A k \in parsed + 2..last : next[k] = start[k] - n
  BY <1>12
<1>14. next[parsed + 2] = 0 /\ next[last] = cc
  <2>1. parsed + 2 \in parsed + 2..last /\ last \in parsed + 2..last
    BY <1>1
  <2>2. next[parsed + 2] = n - n /\ next[last] = c - n
    BY <1>4, <1>10, <1>13, <2>1
  <2>3. QED BY <1>1, <2>2
<1>15. ASSUME NEW j \in parsed + 2..last, NEW k \in parsed + 2..last, j <= k
       PROVE  next[j] <= next[k]
  <2>1. j \in parsed + 1..last /\ k \in parsed + 1..last
    BY <1>1
  <2>2. start[j] <= start[k]
    BY <1>5, <1>15, <2>1
  <2>3. PICK x \in n..c : x = start[j]
    BY <1>11
  <2>4. PICK y \in n..c : y = start[k]
    BY <1>11
  <2>5. next[j] = x - n /\ next[k] = y - n
    BY <1>13, <2>3, <2>4
  <2>6. x <= y /\ n \in Int /\ c \in Int
    BY <1>1, <2>2, <2>3, <2>4
  <2>7. QED BY <2>5, <2>6
<1>16. ASSUME NEW k \in parsed + 2..last - 1
       PROVE  /\ next[k + 1] = next[k] + Len(script[k].text)
              /\ \A i \in 1..Len(script[k].text) : Coming'[next[k] + i] = script[k].text[i]
  <2>1. k \in parsed + 1..last - 1 /\ k \in parsed + 2..last /\ k + 1 \in parsed + 2..last
    BY <1>1
  <2>2. PICK t \in Nat : t = Len(script[k].text)
    BY <1>8, <2>1
  <2>3. start[k + 1] = start[k] + t
    BY <1>6, <2>1, <2>2
  <2>4. PICK x \in n..c : x = start[k]
    BY <1>11, <2>1
  <2>5. next[k] = x - n /\ next[k + 1] = (x + t) - n
    BY <1>13, <2>1, <2>3, <2>4
  <2>6. next[k + 1] = next[k] + t
    <3>1. n \in Int /\ c \in Int
      BY <1>1
    <3>2. QED BY <2>5, <3>1
  <2>7. ASSUME NEW i \in 1..t
        PROVE  Coming'[next[k] + i] = script[k].text[i]
    <3>1. next[k] + i \in 1..cc /\ next[k] + i + n = start[k] + i
      <4>1. PICK a \in n..c, b \in n..c : a = start[k] /\ b = start[k + 1]
        BY <1>11, <2>1
      <4>2. cc = c - n /\ b = a + t
        BY <1>1, <2>3, <4>1
      <4>3. a - n + i \in 1..cc /\ a - n + i + n = a + i
        BY <4>2
      <4>4. QED BY <2>4, <2>5, <4>1, <4>3
    <3>2. Coming'[next[k] + i] = Coming[start[k] + i]
      BY <1>9, <3>1
    <3>3. Coming[start[k] + i] = script[k].text[i]
      BY <1>7, <2>1, <2>2
    <3>4. QED BY <3>2, <3>3
  <2>8. QED BY <2>2, <2>6, <2>7
<1>17. parsed' + 1 = parsed + 2 /\ Len(script') + 1 = last /\ Len(script') = last - 1 /\ script' = script
       /\ Len(Coming') = cc
  BY <1>1
<1>18. Aligned(next)'
  <2>1. next[parsed' + 1] = 0 /\ next[Len(script') + 1] = Len(Coming')
    BY <1>14, <1>17
  <2>2. \A j, k \in parsed' + 1..Len(script') + 1 : j <= k => next[j] <= next[k]
    BY <1>15, <1>17
  <2>3. \A k \in parsed' + 1..Len(script') :
          /\ next[k + 1] = next[k] + Len(script'[k].text)
          /\ \A i \in 1..Len(script'[k].text) : Coming'[next[k] + i] = script'[k].text[i]
    BY <1>16, <1>17
  <2>4. QED BY <2>1, <2>2, <2>3 DEF Aligned
<1>19. next \in [parsed' + 1..Len(script') + 1 -> 0..Len(Coming')]
  BY <1>12, <1>17
<1>20. QED BY <1>18, <1>19 DEF TextsInOrder

\* The editor begins to write a text, after the others.
LEMMA TextAdded ==
  ASSUME TypeOK, TextsInOrder, NEW m \in Message, script' = Append(script, m), parsed' = parsed,
         Len(Coming') = Len(Coming) + Len(m.text),
         \A i \in 1..Len(Coming) : Coming'[i] = Coming[i],
         \A i \in 1..Len(m.text) : Coming'[Len(Coming) + i] = m.text[i]
  PROVE  TextsInOrder'
<1>1. PICK last \in Nat, n \in Nat, c \in Nat, cc \in Nat :
        /\ parsed \in Nat /\ last = Len(script) + 1 /\ parsed + 1 <= last
        /\ n = Len(m.text) /\ c = Len(Coming) /\ cc = Len(Coming') /\ cc = c + n
  <2>1. /\ parsed \in Nat /\ Len(script) + 1 \in Nat /\ parsed + 1 <= Len(script) + 1
        /\ Len(m.text) \in Nat /\ Len(Coming) \in Nat
    BY MessageTexts DEF Message
  <2>2. QED BY <2>1
<1>2. PICK start \in [parsed + 1..last -> 0..c] : Aligned(start)
  BY <1>1 DEF TextsInOrder
<1>3. last - 1 = Len(script)
  BY <1>1
<1>4. start[parsed + 1] = 0 /\ start[last] = c
  BY <1>1, <1>2 DEF Aligned
<1>5. \A j, k \in parsed + 1..last : j <= k => start[j] <= start[k]
  BY <1>1, <1>2 DEF Aligned
<1>6. \A k \in parsed + 1..last - 1 : start[k + 1] = start[k] + Len(script[k].text)
  BY <1>2, <1>3 DEF Aligned
<1>7. \A k \in parsed + 1..last - 1 :
        \A i \in 1..Len(script[k].text) : Coming[start[k] + i] = script[k].text[i]
  BY <1>2, <1>3 DEF Aligned
<1>8. \A k \in parsed + 1..last - 1 : Len(script[k].text) \in Nat
  BY <1>1, <1>3, MessageTexts
<1>9. /\ \A i \in 1..c : Coming'[i] = Coming[i]
      /\ \A i \in 1..n : Coming'[c + i] = m.text[i]
  BY <1>1
<1>10. /\ Len(script') = last /\ script'[last] = m
       /\ \A k \in 1..last - 1 : script'[k] = script[k]
  <2>1. script \in Seq(Message)
    BY DEF TypeOK
  <2>2. QED BY <1>1, <2>1
<1>11. PICK next \in [parsed + 1..last + 1 -> 0..cc] :
          next = [k \in parsed + 1..last + 1 |-> IF k <= last THEN start[k] ELSE cc]
  <2>1. ASSUME NEW k \in parsed + 1..last + 1
        PROVE  (IF k <= last THEN start[k] ELSE cc) \in 0..cc
    <3>1. CASE k <= last
      <4>1. k \in parsed + 1..last
        BY <1>1, <3>1
      <4>2. start[k] \in 0..c
        BY <1>2, <4>1
      <4>3. QED BY <1>1, <3>1, <4>2
    <3>2. CASE ~ k <= last
      BY <1>1, <3>2
    <3>3. QED BY <3>1, <3>2
  <2>2. QED BY <2>1
<1>12. ASSUME NEW k \in parsed + 1..last
       PROVE  next[k] = start[k] /\ start[k] \in 0..c
  <2>1. k \in parsed + 1..last + 1 /\ k <= last
    BY <1>1
  <2>2. QED BY <1>2, <1>11, <2>1
<1>13. next[last + 1] = cc
  <2>1. last + 1 \in parsed + 1..last + 1 /\ ~ last + 1 <= last
    BY <1>1
  <2>2. QED BY <1>11, <2>1
<1>14. next[parsed + 1] = 0
  <2>1. parsed + 1 \in parsed + 1..last
    BY <1>1
  <2>2. QED BY <1>4, <1>12, <2>1
<1>15. ASSUME NEW j \in parsed + 1..last + 1, NEW k \in parsed + 1..last + 1, j <= k
       PROVE  next[j] <= next[k]
  <2>1. CASE k <= last
    <3>1. j \in parsed + 1..last /\ k \in parsed + 1..last
      BY <1>1, <1>15, <2>1
    <3>2. start[j] <= start[k]
      BY <1>5, <1>15, <3>1
    <3>3. QED BY <1>12, <3>1, <3>2
  <2>2. CASE k = last + 1
    <3>1. next[j] \in 0..cc
      BY <1>11
    <3>2. QED BY <1>1, <1>13, <2>2, <3>1
  <2>3. k <= last \/ k = last + 1
    BY <1>1
  <2>4. QED BY <2>1, <2>2, <2>3
<1>16. ASSUME NEW k \in parsed + 1..last
       PROVE  /\ next[k + 1] = next[k] + Len(script'[k].text)
              /\ \A i \in 1..Len(script'[k].text) : Coming'[next[k] + i] = script'[k].text[i]
  <2>1. CASE k = last
    <3>1. script'[k] = m /\ next[k + 1] = cc /\ next[k] = c
      BY <1>4, <1>10, <1>12, <1>13, <2>1
    <3>2. QED BY <1>1, <1>9, <3>1
  <2>2. CASE k # last
    <3>1. k \in parsed + 1..last - 1 /\ k + 1 \in parsed + 1..last /\ k \in 1..last - 1
      BY <1>1, <2>2
    <3>2. script'[k] = script[k] /\ next[k] = start[k] /\ next[k + 1] = start[k + 1]
      BY <1>10, <1>12, <3>1
    <3>3. PICK t \in Nat : t = Len(script[k].text)
      BY <1>8, <3>1
    <3>4. start[k + 1] = start[k] + t
      BY <1>6, <3>1, <3>3
    <3>5. start[k] \in 0..c /\ start[k + 1] \in 0..c
      BY <1>12, <3>1
    <3>6. ASSUME NEW i \in 1..t
          PROVE  Coming'[start[k] + i] = script[k].text[i]
      <4>1. start[k] + i \in 1..c
        <5>1. PICK x \in 0..c : x = start[k]
          BY <3>5
        <5>2. x + t \in 0..c /\ c \in Int
          BY <1>1, <3>4, <3>5, <5>1
        <5>3. x + i \in 1..c
          BY <5>2
        <5>4. QED BY <5>1, <5>3
      <4>2. Coming[start[k] + i] = script[k].text[i]
        BY <1>7, <3>1, <3>3
      <4>3. QED BY <1>9, <4>1, <4>2
    <3>7. QED BY <3>2, <3>3, <3>4, <3>6
  <2>3. QED BY <2>1, <2>2
<1>17. parsed' + 1 = parsed + 1 /\ Len(script') + 1 = last + 1 /\ Len(script') = last
       /\ Len(Coming') = cc
  BY <1>1, <1>10
<1>18. Aligned(next)'
  <2>1. next[parsed' + 1] = 0 /\ next[Len(script') + 1] = Len(Coming')
    BY <1>13, <1>14, <1>17
  <2>2. \A j, k \in parsed' + 1..Len(script') + 1 : j <= k => next[j] <= next[k]
    BY <1>15, <1>17
  <2>3. \A k \in parsed' + 1..Len(script') :
          /\ next[k + 1] = next[k] + Len(script'[k].text)
          /\ \A i \in 1..Len(script'[k].text) : Coming'[next[k] + i] = script'[k].text[i]
    BY <1>16, <1>17
  <2>4. QED BY <2>1, <2>2, <2>3 DEF Aligned
<1>19. next \in [parsed' + 1..Len(script') + 1 -> 0..Len(Coming')]
  BY <1>11, <1>17
<1>20. QED BY <1>18, <1>19 DEF TextsInOrder

\* A text changes place.
LEMMA TextsStay ==
  ASSUME TextsInOrder, UNCHANGED <<script, parsed>>, Coming' = Coming
  PROVE  TextsInOrder'
<1>1. PICK start \in [parsed + 1..Len(script) + 1 -> 0..Len(Coming)] : Aligned(start)
  BY DEF TextsInOrder
<1>2. Aligned(start)'
  BY <1>1 DEF Aligned
<1>3. start \in [parsed' + 1..Len(script') + 1 -> 0..Len(Coming')]
  OBVIOUS
<1>4. QED BY <1>2, <1>3 DEF TextsInOrder

\* What the parser delivers is the message the editor sent, text included.
LEMMA DeliversMessage ==
  ASSUME TypeOK, parsed < Len(script), Deliver(script[Current].text)
  PROVE  /\ parsed' = parsed + 1
         /\ \/ script[Current].broken /\ taken' = taken
            \/ taken' = Append(taken, script[Current])
<1> DEFINE m == script[Current]
           request == [kind |-> m.kind, broken |-> m.broken, text |-> m.text]
<1>1. request = m
  <2>1. Current \in 1..Len(script)
    BY MessageTexts DEF Current
  <2>2. m \in Message
    BY <2>1, MessageTexts
  <2>3. QED BY <2>2 DEF Message
<1>2. parsed' = parsed + 1
  BY DEF Deliver, Current
<1>3. IF m.broken THEN taken' = taken ELSE taken' = Append(taken, request)
  BY DEF Deliver
<1> HIDE DEF m, request
<1>4. \/ m.broken /\ taken' = taken
      \/ taken' = Append(taken, m)
  BY <1>1, <1>3
<1>5. QED BY <1>2, <1>4 DEF m

\* The next text on the way is that of the next message.
LEMMA FirstText ==
  ASSUME TypeOK, TextsInOrder, parsed < Len(script)
  PROVE  \A i \in 1..Len(script[Current].text) :
           i <= Len(textBuffer) => textBuffer[i] = script[Current].text[i]
<1>1. PICK start \in [parsed + 1..Len(script) + 1 -> 0..Len(Coming)] : Aligned(start)
  BY DEF TextsInOrder
<1>2. Current \in parsed + 1..Len(script) /\ start[Current] = 0
  BY <1>1, MessageTexts DEF Aligned, Current
<1>3. ASSUME NEW i \in 1..Len(script[Current].text), i <= Len(textBuffer)
      PROVE  textBuffer[i] = script[Current].text[i]
  <2>1. Coming[start[Current] + i] = script[Current].text[i]
    BY <1>1, <1>2 DEF Aligned
  <2>2. start[Current] + i = i /\ i \in 1..Len(textBuffer)
    <3>1. textBuffer \in Seq(Cell) /\ i \in Int
      BY DEF TypeOK
    <3>2. QED BY <1>2, <1>3, <3>1
  <2>3. Coming[i] = textBuffer[i]
    <3>1. textBuffer \in Seq(Cell) /\ altFifo \in Seq(Cell) /\ unwritten \in Seq(Cell)
      BY DEF TypeOK
    <3>2. /\ Len(Coming) = Len(textBuffer) + Len(altFifo) + Len(unwritten)
          /\ \A j \in 1..Len(Coming) : j <= Len(textBuffer) => Coming[j] = textBuffer[j]
      BY <3>1, Pieces DEF Coming
    <3>3. Len(textBuffer) \in Nat /\ Len(altFifo) \in Nat /\ Len(unwritten) \in Nat
      BY <3>1
    <3>4. i \in 1..Len(Coming) /\ i <= Len(textBuffer)
      BY <2>2, <3>2, <3>3
    <3>5. QED BY <3>2, <3>4
  <2>4. QED BY <2>1, <2>2, <2>3
<1>4. QED BY <1>3

\* The abstract channel gives the event loop its next message, or refuses it.
Forwards ==
  /\ script' = script /\ parsed < Len(script) /\ parsed' = parsed + 1
  /\ \/ script[Current].broken /\ taken' = taken
     \/ taken' = Append(taken, script[Current])

LEMMA ReadTokenForwards ==
  ASSUME Inv, TextsEnd, TextsInOrder, ReadToken
  PROVE  /\ TextsInOrder'
         /\ Forwards \/ UNCHANGED <<script, parsed, taken>>
<1>1. /\ UNCHANGED <<script, unwritten, altFifo, textBuffer>>
      /\ parser = "token" /\ cmdBuffer # <<>>
      /\ IF script[Head(cmdBuffer)].kind = "text"
         THEN UNCHANGED <<parsed, taken>>
         ELSE Deliver(<<>>)
  BY DEF ReadToken, ParserUnchanged, editorVars
<1>2. Coming' = Coming
  BY <1>1 DEF Coming
<1>3. Head(cmdBuffer) = Current /\ parsed < Len(script)
  <2>1. /\ cmdBuffer \in Seq(Nat) /\ parsed \in 0..Len(script) /\ fifo \in Seq(Nat)
        /\ Begun + Len(cmdBuffer) + Len(fifo) = Len(script) /\ Begun = parsed
        /\ \A i \in 1..Len(cmdBuffer) : cmdBuffer[i] = Begun + i
    BY <1>1 DEF Inv, TypeOK, Ordered, Begun, TextPlaces
  <2>2. 1 \in 1..Len(cmdBuffer) /\ Head(cmdBuffer) = cmdBuffer[1] /\ Len(fifo) \in Nat
        /\ Len(cmdBuffer) \in Nat /\ Len(cmdBuffer) >= 1
    BY <1>1, <2>1
  <2>3. cmdBuffer[1] = parsed + 1
    BY <2>1, <2>2
  <2>4. parsed < Len(script)
    BY <2>1, <2>2
  <2>5. QED BY <2>2, <2>3, <2>4 DEF Current
<1>4. CASE script[Current].kind = "text"
  <2>1. UNCHANGED <<script, parsed, taken>>
    BY <1>1, <1>3, <1>4
  <2>2. QED BY <1>2, <2>1, TextsStay
<1>5. CASE script[Current].kind # "text"
  <2>1. script[Current].text = <<>>
    <3>1. Current \in 1..Len(script)
      BY <1>3, MessageTexts DEF Inv, Current
    <3>2. QED BY <1>5, <3>1 DEF TextsEnd
  <2>2. /\ parsed' = parsed + 1
        /\ \/ script[Current].broken /\ taken' = taken
           \/ taken' = Append(taken, script[Current])
    BY <1>1, <1>3, <1>5, <2>1, DeliversMessage DEF Inv
  <2>3. Forwards
    BY <1>1, <1>3, <2>2 DEF Forwards
  <2>4. Len(script[parsed + 1].text) = 0
    BY <2>1 DEF Current
  <2>5. /\ Len(Coming') = Len(Coming) - Len(script[parsed + 1].text)
        /\ \A i \in 1..Len(Coming') : Coming'[i] = Coming[i + Len(script[parsed + 1].text)]
    <3>1. Len(Coming) \in Nat
      BY MessageTexts DEF Inv
    <3>2. QED BY <1>2, <2>4, <3>1
  <2>6. TextsInOrder'
    BY <1>1, <1>3, <2>2, <2>5, TextTaken DEF Inv
  <2>7. QED BY <2>3, <2>6
<1>6. QED BY <1>4, <1>5

LEMMA ReadBufferTextForwards ==
  ASSUME Inv, TextsEnd, TextsInOrder, ReadBufferText
  PROVE  TextsInOrder' /\ Forwards
<1> DEFINE text == script[Current].text
           n == Len(text)
           cut == CutAt(textBuffer, Lines)
<1>1. /\ UNCHANGED <<script, unwritten, altFifo>>
      /\ parser = "text" /\ Newlines(textBuffer) >= Lines
      /\ Deliver(SubSeq(textBuffer, 1, cut))
      /\ textBuffer' = SubSeq(textBuffer, cut + 1, Len(textBuffer))
  BY DEF ReadBufferText, ParserUnchanged, editorVars
<1>2. /\ parsed < Len(script) /\ script[Current].kind = "text" /\ Current \in 1..Len(script)
      /\ text \in Seq(Cell)
  <2>1. parsed < Len(script) /\ script[Current].kind = "text"
    BY <1>1 DEF Inv, TypeOK
  <2>2. Current \in 1..Len(script)
    BY <2>1, MessageTexts DEF Inv, Current
  <2>3. QED BY <2>1, <2>2, MessageTexts DEF Inv
<1>3. /\ Len(text) > 0 /\ text[Len(text)].newline
      /\ Newlines(text) \in Nat \ {0} /\ Lines = Newlines(text)
  BY <1>2 DEF TextsEnd, Inv, TextsHaveLines, Lines
<1>4. /\ textBuffer \in Seq(Cell) /\ altFifo \in Seq(Cell) /\ unwritten \in Seq(Cell)
      /\ TypeOK
  BY DEF Inv, TypeOK
<1>5. cut = n /\ n <= Len(textBuffer) /\ SubSeq(textBuffer, 1, n) = text
  <2> HIDE DEF text
  <2>1. \A i \in 1..Len(text) : i <= Len(textBuffer) => textBuffer[i] = text[i]
    BY <1>2, <1>4, FirstText DEF text
  <2>2. QED BY <1>1, <1>2, <1>3, <1>4, <2>1, CutIsEnd
<1> HIDE DEF cut
<1>6. /\ parsed' = parsed + 1
      /\ \/ script[Current].broken /\ taken' = taken
         \/ taken' = Append(taken, script[Current])
  BY <1>1, <1>2, <1>4, <1>5, DeliversMessage
<1>7. Forwards
  BY <1>1, <1>2, <1>6 DEF Forwards
<1>8. PICK rest \in Seq(Cell) : rest = SubSeq(textBuffer, n + 1, Len(textBuffer))
  <2>1. n \in Nat
    BY <1>2
  <2>2. SubSeq(textBuffer, n + 1, Len(textBuffer)) \in Seq(Cell)
    BY <1>4, <1>5, <2>1
  <2>3. QED BY <2>2
<1>9. /\ Len(rest) = Len(textBuffer) - n /\ \A i \in 1..Len(rest) : rest[i] = textBuffer[i + n]
      /\ n \in Nat /\ textBuffer' = rest
  <2>1. n \in Nat /\ n <= Len(textBuffer) /\ textBuffer' = rest
    BY <1>1, <1>2, <1>5, <1>8
  <2> HIDE DEF n, text
  <2>2. Len(rest) = Len(textBuffer) - n
    BY <1>4, <1>8, <2>1
  <2>3. \A i \in 1..Len(rest) : rest[i] = textBuffer[i + n]
    BY <1>4, <1>8, <2>1, <2>2
  <2>4. QED BY <2>1, <2>2, <2>3
<1> HIDE DEF n, text
<1>10. /\ Len(Coming) = Len(textBuffer) + Len(altFifo) + Len(unwritten)
       /\ \A i \in 1..Len(Coming) :
            Coming[i] = IF i <= Len(textBuffer) THEN textBuffer[i]
                        ELSE IF i <= Len(textBuffer) + Len(altFifo) THEN altFifo[i - Len(textBuffer)]
                        ELSE unwritten[i - Len(textBuffer) - Len(altFifo)]
  BY <1>4, Pieces DEF Coming
<1>11. /\ Len(Coming') = Len(rest) + Len(altFifo) + Len(unwritten)
       /\ \A i \in 1..Len(Coming') :
            Coming'[i] = IF i <= Len(rest) THEN rest[i]
                         ELSE IF i <= Len(rest) + Len(altFifo) THEN altFifo[i - Len(rest)]
                         ELSE unwritten[i - Len(rest) - Len(altFifo)]
  <2>1. Coming' = rest \o altFifo \o unwritten
    BY <1>1, <1>9 DEF Coming
  <2>2. QED BY <1>4, <2>1, Pieces
<1>12. PICK a \in Nat, b \in Nat, c \in Nat :
         a = Len(textBuffer) /\ b = Len(altFifo) /\ c = Len(unwritten) /\ n <= a /\ Len(rest) = a - n
  BY <1>4, <1>5, <1>9
<1>13. Len(Coming') = Len(Coming) - n
  BY <1>9, <1>10, <1>11, <1>12
<1>14. ASSUME NEW i \in 1..Len(Coming')
       PROVE  Coming'[i] = Coming[i + n]
  <2>1. PICK j \in Int : j = i + n
    BY <1>9, <1>11, <1>12
  <2>2. i \in 1..a - n + b + c /\ j \in 1..a + b + c /\ a + b + c = Len(Coming)
    BY <1>9, <1>10, <1>11, <1>12, <2>1
  <2>3. Coming[j] = IF j <= a THEN textBuffer[j]
                    ELSE IF j <= a + b THEN altFifo[j - a] ELSE unwritten[j - a - b]
    BY <1>10, <1>12, <2>2
  <2>4. Coming'[i] = IF i <= a - n THEN rest[i]
                     ELSE IF i <= a - n + b THEN altFifo[i - (a - n)]
                     ELSE unwritten[i - (a - n) - b]
    BY <1>11, <1>12
  <2>5. CASE i <= a - n
    <3>1. i \in 1..Len(rest) /\ j <= a
      BY <1>9, <1>12, <2>1, <2>2, <2>5
    <3>2. rest[i] = textBuffer[j]
      BY <1>9, <2>1, <3>1
    <3>3. QED BY <2>1, <2>3, <2>4, <2>5, <3>1, <3>2
  <2>6. CASE i > a - n /\ i <= a - n + b
    <3>1. ~ i <= a - n /\ ~ j <= a /\ j <= a + b /\ i - (a - n) = j - a
      BY <1>9, <1>12, <2>1, <2>2, <2>6
    <3>2. QED BY <2>1, <2>3, <2>4, <2>6, <3>1
  <2>7. CASE i > a - n + b
    <3>1. /\ ~ i <= a - n /\ ~ j <= a /\ ~ j <= a + b /\ ~ i <= a - n + b
          /\ i - (a - n) - b = j - a - b
      BY <1>9, <1>12, <2>1, <2>2, <2>7
    <3>2. QED BY <2>1, <2>3, <2>4, <3>1
  <2>8. QED BY <1>9, <1>12, <2>2, <2>5, <2>6, <2>7
<1>15. n = Len(script[parsed + 1].text)
  BY DEF n, text, Current
<1>16. TextsInOrder'
  BY <1>1, <1>2, <1>4, <1>6, <1>13, <1>14, <1>15, TextTaken
<1>17. QED BY <1>7, <1>16

\* The messages that are not parsed yet are a queue: a new one comes last, and the
\* first is the next to be parsed.
LEMMA Queue ==
  ASSUME NEW s \in Seq(Message), NEW p \in 0..Len(s), NEW m \in Message
  PROVE  /\ SubSeq(Append(s, m), p + 1, Len(Append(s, m))) = Append(SubSeq(s, p + 1, Len(s)), m)
         /\ p < Len(s) =>
              /\ SubSeq(s, p + 1, Len(s)) # <<>>
              /\ Head(SubSeq(s, p + 1, Len(s))) = s[p + 1]
              /\ Tail(SubSeq(s, p + 1, Len(s))) = SubSeq(s, p + 2, Len(s))
<1>1. SubSeq(s, p + 1, Len(s)) \in Seq(Message) /\ Append(s, m) \in Seq(Message)
  OBVIOUS
<1>2. PICK q \in Seq(Message), t \in Seq(Message) :
        q = SubSeq(s, p + 1, Len(s)) /\ t = Append(s, m)
  BY <1>1
<1>3. Len(q) = Len(s) - p /\ \A i \in 1..Len(q) : q[i] = s[p + i]
  BY <1>2
<1>4. /\ Len(t) = Len(s) + 1 /\ t[Len(s) + 1] = m /\ \A i \in 1..Len(s) : t[i] = s[i]
      /\ Len(s) \in Nat
  BY <1>2
<1>5. SubSeq(t, p + 1, Len(t)) = Append(q, m)
  <2>1. SubSeq(t, p + 1, Len(t)) \in Seq(Message) /\ Append(q, m) \in Seq(Message)
    BY <1>4
  <2>2. PICK u \in Seq(Message), v \in Seq(Message) :
          u = SubSeq(t, p + 1, Len(t)) /\ v = Append(q, m)
    BY <2>1
  <2>3. Len(u) = Len(t) - p /\ \A i \in 1..Len(u) : u[i] = t[p + i]
    BY <1>4, <2>2
  <2>4. Len(v) = Len(q) + 1 /\ \A i \in 1..Len(v) : v[i] = IF i <= Len(q) THEN q[i] ELSE m
    BY <2>2
  <2>5. Len(u) = Len(v)
    BY <1>3, <1>4, <2>3, <2>4
  <2>6. ASSUME NEW i \in 1..Len(u) PROVE u[i] = v[i]
    <3>1. CASE i <= Len(q)
      <4>1. i \in 1..Len(q) /\ p + i \in 1..Len(s)
        BY <1>3, <1>4, <2>3, <3>1
      <4>2. u[i] = t[p + i] /\ v[i] = q[i] /\ q[i] = s[p + i] /\ t[p + i] = s[p + i]
        BY <1>3, <1>4, <2>3, <2>4, <2>5, <3>1, <4>1
      <4>3. QED BY <4>2
    <3>2. CASE ~ i <= Len(q)
      <4>1. p + i = Len(s) + 1
        <5>1. Len(u) = Len(q) + 1 /\ Len(q) \in Nat /\ Len(q) = Len(s) - p
          BY <1>3, <1>4, <2>3
        <5>2. i = Len(q) + 1
          BY <3>2, <5>1
        <5>3. QED BY <1>4, <5>1, <5>2
      <4>2. u[i] = t[p + i] /\ v[i] = m
        BY <2>3, <2>4, <2>5, <3>2
      <4>3. QED BY <1>4, <4>1, <4>2
    <3>3. QED BY <3>1, <3>2
  <2>7. u = v
    <3>1. u \in Seq(Message) /\ v \in Seq(Message)
      OBVIOUS
    <3>2. QED BY <2>5, <2>6, <3>1, SameSequence
  <2>8. QED BY <2>2, <2>7
<1>6. ASSUME p < Len(s)
      PROVE  q # <<>> /\ Head(q) = s[p + 1] /\ Tail(q) = SubSeq(s, p + 2, Len(s))
  <2>1. Len(q) >= 1
    BY <1>3, <1>4, <1>6
  <2>2. q # <<>> /\ Head(q) = q[1] /\ q[1] = s[p + 1]
    BY <1>3, <2>1
  <2>3. Tail(q) \in Seq(Message) /\ SubSeq(s, p + 2, Len(s)) \in Seq(Message)
    BY <1>4, <1>6, <2>2
  <2>4. PICK u \in Seq(Message), v \in Seq(Message) :
          u = Tail(q) /\ v = SubSeq(s, p + 2, Len(s))
    BY <2>3
  <2>5. Len(u) = Len(q) - 1 /\ \A i \in 1..Len(u) : u[i] = q[i + 1]
    BY <2>2, <2>4
  <2>6. Len(v) = Len(s) - (p + 1) /\ \A i \in 1..Len(v) : v[i] = s[p + 1 + i]
    BY <1>4, <1>6, <2>4
  <2>7. Len(u) = Len(v)
    BY <1>3, <1>4, <2>5, <2>6
  <2>8. ASSUME NEW i \in 1..Len(u) PROVE u[i] = v[i]
    <3>1. i + 1 \in 1..Len(q) /\ p + (i + 1) = p + 1 + i
      BY <1>3, <1>4, <2>5
    <3>2. u[i] = q[i + 1] /\ q[i + 1] = s[p + (i + 1)] /\ v[i] = s[p + 1 + i]
      BY <1>3, <2>5, <2>6, <2>7, <3>1
    <3>3. QED BY <3>1, <3>2
  <2>9. u = v
    <3>1. u \in Seq(Message) /\ v \in Seq(Message)
      OBVIOUS
    <3>2. QED BY <2>7, <2>8, <3>1, SameSequence
  <2>10. QED BY <2>2, <2>4, <2>9
<1>7. QED BY <1>2, <1>5, <1>6

\* What the editor writes ends with a newline, if it is anything.
LEMMA TextOfEnds ==
  ASSUME NEW k \in Nat, NEW lines \in Nat
  PROVE  LET text == TextOf(k, lines) IN
         IF lines > 0 THEN Len(text) > 0 /\ text[Len(text)].newline ELSE text = <<>>
<1> DEFINE text == TextOf(k, lines)
<1>1. text = [i \in 1..2 * lines |-> [msg |-> k, newline |-> i % 2 = 0]] /\ text \in Seq(Cell)
  BY TextOfType DEF TextOf
<1>2. DOMAIN text = 1..2 * lines /\ 2 * lines \in Nat
  BY <1>1
<1>3. Len(text) = 2 * lines
  <2> HIDE DEF text
  <2>1. DOMAIN text = 1..Len(text) /\ Len(text) \in Nat
    BY <1>1
  <2>2. QED BY <1>2, <2>1
<1>4. CASE lines > 0
  <2>1. 2 * lines \in 1..2 * lines
    BY <1>4
  <2>2. text[2 * lines].newline = (((2 * lines) % 2) = 0)
    BY <1>1, <2>1
  <2>3. (2 * lines) % 2 = 0
    OBVIOUS
  <2> HIDE DEF text
  <2>4. text[2 * lines].newline
    BY <2>2, <2>3
  <2>5. Len(text) > 0 /\ text[Len(text)].newline
    BY <1>3, <1>4, <2>4
  <2>6. QED BY <1>4, <2>5 DEF text
<1>5. CASE ~ lines > 0
  <2>1. Len(text) = 0
    BY <1>3, <1>5
  <2> HIDE DEF text
  <2>2. QED BY <1>1, <1>5, <2>1 DEF text
<1>6. QED BY <1>4, <1>5

LEMMA SendQueues ==
  ASSUME Inv, TextsEnd, TextsInOrder,
         NEW kind \in Kinds, NEW broken \in BOOLEAN, NEW lines \in 0..MaxLines,
         SendMessage(kind, broken, lines)
  PROVE  /\ TextsEnd' /\ TextsInOrder' /\ UNCHANGED <<parsed, taken>>
         /\ \E m \in Message \cap [kind : Kinds, broken : BOOLEAN,
                        text : {<<>>} \cup {TextOf(k, n) : k \in 1..MaxMessages, n \in 1..MaxLines}] :
              script' = Append(script, m)
<1>1. PICK k \in Nat : k = Len(script) + 1
  BY MessageTexts DEF Inv
<1>2. lines \in Nat /\ MaxMessages \in Nat /\ MaxLines \in Nat
  BY FifoPipelineAssumption
<1>3. PICK text \in Seq(Cell) : text = TextOf(k, lines)
  BY <1>2, TextOfType
<1>4. PICK m \in Message : m = [kind |-> kind, broken |-> broken, text |-> text]
  BY DEF Message
<1>5. /\ script' = Append(script, m) /\ unwritten = <<>> /\ unwritten' = text
      /\ UNCHANGED <<altFifo, textBuffer, parsed, taken>>
      /\ Len(script) < MaxMessages
      /\ kind = "text" <=> lines > 0
  BY <1>1, <1>3, <1>4 DEF SendMessage, parserVars
<1>6. IF lines > 0 THEN Len(text) > 0 /\ text[Len(text)].newline ELSE text = <<>>
  BY <1>2, <1>3, TextOfEnds
<1>7. script \in Seq(Message) /\ Len(script) \in Nat /\ textBuffer \in Seq(Cell) /\ altFifo \in Seq(Cell)
  BY DEF Inv, TypeOK
<1>8. /\ Len(script') = Len(script) + 1 /\ script'[Len(script) + 1] = m
      /\ \A i \in 1..Len(script) : script'[i] = script[i]
  BY <1>5, <1>7
<1>9. TextsEnd'
  <2>1. ASSUME NEW i \in 1..Len(script')
        PROVE  IF script'[i].kind = "text"
               THEN Len(script'[i].text) > 0 /\ script'[i].text[Len(script'[i].text)].newline
               ELSE script'[i].text = <<>>
    <3>1. CASE i = Len(script) + 1
      <4>1. script'[i].kind = kind /\ script'[i].text = text
        BY <1>4, <1>8, <3>1
      <4>2. QED BY <1>5, <1>6, <4>1
    <3>2. CASE i # Len(script) + 1
      <4>1. i \in 1..Len(script) /\ script'[i] = script[i]
        BY <1>7, <1>8, <3>2
      <4>2. QED BY <4>1 DEF TextsEnd
    <3>3. QED BY <3>1, <3>2
  <2>2. QED BY <2>1 DEF TextsEnd
<1>10. /\ Len(Coming') = Len(Coming) + Len(m.text)
       /\ \A i \in 1..Len(Coming) : Coming'[i] = Coming[i]
       /\ \A i \in 1..Len(m.text) : Coming'[Len(Coming) + i] = m.text[i]
  <2>1. textBuffer \o altFifo \in Seq(Cell) /\ m.text = text
    BY <1>4, <1>7
  <2>2. PICK s \in Seq(Cell) : s = textBuffer \o altFifo
    BY <2>1
  <2>3. Coming = s
    BY <1>5, <2>2 DEF Coming
  <2>4. Coming' = s \o text
    BY <1>5, <2>2 DEF Coming
  <2>5. QED BY <2>1, <2>3, <2>4
<1>11. TextsInOrder'
  BY <1>5, <1>10, TextAdded DEF Inv
<1>12. m.text \in {<<>>} \cup {TextOf(j, n) : j \in 1..MaxMessages, n \in 1..MaxLines}
  <2>1. CASE lines > 0
    <3>1. k \in 1..MaxMessages /\ lines \in 1..MaxLines
      BY <1>1, <1>2, <1>5, <1>7, <2>1
    <3>2. QED BY <1>3, <1>4, <3>1
  <2>2. CASE ~ lines > 0
    BY <1>4, <1>6, <2>2
  <2>3. QED BY <2>1, <2>2
<1>13. m \in [kind : Kinds, broken : BOOLEAN,
              text : {<<>>} \cup {TextOf(j, n) : j \in 1..MaxMessages, n \in 1..MaxLines}]
  <2> DEFINE texts == {<<>>} \cup {TextOf(j, n) : j \in 1..MaxMessages, n \in 1..MaxLines}
  <2>1. m.text \in texts
    BY <1>12
  <2> HIDE DEF texts
  <2>2. m.text \in texts
    BY <2>1
  <2>3. m \in [kind : Kinds, broken : BOOLEAN, text : texts]
    BY <1>4, <2>2
  <2>4. QED BY <2>3 DEF texts
<1>14. QED BY <1>5, <1>9, <1>11, <1>13

\* Everything else moves a text, or nothing.
LEMMA OthersKeep ==
  ASSUME Inv, TextsInOrder,
         \/ WriteText \/ Reader \/ AtEnd \/ Wait \/ WakeReader \/ ParserDone
         \/ Loop \/ ForceExit \/ UNCHANGED vars
  PROVE  TextsInOrder' /\ UNCHANGED <<script, parsed, taken>>
<1>1. textBuffer \in Seq(Cell) /\ altFifo \in Seq(Cell) /\ unwritten \in Seq(Cell)
  BY DEF Inv, TypeOK
<1>2. CASE WriteText
  <2>1. /\ unwritten # <<>> /\ altFifo' = Append(altFifo, Head(unwritten))
        /\ unwritten' = Tail(unwritten) /\ textBuffer' = textBuffer
        /\ UNCHANGED <<script, parsed, taken>>
    BY <1>2 DEF WriteText, parserVars
  <2>2. Coming' = Coming
    <3>1. textBuffer \o Append(altFifo, Head(unwritten)) \o Tail(unwritten)
            = textBuffer \o altFifo \o unwritten
      BY <1>1, <2>1, PiecesMove
    <3>2. QED BY <2>1, <3>1 DEF Coming
  <2>3. QED BY <2>1, <2>2, TextsStay
<1>3. CASE ReadText
  <2>1. /\ textBuffer' = textBuffer \o altFifo /\ altFifo' = <<>>
        /\ UNCHANGED <<unwritten, script, parsed, taken>>
    BY <1>3 DEF ReadText, ReaderUnchanged, editorVars
  <2>2. Coming' = Coming
    <3>1. (textBuffer \o altFifo) \o <<>> \o unwritten = textBuffer \o altFifo \o unwritten
      BY <1>1, PiecesMove
    <3>2. QED BY <2>1, <3>1 DEF Coming
  <2>3. QED BY <2>1, <2>2, TextsStay
<1>4. CASE \/ Poll \/ ReadCommands \/ NotifyCommand \/ NotifyText
           \/ AtEnd \/ Wait \/ WakeReader \/ ParserDone \/ Loop \/ ForceExit \/ UNCHANGED vars
  <2>1. UNCHANGED <<script, parsed, taken, textBuffer, altFifo, unwritten>>
    BY <1>4 DEF Poll, ReadCommands, NotifyCommand, NotifyText, AtEnd, Wait, WakeReader, ParserDone,
                Loop, ReceiveRequest, NotifyBoth, JoinParser, JoinReader, ForceExit, vars,
                ReaderUnchanged, ParserUnchanged, LoopUnchanged, editorVars, parserVars
  <2>2. Coming' = Coming
    BY <2>1 DEF Coming
  <2>3. QED BY <2>1, <2>2, TextsStay
<1>5. QED BY <1>2, <1>3, <1>4 DEF Reader

TextsInv == Inv /\ TextsEnd /\ TextsInOrder

LEMMA TextsInit == Init => TextsInv
<1> SUFFICES ASSUME Init PROVE TextsInv
  OBVIOUS
<1>1. Inv
  BY InitInv
<1>2. script = <<>> /\ parsed = 0 /\ textBuffer = <<>> /\ altFifo = <<>> /\ unwritten = <<>>
  BY DEF Init
<1>3. Len(script) = 0 /\ Len(Coming) = 0
  <2>1. Len(Coming) = Len(textBuffer) + Len(altFifo) + Len(unwritten)
    BY <1>1, Pieces DEF Coming, Inv, TypeOK
  <2>2. QED BY <1>2, <2>1
<1>4. TextsEnd
  BY <1>3 DEF TextsEnd
<1>5. TextsInOrder
  <2>0. [k \in 1..1 |-> 0] \in [1..1 -> 0..0]
    OBVIOUS
  <2>1. PICK start \in [1..1 -> 0..0] : start = [k \in 1..1 |-> 0]
    BY <2>0
  <2>2. start[1] = 0 /\ \A k \in 1..1 : k = 1
    BY <2>1
  <2>3. Aligned(start)
    BY <1>2, <1>3, <2>2 DEF Aligned
  <2>4. QED BY <1>2, <1>3, <2>3 DEF TextsInOrder
<1>6. QED BY <1>1, <1>4, <1>5 DEF TextsInv

\* Every step of the pipeline is one of the channel, or none.
LEMMA StepImplements ==
  ASSUME TextsInv, [Next]_vars
  PROVE  TextsInv' /\ [Channel!Next]_(Channel!vars)
<1> USE DEF TextsInv
<1> DEFINE Content == [kind : Kinds, broken : BOOLEAN,
                       text : {<<>>} \cup {TextOf(k, n) : k \in 1..MaxMessages, n \in 1..MaxLines}]
           queue == SubSeq(script, parsed + 1, Len(script))
<1>1. Inv'
  BY StepInv
<1>2. script \in Seq(Message) /\ parsed \in 0..Len(script)
  BY DEF Inv, TypeOK
<1>3. ASSUME UNCHANGED <<script, parsed, taken>>, TextsInOrder'
      PROVE  TextsInv' /\ UNCHANGED Channel!vars
  <2>1. TextsEnd'
    BY <1>3 DEF TextsEnd
  <2>2. QED BY <1>1, <1>3, <2>1 DEF Channel!vars
<1>4. ASSUME Forwards, TextsInOrder'
      PROVE  TextsInv' /\ Channel!Next
  <2>1. TextsEnd'
    BY <1>4 DEF TextsEnd, Forwards
  <2>2. PICK m \in Message : m = script[Current]
    BY <1>2, <1>4 DEF Forwards, Current
  <2>3. queue # <<>> /\ Head(queue) = script[Current] /\ queue' = Tail(queue)
    <3>1. parsed' = parsed + 1 /\ script' = script /\ parsed < Len(script)
      BY <1>4 DEF Forwards
    <3>2. queue' = SubSeq(script, parsed + 2, Len(script))
      BY <1>2, <3>1
    <3>3. QED BY <1>2, <2>2, <3>1, <3>2, Queue DEF Current
  <2> HIDE DEF queue
  <2>4. Channel!Take \/ Channel!Refuse
    <3>1. CASE script[Current].broken /\ taken' = taken
      BY <2>3, <3>1 DEF Channel!Refuse, queue
    <3>2. CASE taken' = Append(taken, script[Current])
      BY <2>3, <3>2 DEF Channel!Take, queue
    <3>3. QED BY <1>4, <3>1, <3>2 DEF Forwards
  <2>5. QED BY <1>1, <1>4, <2>1, <2>4 DEF Channel!Next
<1>5. ASSUME NEW kind \in Kinds, NEW broken \in BOOLEAN, NEW lines \in 0..MaxLines,
             SendMessage(kind, broken, lines)
      PROVE  TextsInv' /\ Channel!Next
  <2>1. /\ TextsEnd' /\ TextsInOrder' /\ UNCHANGED <<parsed, taken>>
        /\ \E m \in Message \cap Content : script' = Append(script, m)
    BY <1>5, SendQueues
  <2>2. PICK m \in Message : m \in Content /\ script' = Append(script, m)
    BY <2>1
  <2>3. queue' = Append(queue, m)
    <3>1. SubSeq(Append(script, m), parsed + 1, Len(Append(script, m)))
            = Append(SubSeq(script, parsed + 1, Len(script)), m)
      BY <1>2, Queue
    <3>2. QED BY <2>1, <2>2, <3>1
  <2> HIDE DEF queue, Content
  <2>4. Channel!Send(m)
    BY <2>1, <2>3 DEF Channel!Send, queue
  <2>5. QED BY <1>1, <2>1, <2>2, <2>4 DEF Channel!Next, Content
<1>6. CASE Editor
  <2>1. CASE WriteText
    BY <1>3, <2>1, OthersKeep
  <2>2. QED BY <1>5, <1>6, <2>1 DEF Editor
<1>7. CASE Parser
  <2>1. CASE ReadToken
    BY <1>3, <1>4, <2>1, ReadTokenForwards
  <2>2. CASE ReadBufferText
    BY <1>4, <2>2, ReadBufferTextForwards
  <2>3. CASE AtEnd \/ Wait \/ WakeReader \/ ParserDone
    BY <1>3, <2>3, OthersKeep
  <2>4. QED BY <1>7, <2>1, <2>2, <2>3 DEF Parser
<1>8. CASE Reader \/ Loop \/ ForceExit \/ UNCHANGED vars
  BY <1>3, <1>8, OthersKeep
<1>9. QED BY <1>6, <1>7, <1>8 DEF Next, Quiescent

\* What the threads promise the event loop: it is given the messages of the editor in
\* order, none twice, each with the text that was written for it, and none is left out but
\* those with an option that cannot be parsed (next_string, text_of_buffer,
\* dispatch_fifo_request).
THEOREM PipelineIsChannel == Spec => ChannelSpec
<1>1. Init => Channel!Init
  <2>1. ASSUME script = <<>>, parsed = 0
        PROVE  SubSeq(script, parsed + 1, Len(script)) = <<>>
    BY <2>1
  <2>2. QED BY <2>1 DEF Init, Channel!Init
<1>2. TextsInv /\ [Next]_vars => TextsInv' /\ [Channel!Next]_(Channel!vars)
  BY StepImplements
<1>3. QED BY <1>1, <1>2, TextsInit, PTL DEF Spec, ChannelSpec, Channel!Spec

=============================================================================
