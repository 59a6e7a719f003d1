------------------------------ MODULE TextEdits ------------------------------
(***************************************************************************)
(* Text edits of a server (text_edit.rs): as the commands that make the    *)
(* editor apply them to a buffer, and as they are applied to a file that   *)
(* is not open in the editor.  What both should do is said in one          *)
(* definition, Edited.                                                     *)
(*                                                                         *)
(* What the editor does with a command is external: select takes a range   *)
(* whose ends are clamped to the buffer, i inserts before it and c changes *)
(* it, and a buffer always ends in a newline.                              *)
(***************************************************************************)
EXTENDS Positions

CONSTANTS
  Contents,  \* the lines of documents, without their newline
  MaxLines,  \* bound: lines of a document
  MaxEdits,  \* bound: edits
  NewTexts   \* what edits insert

VARIABLES
  text,     \* the document
  encoding, \* of the server's positions
  edits,    \* what the server wants, in its order, by places of the document
  client,   \* is a client known?  The edits of its buffer are made minimal
  answer    \* what became of it

vars == <<text, encoding, edits, client, answer>>

Idle == [at |-> "idle"]
Asked == [at |-> "asked"]
Panic(where) == [at |-> "panic", where |-> where]

-----------------------------------------------------------------------------
(***************************************************************************)
(* What is meant: edits do not overlap, and are made all at once.          *)
(***************************************************************************)

\* The replaced characters; the order of insertions at one place is that of the
\* edits.
Edited ==
  LET chars == Characters(text)
      At(place, Test(_)) ==
        FlattenSeq([e \in 1..Len(edits) |->
          IF edits[e].from = place /\ Test(edits[e]) THEN edits[e].new ELSE <<>>])
      Kept(k) == ~\E e \in 1..Len(edits) : edits[e].from < k /\ k <= edits[e].to
  IN FlattenSeq([k \in 1..Len(chars) + 1 |->
       At(k - 1, LAMBDA e : e.to = e.from) \o At(k - 1, LAMBDA e : e.to > e.from)
       \o (IF k <= Len(chars) /\ Kept(k) THEN <<chars[k]>> ELSE <<>>)])

\* What the editor has then.
Ended(chars) == IF chars # <<>> /\ Last(chars) = Newline THEN chars ELSE Append(chars, Newline)

-----------------------------------------------------------------------------
(***************************************************************************)
(* The edits as the server sends them.                                     *)
(***************************************************************************)

LspEdits ==
  [e \in 1..Len(edits) |->
    [start |-> LspName(text, encoding, edits[e].from),
     end |-> LspName(text, encoding, edits[e].to),
     new |-> edits[e].new]]

LessThan(p, q) == p.line < q.line \/ (p.line = q.line /\ p.character < q.character)

\* The stable sort by (range.start, range.end).
SortedEdits(es) ==
  LET Precedes(i, j) ==
        \/ LessThan(es[i].start, es[j].start)
        \/ es[i].start = es[j].start /\ LessThan(es[i].end, es[j].end)
        \/ es[i].start = es[j].start /\ es[i].end = es[j].end /\ i < j
      order == SortSeq([k \in 1..Len(es) |-> k], Precedes)
  IN [k \in 1..Len(es) |-> es[order[k]]]

-----------------------------------------------------------------------------
(***************************************************************************)
(* An edit of the whole buffer becomes an edit of the lines that differ.   *)
(***************************************************************************)

Lines(chars) ==
  LET ends == {k \in 1..Len(chars) : chars[k] = Newline} \cup {Len(chars)}
      Start(k) == IF k = 1 THEN 1 ELSE 1 + CHOOSE m \in ends : Cardinality({j \in ends : j < m}) = k - 2
      End(k) == CHOOSE m \in ends : Cardinality({j \in ends : j < m}) = k - 1
      proper == [k \in 1..Cardinality(ends) |-> SubSeq(chars, Start(k), End(k))]
  IN IF chars = <<>> \/ Last(chars) = Newline THEN Append(proper, <<>>) ELSE proper

\* Last line that is not empty, and its number of characters: the end of the text in
\* the code's reckoning.
TextEnd == [line |-> Len(text) - 2, character |-> Len(text[Len(text) - 1])]

IsWholeBuffer(es) ==
  /\ client /\ Len(es) = 1
  /\ es[1].start = [line |-> 0, character |-> 0] /\ ~LessThan(es[1].end, TextEnd)

\* diffs::patience is external: one edit between the lines that both texts begin and
\* end with.
MinimalEditSequence(old, new) ==
  LET Agree(n) == \A k \in 1..n : old[k] = new[k]
      shorter == Min({Len(old), Len(new)})
      first == Max({n \in 0..shorter : Agree(n)})
      AgreeBack(n) == \A k \in 0..n - 1 : old[Len(old) - k] = new[Len(new) - k]
      last == Max({n \in 0..shorter - first : AgreeBack(n)})
  IN IF first + last = Len(old) /\ first + last = Len(new) THEN <<>>
     ELSE <<[start |-> [line |-> first, character |-> 0],
             end |-> [line |-> Len(old) - last, character |-> 0],
             new |-> FlattenSeq(SubSeq(new, first + 1, Len(new) - last))]>>

Minimal(es) ==
  IF IsWholeBuffer(es) THEN MinimalEditSequence(text, Lines(Ended(es[1].new))) ELSE es

-----------------------------------------------------------------------------
(***************************************************************************)
(* lsp_text_edits_to_kakoune                                               *)
(***************************************************************************)

\* In bytes; a column that is not there counts as the first.
ByteOffset(p) ==
  LET column == IF p.line < Len(text) THEN CharacterToByte(text[p.line + 1], encoding, p.character) ELSE NoOffset
  IN BytesOf(FlattenSeq(SubSeq(text, 1, p.line))) + Max({column, 0})

\* Mutation: an edit that touches the one before stays one of its own.
CoalescedSeparate(es) == [edits |-> es, offset |-> 0, panic |-> FALSE]

\* Edits that touch become one.
Coalesced(es) ==
  FoldLeft(
    LAMBDA done, e :
      LET touches == done.edits # <<>> /\ done.offset = ByteOffset(e.start)
          last == Last(done.edits)
      IN [edits |-> IF touches
                    THEN Append(Front(done.edits), [last EXCEPT !.end = e.end, !.new = @ \o e.new])
                    ELSE Append(done.edits, e),
          offset |-> ByteOffset(e.end),
          panic |-> done.panic \/ (touches /\ last.end # e.start)],
    [edits |-> <<>>, offset |-> 0, panic |-> FALSE], es)

\* Edits within a line that change nothing, or are found to be out of it, are dropped.
Kept(e) ==
  e.start.line = e.end.line =>
    LET line == GetLine(text, e.start.line)
        start == CharacterToByte(line, encoding, e.start.character)
        end == CharacterToByte(line, encoding, e.end.character)
    IN /\ start # NoOffset /\ end # NoOffset
       /\ e.new # SubSeq(line, ByteToChar(line, start) + 1, ByteToChar(line, end))

Command(e) ==
  [range |-> LspRangeToKakoune(text, encoding, e.start, e.end),
   key |-> IF e.start = e.end THEN "i" ELSE "c",
   new |-> e.new]

\* The last edit comes first.
Commands(es) ==
  LET done == Coalesced(SortedEdits(Minimal(es)))
      kept == SelectSeq(done.edits, Kept)
  IN [panic |-> done.panic, commands |-> Reverse([k \in 1..Len(kept) |-> Command(kept[k])])]

\* The editor runs them.
Run(commands) ==
  FoldLeft(
    LAMBDA chars, c :
      LET lines == Lines(chars)
          from == Clamp(lines, c.range.start)
          to == Clamp(lines, c.range.end)
      IN Ended(SubSeq(chars, 1, from) \o c.new
               \o SubSeq(chars, (IF c.key = "i" THEN from ELSE to + 1) + 1, Len(chars))),
    Characters(text), commands)

ApplyToBuffer ==
  LET done == Commands(LspEdits) IN
  IF done.panic THEN Panic("buffer")
  ELSE [at |-> "buffer", chars |-> Run(done.commands),
        past |-> \E k \in 1..Len(done.commands) : done.commands[k].range.start.line >= Len(text)]

-----------------------------------------------------------------------------
(***************************************************************************)
(* apply_text_edits_to_rope: the edits in the order in which they came.    *)
(***************************************************************************)

ApplyToFile ==
  FoldLeft(
    LAMBDA done, e :
      LET start == CharacterToByte(text[e.start.line + 1], encoding, e.start.character)
          end == CharacterToByte(text[e.end.line + 1], encoding, e.end.character)
          from == Before(text, e.start.line + 1) + ByteToChar(text[e.start.line + 1], start)
          to == Before(text, e.end.line + 1) + ByteToChar(text[e.end.line + 1], end)
      IN CASE done.at # "file" -> done
           [] done.at = "file" /\ (start = NoOffset \/ end = NoOffset) -> [at |-> "error"]
           [] done.at = "file" /\ start # NoOffset /\ end # NoOffset /\ from < done.cursor -> Panic("file")
           [] OTHER ->
                [at |-> "file", cursor |-> to,
                 chars |-> done.chars \o SubSeq(Characters(text), done.cursor + 1, from) \o e.new],
    [at |-> "file", cursor |-> 0, chars |-> <<>>], LspEdits)

WholeFile(done) ==
  IF done.at # "file" THEN done
  ELSE [at |-> "file", chars |-> done.chars \o SubSeq(Characters(text), done.cursor + 1, Len(Characters(text)))]

-----------------------------------------------------------------------------

Documents == {Document(c) : c \in UNION {[1..n -> Contents] : n \in 1..MaxLines}}

Overlap(e, f) == e.from < f.to /\ f.from < e.to
EditsOf(t) ==
  LET single == {e \in [from : Places(t), to : Places(t), new : NewTexts] :
                   e.from <= e.to /\ (e.from = e.to => e.new # <<>>)}
  IN UNION {{es \in [1..n -> single] : \A i, j \in 1..n : i # j => ~Overlap(es[i], es[j])} : n \in 1..MaxEdits}

Init ==
  /\ text \in Documents /\ encoding \in Encodings
  /\ edits = <<>> /\ client = FALSE
  /\ answer = Idle

\* Only a single edit can be one of the whole buffer, and only then the client matters.
Ask ==
  /\ answer = Idle
  /\ edits' \in EditsOf(text)
  /\ client' \in IF Len(edits') = 1 THEN BOOLEAN ELSE {FALSE}
  /\ answer' = Asked
  /\ UNCHANGED <<text, encoding>>

Apply ==
  /\ answer = Asked
  /\ answer' \in {ApplyToBuffer, WholeFile(ApplyToFile)}
  /\ UNCHANGED <<text, encoding, edits, client>>

Done == answer \notin {Idle, Asked} /\ UNCHANGED vars

Next == Ask \/ Apply \/ Done

Spec == Init /\ [][Next]_vars

-----------------------------------------------------------------------------
(***************************************************************************)
(* Properties.                                                             *)
(***************************************************************************)

\* The editor is asked to insert behind the last line of the buffer: what it does
\* then the repository does not tell.
InsertsPast == answer.at = "buffer" /\ answer.past

\* An edit that ends within the last line is taken for one of the whole buffer: the
\* number of characters is compared with bytes or code units.
MistakenForWhole == IsWholeBuffer(LspEdits) /\ edits[1].to # Len(Characters(text))

Ordered == SortedEdits(LspEdits) = LspEdits

\* The commands for a buffer, and the text written to a file, are what the edits mean:
\* none is lost, shifted, or made twice, also when edits touch, span lines or replace
\* everything.  Only edits of a file that are out of order are not survived.
EditsAreMeant ==
  /\ answer.at = "buffer" /\ ~InsertsPast /\ ~MistakenForWhole => answer.chars = Ended(Edited)
  /\ answer.at = "file" => answer.chars = Edited
  /\ answer.at = "panic" => answer.where = "file" /\ ~Ordered
  /\ answer.at # "error"

\* CHANGELOG.md: column offsets are UTF-16 code units.
ColumnsAreCodeUnits == encoding = "utf16" => EditsAreMeant

\* The server's column is taken for one behind the line, and so for its newline: code units
\* are compared with the number of characters.
TakenForEnd(place) ==
  LET l == LineOf(text, place) IN
  /\ encoding # "utf8" /\ place + 1 < Before(text, l + 1)
  /\ UnitsOf(InLine(text, place)) >= Len(text[l])

\* A place that the editor or a server names is understood as that place, and a range as
\* what lies between its ends; only a server's position is not when it is taken for the
\* end of the line.
PositionsAgree ==
  answer = Idle => \A place \in Places(text) :
    LET lsp == LspName(text, encoding, place)
        kakoune == KakouneName(text, place)
    IN /\ KakounePositionToLsp(text, encoding, kakoune) = lsp
       /\ place < Len(Characters(text)) =>
            (Clamp(text, LspPositionToKakoune(text, encoding, lsp)) = place <=> ~TakenForEnd(place))
       /\ \A other \in place + 1..Len(Characters(text)) :
            LET range == LspRangeToKakoune(text, encoding, lsp, LspName(text, encoding, other))
            IN Clamp(text, range.start) = place /\ Clamp(text, range.end) = other - 1

=============================================================================
