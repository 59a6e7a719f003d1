------------------------------ MODULE Positions ------------------------------
(***************************************************************************)
(* Positions in a text (position.rs).  A server counts lines and columns   *)
(* from zero, in bytes or in UTF-16 code units, and the end of a range is  *)
(* the first position behind it; the editor counts from one, in bytes, and *)
(* the end of a range belongs to it.                                       *)
(*                                                                         *)
(* A text is the sequence of its lines, as the Rope of the code gives      *)
(* them: each ends in a newline but the last, which is empty if the text   *)
(* ends in a newline.  Of the characters there are two: a narrow one of    *)
(* one byte and one code unit, and a wide one, beyond the basic plane, of  *)
(* four bytes and two code units.                                          *)
(***************************************************************************)
EXTENDS Integers, Sequences, FiniteSets, FiniteSetsExt, SequencesExt

Narrow == "a"
Wide == "w"
Newline == "n"

Encodings == {"utf8", "utf16"}

\* lines whose last character is a newline, followed by the empty last line
Document(contents) ==
  [l \in 1..Len(contents) |-> Append(contents[l], Newline)] \o << <<>> >>

\* The sum of the widths of characters.
Total(widths) ==
  LET total[k \in 0..Len(widths)] == IF k = 0 THEN 0 ELSE total[k - 1] + widths[k]
  IN total[Len(widths)]

Bytes(c) == IF c = Wide THEN 4 ELSE 1
Units(c) == IF c = Wide THEN 2 ELSE 1

BytesOf(line) == Total([k \in 1..Len(line) |-> Bytes(line[k])])
UnitsOf(line) == Total([k \in 1..Len(line) |-> Units(line[k])])

-----------------------------------------------------------------------------
(***************************************************************************)
(* Ropey: what it says of a line.                                          *)
(***************************************************************************)

CharToByte(line, chars) == BytesOf(SubSeq(line, 1, chars))
CharToUnit(line, chars) == UnitsOf(SubSeq(line, 1, chars))
\* The character that has the byte or code unit; Len(line) past the end.
ByteToChar(line, byte) == Cardinality({k \in 1..Len(line) : CharToByte(line, k) <= byte})
UnitToChar(line, unit) == Cardinality({k \in 1..Len(line) : CharToUnit(line, k) <= unit})

-----------------------------------------------------------------------------
(***************************************************************************)
(* From the server to the editor.                                          *)
(***************************************************************************)

EolOffset == 1000000
FarRight == 999999999

\* Mutation: the end of a range is not moved to the character before it.
ToInclusiveExclusive(start, end) ==
  LET insert == start = end
      atBol == end.character = 0
  IN [start |-> [line |-> start.line + 1, column |-> start.character + 1],
      end |-> [line |-> IF atBol /\ ~insert THEN end.line ELSE end.line + 1,
               column |-> IF ~insert /\ atBol THEN EolOffset ELSE end.character + 1]]

\* Both ends in bytes: lsp_range_to_kakoune_utf_8
ToInclusive(start, end) ==
  LET insert == start = end
      atBol == end.character = 0
  IN [start |-> [line |-> start.line + 1, column |-> start.character + 1],
      end |-> [line |-> IF atBol /\ ~insert THEN end.line ELSE end.line + 1,
               column |-> CASE insert -> start.character + 1
                            [] ~insert /\ atBol -> EolOffset
                            [] OTHER -> end.character]]

GetLine(text, line) == text[Min({line + 1, Len(text)})]

\* get_byte_index: past the end, the end of the line
ByteIndex(text, p) ==
  LET line == GetLine(text, p.line)
  IN CharToByte(line, UnitToChar(line, Min({p.character, UnitsOf(line)})))

LspRangeToKakoune(text, encoding, start, end) ==
  IF encoding = "utf8" THEN ToInclusive(start, end)
  ELSE ToInclusive([start EXCEPT !.character = ByteIndex(text, start)],
                   [end EXCEPT !.character = ByteIndex(text, end)])

\* The code compares code units with the number of characters.
LspPositionToKakoune(text, encoding, p) ==
  [line |-> p.line + 1,
   column |-> IF encoding = "utf8" THEN p.character + 1
              ELSE LET line == GetLine(text, p.line) IN
                   IF p.line >= Len(text) \/ p.character >= Len(line) THEN FarRight
                   ELSE CharToByte(line, UnitToChar(line, p.character)) + 1]

NoOffset == -1

\* lsp_character_to_byte_offset; again, the number of characters bounds the units.
CharacterToByte(line, encoding, character) ==
  IF encoding = "utf8"
  THEN IF character <= BytesOf(line) THEN character ELSE NoOffset
  ELSE IF character <= Len(line) THEN CharToByte(line, UnitToChar(line, character)) ELSE NoOffset

-----------------------------------------------------------------------------
(***************************************************************************)
(* From the editor to the server.                                          *)
(***************************************************************************)

KakounePositionToLsp(text, encoding, p) ==
  LET asIs == [line |-> p.line - 1, character |-> p.column - 1] IN
  IF \/ encoding = "utf8"
     \/ p.line > Len(text)
     \/ p.column > BytesOf(text[p.line])
  THEN asIs
  ELSE [asIs EXCEPT !.character = CharToUnit(text[p.line], ByteToChar(text[p.line], @))]

-----------------------------------------------------------------------------
(***************************************************************************)
(* What is meant.  A place is the number of characters before it, and a    *)
(* server and the editor each have one way to name it.                     *)
(***************************************************************************)

Characters(text) == FlattenSeq(text)
Places(text) == 0..Len(Characters(text))

\* The characters before a line.
Before(text, l) == Len(FlattenSeq(SubSeq(text, 1, l - 1)))
LineOf(text, place) == Max({l \in 1..Len(text) : Before(text, l) <= place})
InLine(text, place) == SubSeq(text[LineOf(text, place)], 1, place - Before(text, LineOf(text, place)))

LspName(text, encoding, place) ==
  [line |-> LineOf(text, place) - 1,
   character |-> IF encoding = "utf8" THEN BytesOf(InLine(text, place)) ELSE UnitsOf(InLine(text, place))]

KakouneName(text, place) ==
  [line |-> LineOf(text, place), column |-> BytesOf(InLine(text, place)) + 1]

\* The place to which the editor takes a coordinate: what is beyond the end of a line
\* is its newline, what is beyond the last line is in the last line.
Clamp(text, p) ==
  LET l == Min({p.line, Len(text) - 1})
      chars == ByteToChar(text[l], p.column - 1)
  IN Before(text, l) + Min({chars, Len(text[l]) - 1})

=============================================================================
