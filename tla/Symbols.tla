------------------------------- MODULE Symbols -------------------------------
(***************************************************************************)
(* The symbols of a buffer (language_features/document_symbol.rs): the     *)
(* servers' answers are searched for the next or previous symbol, for      *)
(* adjacent or surrounding symbols to select, for the symbols around a     *)
(* line, and listed.                                                       *)
(*                                                                         *)
(* A position is a number; every line has Width of them, and the last one  *)
(* is behind the characters of the line.  An answer is the sequence of its *)
(* symbols in the order in which a walk through the tree meets them; each  *)
(* names its parent.  The commands' sides in lsp.kak are external.         *)
(***************************************************************************)
EXTENDS Integers, Sequences, FiniteSets, SequencesExt

CONSTANTS
  Labels,     \* pairs of a kind and a name, a sequence of characters
  Texts,      \* of the buffer: sequences of Length characters
  WordCharacters, \* the alphanumeric ones
  MaxSymbols, \* bound: symbols of an answer
  Length, Width, \* positions of the buffer, and of its lines
  ModesGiven, \* bound: modes of lsp-object; some differ only in the anchor
  MaxCount    \* bound: the count typed before lsp-object

VARIABLES
  text,      \* of the buffer
  answers,   \* what the servers send, in the order of meta.servers
  selection, \* the main selection: anchor and cursor
  did        \* the last command, where the cursor was, and what came of it

vars == <<text, answers, selection, did>>

PositionSet == 1..Length
LineOf(p) == (p - 1) \div Width + 1
BehindLine(p) == p % Width = 0

NoAnswer == [shape |-> "none"]
Nothing == 0
NoEnd == [start |-> 0, end |-> 0, at |-> 0]

\* Where a symbol is: its range, and the name in it.
Spots == {r \in [start : PositionSet, name : PositionSet, end : PositionSet] :
            r.start <= r.name /\ r.name <= r.end}

NotYet == [command |-> "none"]

\* Bound: one command in a behaviour; it may be given anywhere.
Fresh == did = NotYet

-----------------------------------------------------------------------------
(***************************************************************************)
(* The tree.                                                               *)
(***************************************************************************)

Flat(a) == a.shape = "flat"
Children(a, p) == SelectSeq([s \in 1..Len(a.symbols) |-> s], LAMBDA s : a.symbols[s].parent = p)
Wanted(a, query) == {s \in 1..Len(a.symbols) : query = {} \/ a.symbols[s].label[1] \in query}

\* The first server that answered, with an empty list perhaps.
Result ==
  LET some == {k \in 1..Len(answers) : answers[k] # NoAnswer}
  IN IF some = {} THEN NoAnswer ELSE answers[CHOOSE k \in some : \A j \in some : k <= j]

HasSymbols == Result # NoAnswer /\ Result.symbols # <<>>

\* A character behind the whole name: it is found, unless the character belongs to a
\* longer word, which may be the beginning of the name.
NextAfter(ident, c) ==
  IF c \in WordCharacters THEN [matched |-> IF c = ident[1] THEN 1 ELSE 0, found |-> FALSE]
  ELSE [matched |-> Len(ident), found |-> TRUE]

\* The last character of the name where it is first met at or behind a position; 0 if it
\* is not, or nothing follows it.
FindIdentifier(start, ident) ==
  FoldLeft(
    LAMBDA walk, p :
      LET c == text[p]
          at == walk.matched IN
      CASE walk.found # 0 -> walk
        [] walk.found = 0 /\ at = Len(ident) ->
             LET next == NextAfter(ident, c)
             IN [matched |-> next.matched, found |-> IF next.found THEN p - 1 ELSE 0]
        [] walk.found = 0 /\ at < Len(ident) ->
             [matched |-> CASE c = ident[at + 1] -> at + 1
                            [] c # ident[at + 1] /\ c = ident[1] -> 1
                            [] OTHER -> 0,
              found |-> 0],
    [matched |-> 0, found |-> 0], [k \in 1..Length + 1 - start |-> start + k - 1]).found

\* Where a symbol is said to be.  The identifier is looked for in the file of an answer
\* without a tree, which has no selection ranges.
SymbolPosition(a, s) ==
  LET found == FindIdentifier(a.symbols[s].start, a.symbols[s].label[2])
  IN CASE Flat(a) /\ found # 0 -> found
       [] Flat(a) /\ found = 0 -> a.symbols[s].start
       [] OTHER -> a.symbols[s].name
SortKey(a, s) == IF Flat(a) THEN a.symbols[s].start ELSE a.symbols[s].name

Sorted(a, siblings) ==
  SortSeq(siblings,
    LAMBDA s, t : SortKey(a, s) < SortKey(a, t) \/ (SortKey(a, s) = SortKey(a, t) /\ s < t))

\* A kind of symbols that a user asks for and symbol_kind_from_string does not know.
UnknownKind == "unknown"
Known(query) == UnknownKind \notin query

\* Every command returns without a word when no server answers; all but lsp-object also
\* when the first answer is an empty list.  Kinds that are asked for are known.
ReturnEarly ==
  /\ ~HasSymbols /\ Fresh
  /\ did' = [command |-> "return", from |-> selection.cursor]
  /\ UNCHANGED <<text, answers, selection>>

-----------------------------------------------------------------------------
(***************************************************************************)
(* lsp-next-symbol, lsp-previous-symbol                                    *)
(***************************************************************************)

\* Mutation: a parent comes before its children in either direction.
VisitsParentFirst(a, next) ==
  LET below[p \in 0..Len(a.symbols)] ==
        LET siblings == IF next THEN Sorted(a, Children(a, p)) ELSE Reverse(Sorted(a, Children(a, p)))
        IN FlattenSeq([k \in 1..Len(siblings) |-> <<siblings[k]>> \o below[siblings[k]]])
  IN below[0]

\* The order in which symbols are looked at.
Visits(a, next) ==
  LET below[p \in 0..Len(a.symbols)] ==
        LET siblings == IF next THEN Sorted(a, Children(a, p)) ELSE Reverse(Sorted(a, Children(a, p)))
            Visit(s) == IF next THEN <<s>> \o below[s] ELSE below[s] \o <<s>>
        IN FlattenSeq([k \in 1..Len(siblings) |-> Visit(siblings[k])])
  IN below[0]

NextOrPrev(a, next, query, cursor) ==
  LET hits == SelectSeq(Visits(a, next),
                LAMBDA s : /\ s \in Wanted(a, query)
                           /\ IF next THEN SymbolPosition(a, s) > cursor ELSE SymbolPosition(a, s) < cursor)
  IN IF hits = <<>> THEN Nothing ELSE SymbolPosition(a, hits[1])

\* The kinds are looked at before the answer is, and one that is unknown panics, which
\* aborts the process.
NextOrPrevSymbol(next, query) ==
  /\ Fresh
  /\ \/ /\ ~Known(query)
        /\ did' = [command |-> "panic", query |-> query, from |-> selection.cursor]
        /\ UNCHANGED selection
     \/ /\ Known(query) /\ HasSymbols
        /\ LET found == NextOrPrev(Result, next, query, selection.cursor) IN
           /\ did' = [command |-> IF next THEN "next" ELSE "previous", query |-> query,
                      from |-> selection.cursor, out |-> found]
           /\ selection' = IF found = Nothing THEN selection ELSE [anchor |-> found, cursor |-> found]
  /\ UNCHANGED <<text, answers>>

-----------------------------------------------------------------------------
(***************************************************************************)
(* lsp-object                                                              *)
(***************************************************************************)

Modes == {"<a-i>", "<a-a>", "[", "]", "{", "}"}
Surround(mode) == mode \in {"<a-i>", "<a-a>"}
Forward(mode) == mode \notin {"[", "{"}

\* Both ends of each symbol that is wanted.
Ends(a, query) ==
  LET wanted == SelectSeq([s \in 1..Len(a.symbols) |-> s], LAMBDA s : s \in Wanted(a, query))
      End(s, at) == [start |-> a.symbols[s].start, end |-> a.symbols[s].end, at |-> at]
  IN FlattenSeq([k \in 1..Len(wanted) |->
       <<End(wanted[k], a.symbols[wanted[k]].start), End(wanted[k], a.symbols[wanted[k]].end)>>])

SortedEnds(ends, mode) ==
  LET upwards == Forward(mode) /\ ~Surround(mode)
      order == SortSeq([k \in 1..Len(ends) |-> k], LAMBDA j, k :
                 \/ IF upwards THEN ends[j].at < ends[k].at ELSE ends[j].at > ends[k].at
                 \/ ends[j].at = ends[k].at /\ j < k)
  IN [k \in 1..Len(ends) |-> ends[order[k]]]

\* Where a search that begins again stands: before, or behind, the whole buffer.
Beyond(mode, cur) == IF Forward(mode) THEN 0 ELSE Length + 1

\* Is this end one to move to?  One behind its line is not reachable within the line.
Reaches(mode, cur, e) ==
  \/ Surround(mode)
  \/ Forward(mode) /\ cur < e.at /\ (LineOf(cur) < LineOf(e.at) \/ ~BehindLine(e.at))
  \/ ~Forward(mode) /\ ~Surround(mode) /\ cur > e.at

\* The loop; it takes the ends in turn until as many as counted are reached.
Scan(mode, ends, count, cursor) ==
  LET from[k \in 1..Len(ends), wanted \in 1..count, cur \in 0..Length + 1] ==
        LET reached == Reaches(mode, cur, ends[k])
            left == IF reached THEN wanted - 1 ELSE wanted
            now == IF reached /\ ~Surround(mode)
                   THEN (IF Forward(mode) THEN ends[k].end ELSE ends[k].start) ELSE cur
        IN CASE left = 0 -> ends[k]
             [] left # 0 /\ k < Len(ends) -> from[k + 1, left, now]
             [] left # 0 /\ k = Len(ends) ->
                  IF Surround(mode) THEN ends[k] ELSE from[1, left, Beyond(mode, now)]
  IN from[1, count, cursor]

Surrounding(ends, cursor) == SelectSeq(ends, LAMBDA e : e.start <= cursor /\ cursor < e.end)

Object(a, mode, query, count, cursor) ==
  LET sorted == SortedEnds(Ends(a, query), mode)
      ends == IF Surround(mode) THEN Surrounding(sorted, cursor) ELSE sorted
  IN IF ends = <<>> THEN NoEnd ELSE Scan(mode, ends, count, cursor)

Larger(p, q) == IF p > q THEN p ELSE q
Smaller(p, q) == IF p < q THEN p ELSE q

\* Anchor and cursor; the range is printed from start to end whichever is larger.
Selected(mode, symbol, s) ==
  CASE Surround(mode) -> [anchor |-> symbol.start, cursor |-> symbol.end]
    [] mode = "[" -> [anchor |-> Smaller(s.cursor, symbol.end), cursor |-> symbol.start]
    [] mode = "]" -> [anchor |-> Larger(s.cursor, symbol.start), cursor |-> symbol.end]
    [] mode = "{" -> [anchor |-> Larger(s.anchor, s.cursor), cursor |-> symbol.start]
    [] mode = "}" -> [anchor |-> Smaller(s.anchor, s.cursor), cursor |-> symbol.end]

\* A count that was not typed is 0 and taken for 1.  An unknown kind is an error here.
LspObject(mode, query, count) ==
  /\ Fresh
  /\ \/ /\ ~Known(query)
        /\ did' = [command |-> "error", query |-> query, from |-> selection.cursor]
        /\ UNCHANGED selection
     \/ /\ Known(query) /\ Result # NoAnswer
        /\ LET symbol == Object(Result, mode, query, Larger(count, 1), selection.cursor) IN
           /\ did' = [command |-> "object", mode |-> mode, query |-> query,
                      count |-> Larger(count, 1), from |-> selection.cursor, out |-> symbol]
           /\ selection' = IF symbol = NoEnd THEN selection ELSE Selected(mode, symbol, selection)
  /\ UNCHANGED <<text, answers>>

-----------------------------------------------------------------------------
(***************************************************************************)
(* Breadcrumbs, the list of symbols, the menu.                             *)
(***************************************************************************)

Around(a, s, line) == LineOf(a.symbols[s].start) <= line /\ line <= LineOf(a.symbols[s].end)

SurroundingSymbols(a, line) ==
  LET below[p \in 0..Len(a.symbols)] ==
        LET around == SelectSeq(Children(a, p), LAMBDA s : Around(a, s, line))
        IN IF around = <<>> THEN <<>> ELSE <<around[1]>> \o below[around[1]]
  IN below[0]

Breadcrumbs ==
  /\ HasSymbols /\ Fresh
  /\ did' = [command |-> "breadcrumbs", from |-> selection.cursor,
             out |-> SurroundingSymbols(Result, LineOf(selection.cursor))]
  /\ UNCHANGED <<text, answers, selection>>

\* lsp-document-symbol: the line of the list on which the editor puts the cursor, below
\* the name of the buffer; the buffer's name when no symbol is before the cursor.
\* Symbols are listed as the server sends them.
GotoFileLine(a, cursor) ==
  LET At(s) == IF Flat(a) THEN a.symbols[s].start ELSE a.symbols[s].name
      before == {s \in 1..Len(a.symbols) : At(s) <= cursor}
  IN 1 + (IF before = {} THEN 0 ELSE CHOOSE s \in before : \A t \in before : t <= s)

DocumentSymbol ==
  /\ HasSymbols /\ Fresh
  /\ did' = [command |-> "list", from |-> selection.cursor, out |-> GotoFileLine(Result, selection.cursor)]
  /\ UNCHANGED <<text, answers, selection>>

\* The menu shows each symbol's name behind those of the symbols it is in.
Menu(a) ==
  LET qualified[s \in 0..Len(a.symbols)] ==
        IF s = 0 THEN <<>> ELSE Append(qualified[a.symbols[s].parent], a.symbols[s].label[2])
      below[p \in 0..Len(a.symbols)] ==
        FlattenSeq([k \in 1..Len(Children(a, p)) |->
          LET s == Children(a, p)[k]
          IN <<[entry |-> qualified[s], to |-> a.symbols[s].name]>> \o below[s]])
  IN below[0]

DocumentSymbolMenu ==
  /\ HasSymbols /\ Fresh
  /\ did' = [command |-> "menu", from |-> selection.cursor, out |-> Menu(Result)]
  /\ UNCHANGED <<text, answers, selection>>

\* goto-document-symbol with a name goes to the first symbol of that name.
SymbolSearch(a, name) == SelectSeq([s \in 1..Len(a.symbols) |-> s], LAMBDA s : a.symbols[s].label[2] = name)

GotoSymbol(name) ==
  /\ HasSymbols /\ Fresh
  /\ LET hits == SymbolSearch(Result, name)
         found == IF hits = <<>> THEN Nothing ELSE Result.symbols[hits[1]].name
     IN /\ did' = [command |-> "goto", from |-> selection.cursor, out |-> found]
        /\ selection' = IF found = Nothing THEN selection ELSE [anchor |-> found, cursor |-> found]
  /\ UNCHANGED <<text, answers>>

-----------------------------------------------------------------------------
(***************************************************************************)
(* What servers send: ranges of children are within their parent's; the    *)
(* order of siblings is any, and their ranges may overlap.                 *)
(***************************************************************************)

Trees(n, spots, labels) ==
  {[shape |-> "tree", symbols |-> f] :
     f \in {f \in [1..n -> {[parent |-> p, start |-> r.start, name |-> r.name, end |-> r.end,
                             label |-> l] : p \in 0..n - 1, r \in spots, l \in labels}] :
       \A s \in 1..n :
         LET parent == f[s].parent IN
         /\ parent < s
         /\ \A between \in parent + 1..s - 1 : f[between].parent >= parent
         /\ parent # 0 => f[parent].start <= f[s].start /\ f[s].end <= f[parent].end}}

\* Without a tree there is no range of the name.
Lists(n, labels) ==
  {[shape |-> "flat", symbols |-> f] :
     f \in [1..n -> {[parent |-> 0, start |-> r.start, name |-> r.start, end |-> r.end,
                      label |-> l] :
                     r \in {r \in Spots : r.start = r.name}, l \in labels}]}

\* Trees larger than MaxSymbols with one label only, names at the start, and some child.
Answers ==
  LET first == CHOOSE l \in Labels : TRUE IN
  UNION {Trees(n, Spots, Labels) \cup Lists(n, Labels) : n \in 1..MaxSymbols}
    \cup {a \in Trees(MaxSymbols + 1, {r \in Spots : r.start = r.name}, {first}) :
            \E s \in 1..MaxSymbols + 1 : a.symbols[s].parent # 0}

Empty == [shape |-> "tree", symbols |-> <<>>]

Init ==
  /\ answers \in {<<NoAnswer, a>> : a \in Answers} \cup {<<NoAnswer, NoAnswer>>}
                 \cup {<<Empty, a>> : a \in Lists(1, Labels)}
  /\ text \in IF HasSymbols /\ Flat(Result) THEN Texts ELSE {CHOOSE s \in Texts : TRUE}
  /\ \E p \in PositionSet : selection = [anchor |-> p, cursor |-> p]
  /\ did = NotYet

\* Of any kind, of one, or of one that is unknown.
Queries == {{}, {(CHOOSE l \in Labels : TRUE)[1]}, {UnknownKind}}

\* One is what none is taken for.
CountsGiven == {0} \cup 2..MaxCount

Next ==
  \/ \E next \in BOOLEAN, query \in Queries : NextOrPrevSymbol(next, query)
  \/ \E mode \in ModesGiven, query \in Queries, count \in CountsGiven : LspObject(mode, query, count)
  \/ ReturnEarly \/ Breadcrumbs \/ DocumentSymbol \/ DocumentSymbolMenu
  \/ \E l \in Labels : GotoSymbol(l[2])

Spec == Init /\ [][Next]_vars

-----------------------------------------------------------------------------
(***************************************************************************)
(* Properties.                                                             *)
(***************************************************************************)

Inside(a, s, p) ==
  LET inside[t \in 0..Len(a.symbols)] == t = p \/ (t # 0 /\ inside[a.symbols[t].parent])
  IN inside[s]

\* What the search relies on: no symbol is before its parent, and all of one sibling's
\* are before those of the next.
InOrder(a) ==
  \A s, t \in 1..Len(a.symbols) :
    /\ Inside(a, t, s) => SymbolPosition(a, s) <= SymbolPosition(a, t)
    /\ a.symbols[s].parent = a.symbols[t].parent /\ s # t
         /\ (SortKey(a, s) < SortKey(a, t) \/ (SortKey(a, s) = SortKey(a, t) /\ s < t)) =>
         \A v \in 1..Len(a.symbols) : Inside(a, v, s) => SymbolPosition(a, v) <= SymbolPosition(a, t)

\* The first answer that has symbols, which the code means to search ("Find the first
\* non-empty result", document_symbol.rs 48 and 83).
FirstNonEmpty ==
  LET some == {k \in 1..Len(answers) : answers[k] # NoAnswer /\ answers[k].symbols # <<>>}
  IN IF some = {} THEN NoAnswer ELSE answers[CHOOSE k \in some : \A j \in some : k <= j]

\* What it does not take into account: an empty list hides what other servers found.
EmptyFirst == Result # NoAnswer /\ Result.symbols = <<>>

\* A command finds nothing to search only if no server has symbols, or an empty list came
\* first.
NothingToSearch ==
  did.command = "return" \/ (did.command = "object" /\ did.query = {} /\ did.out = NoEnd
                               /\ ~Surround(did.mode)) =>
    FirstNonEmpty = NoAnswer \/ EmptyFirst

\* The name is found where it first is, and not at the beginning of a longer word, unless
\* its first character occurs in it again: then a later place may be found, or none.  What
\* is before the name is not looked at, so that the end of a longer word is taken for it:
\* "some word boundaries" (document_symbol.rs 631) are those behind.
FoundIsNamed ==
  Fresh /\ HasSymbols /\ Flat(Result) => \A s \in 1..Len(Result.symbols) :
    LET ident == Result.symbols[s].label[2]
        start == Result.symbols[s].start
        found == FindIdentifier(start, ident)
        ends == {p \in start + Len(ident) - 1..Length - 1 :
                   SubSeq(text, p - Len(ident) + 1, p) = ident /\ text[p + 1] \notin WordCharacters}
        recurs == \E k \in 2..Len(ident) : ident[k] = ident[1]
    IN /\ found # 0 => found \in ends
       /\ ends # {} /\ ~recurs => found # 0 /\ \A p \in ends : found <= p

\* Going to the next or previous symbol leads to the nearest of the wanted kind in the
\* first answer that has symbols, and fails only if there is none in it.
NextIsNearest ==
  did.command \in {"next", "previous"} /\ InOrder(FirstNonEmpty) =>
    LET positions == {SymbolPosition(FirstNonEmpty, s) : s \in Wanted(FirstNonEmpty, did.query)}
        ahead == {p \in positions : IF did.command = "next" THEN p > did.from ELSE p < did.from}
    IN IF ahead = {} THEN did.out = Nothing
       ELSE /\ did.out \in ahead
            /\ \A p \in ahead : IF did.command = "next" THEN did.out <= p ELSE p <= did.out

\* Selecting with a count does what selecting that often does; selecting once takes the
\* nearest end ahead, or begins again at the other end of the buffer; symbols around the
\* cursor are each selected with some count.
ObjectAsRepeated ==
  did.command = "object" /\ ~EmptyFirst =>
    LET ends == Range(Ends(FirstNonEmpty, did.query))
        Repeated == Object(FirstNonEmpty, did.mode, did.query, did.count - 1, did.from)
        From == IF did.count = 1 THEN did.from ELSE IF Forward(did.mode) THEN Repeated.end ELSE Repeated.start
        near == {e \in ends : Reaches(did.mode, From, e)}
        all == IF near # {} THEN near ELSE ends
        around == {e \in ends : e.start <= did.from /\ did.from < e.end}
    IN IF Surround(did.mode)
       THEN IF around = {} THEN did.out = NoEnd
            ELSE /\ did.out \in around
                 /\ {[start |-> e.start, end |-> e.end] : e \in around}
                      = {LET o == Object(FirstNonEmpty, did.mode, did.query, count, did.from)
                         IN [start |-> o.start, end |-> o.end] : count \in 1..Cardinality(around)}
       ELSE IF ends = {} THEN did.out = NoEnd
            ELSE /\ did.out \in all
                 /\ \A e \in all : IF Forward(did.mode) THEN did.out.at <= e.at ELSE did.out.at >= e.at

\* The symbols named in the modeline are each within the one before, and none that is
\* within the last is on the line.
BreadcrumbsLead ==
  did.command = "breadcrumbs" =>
    LET line == LineOf(did.from) IN
    /\ \A k \in 1..Len(did.out) :
         /\ FirstNonEmpty.symbols[did.out[k]].parent = (IF k = 1 THEN 0 ELSE did.out[k - 1])
         /\ LineOf(FirstNonEmpty.symbols[did.out[k]].start) <= line /\ line <= LineOf(FirstNonEmpty.symbols[did.out[k]].end)
    /\ \A s \in 1..Len(FirstNonEmpty.symbols) :
         FirstNonEmpty.symbols[s].parent = (IF did.out = <<>> THEN 0 ELSE Last(did.out)) =>
           ~(LineOf(FirstNonEmpty.symbols[s].start) <= line /\ line <= LineOf(FirstNonEmpty.symbols[s].end))

=============================================================================
