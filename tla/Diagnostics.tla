----------------------------- MODULE Diagnostics -----------------------------
(***************************************************************************)
(* Diagnostics and code lenses of one buffer (diagnostics.rs, code_lens.rs *)
(* and the parts of text_sync.rs that concern them): what servers publish  *)
(* is kept with their names, and everything known of the buffer is         *)
(* rendered into options of the buffer for the version kak-lsp knows.      *)
(*                                                                         *)
(* Servers publish when they like, for the version they know; messages are *)
(* in order and take time.  Positions are lines (see Positions for them).  *)
(***************************************************************************)
EXTENDS Integers, Sequences, FiniteSets, SequencesExt

CONSTANTS
  Servers,
  Lines,
  Reports,        \* diagnostics servers may publish: <<first line, last line, severity>>
  LensLines,      \* sets of lines that may have lenses
  MaxDiagnostics, \* bound: diagnostics kept at a time
  MaxVersions     \* bound: versions of the buffer, those of each time it is open taken together

VARIABLES
  document,    \* version kak-lsp knows; 0 if the buffer is not open
  versions,    \* history: number of versions there were
  diagnostics, \* ctx.diagnostics: server and diagnostic
  lenses,      \* ctx.code_lenses: lines, sorted
  knows,       \* version each server knows
  published,   \* publications under way: the version a server knew, or NotPublished
  latest,      \* history: what each server published last for this version, if anything
  options      \* of the buffer

vars == <<document, versions, diagnostics, lenses, knows, published, latest, options>>

-----------------------------------------------------------------------------
(***************************************************************************)
(* Severities: 1 to 4 from error to hint; 0 if the server gives none, which*)
(* is displayed as a warning.                                              *)
(***************************************************************************)

Severities == 0..4
NoSeverity == 0
Shown(severity) == IF severity = NoSeverity THEN 2 ELSE severity

From(d) == d[2][1]
To(d) == d[2][2]
Severity(d) == d[2][3]

\* gather_line_flags: the signs of lines, by merging diagnostics and lenses that are taken
\* to be sorted; of a diagnostic and a lens in one line the lens is dropped.
Lens == 0

\* So many diagnostics and lenses were taken, and these are the flags.
Taken(diagnosed, lensed, flags) == [ds |-> diagnosed, ls |-> lensed, flags |-> flags]

Flag(ds, ls, at) ==
  LET d == ds[at.ds + 1]  l == ls[at.ls + 1]
      lens == at.ls < Len(ls) /\ (at.ds = Len(ds) \/ From(d) > l)
      both == at.ls < Len(ls) /\ From(d) = l
  IN CASE at.ds = Len(ds) /\ at.ls = Len(ls) -> at
       [] lens -> Taken(at.ds, at.ls + 1, Append(at.flags, <<l, Lens>>))
       [] OTHER -> Taken(at.ds + 1, IF both THEN at.ls + 1 ELSE at.ls,
                         Append(at.flags, <<From(d), Shown(Severity(d))>>))

GatherLineFlags(ds, ls) ==
  LET merged[n \in 0..Len(ds) + Len(ls)] ==
        IF n = 0 THEN Taken(0, 0, <<>>) ELSE Flag(ds, ls, merged[n - 1])
  IN merged[Len(ds) + Len(ls)].flags

Counts(ds) == [s \in 1..4 |-> Cardinality({i \in 1..Len(ds) : Shown(Severity(ds[i])) = s})]

\* Ranges in an order in which they may be painted: sorted by severity, none being the
\* least number, and reversed; the sort is not stable.
Inline(ds) ==
  {[i \in 1..Len(ds) |-> ds[order[i]]] : order \in
     {o \in Bijection(1..Len(ds), 1..Len(ds)) :
        \A i, j \in 1..Len(ds) : i < j => Severity(ds[o[i]]) >= Severity(ds[o[j]])}}

\* The severity of the text shown for a line: it is compared as shown, but kept as given.
Text(ds, line) ==
  LET text[i \in 0..Len(ds)] ==
        IF i = 0 THEN NoSeverity
        ELSE IF To(ds[i]) = line /\ (text[i - 1] = NoSeverity \/ Shown(Severity(ds[i])) < text[i - 1])
             THEN Severity(ds[i])
             ELSE text[i - 1]
  IN text[Len(ds)]

InlayDiagnostics(ds) == [line \in {To(ds[i]) : i \in 1..Len(ds)} |-> Text(ds, line)]

-----------------------------------------------------------------------------

NoOptions == [version |-> 0, counts |-> Counts(<<>>), inline |-> <<>>, inlay |-> <<>>,
              flagged |-> 0, flags |-> <<>>]

Init ==
  /\ document = 0 /\ versions = 0
  /\ diagnostics = <<>> /\ lenses = <<>>
  /\ knows = [s \in Servers |-> 0]
  /\ published = <<>> /\ latest = <<>>
  /\ options = NoOptions

NewVersion ==
  /\ versions < MaxVersions /\ versions' = versions + 1
  /\ document' = versions' /\ latest' = <<>>

\* What was published for the file before is kept, and not shown in the new buffer.
DidOpen ==
  /\ document = 0 /\ NewVersion
  /\ UNCHANGED <<diagnostics, lenses, knows, published, options>>

DidChange ==
  /\ document # 0 /\ NewVersion
  /\ diagnostics' = <<>>
  /\ UNCHANGED <<lenses, knows, published, options>>

DidClose ==
  /\ document # 0
  /\ document' = 0 /\ latest' = <<>> /\ options' = NoOptions
  /\ UNCHANGED <<versions, diagnostics, lenses, knows, published>>

See(s) ==
  /\ knows[s] # document
  /\ knows' = [knows EXCEPT ![s] = document]
  /\ UNCHANGED <<document, versions, diagnostics, lenses, published, latest, options>>

Publish(s) ==
  /\ s \notin DOMAIN published
  /\ published' = [t \in DOMAIN published \cup {s} |-> IF t = s THEN knows[s] ELSE published[t]]
  /\ UNCHANGED <<document, versions, diagnostics, lenses, knows, latest, options>>

\* Mutation: what the server published before is kept, too.
KeptAll(s) == diagnostics

KeptOfOthers(s) ==
  LET kept[i \in 0..Len(diagnostics)] ==
        IF i = 0 THEN <<>>
        ELSE IF diagnostics[i][1] = s THEN kept[i - 1] ELSE Append(kept[i - 1], diagnostics[i])
  IN kept[Len(diagnostics)]

\* Nobody asks what version the server knew.
PublishDiagnostics(s, ds) ==
  /\ s \in DOMAIN published
  /\ diagnostics' = KeptOfOthers(s) \o [i \in 1..Len(ds) |-> <<s, ds[i]>>]
  /\ Len(diagnostics') <= MaxDiagnostics
  /\ latest' = IF document # 0 /\ published[s] = document
               THEN [t \in DOMAIN latest \cup {s} |-> IF t = s THEN ds ELSE latest[t]] ELSE latest
  /\ published' = [t \in DOMAIN published \ {s} |-> published[t]]
  /\ IF document = 0 THEN UNCHANGED options
     ELSE \E inline \in Inline(diagnostics') :
            options' = [version |-> document, counts |-> Counts(diagnostics'), inline |-> inline,
                        inlay |-> InlayDiagnostics(diagnostics'),
                        flagged |-> document, flags |-> GatherLineFlags(diagnostics', lenses)]
  /\ UNCHANGED <<document, versions, lenses, knows>>

Sorted(lines) ==
  {ls \in [1..Cardinality(lines) -> lines] : \A i, j \in 1..Cardinality(lines) : i < j => ls[i] < ls[j]}

\* The sorted lenses of all servers replace those of the buffer.
EditorCodeLens(ls) ==
  /\ IF document = 0 THEN lenses' = <<>> /\ UNCHANGED options
     ELSE /\ lenses' = ls
          /\ options' = [options EXCEPT !.flagged = document, !.flags = GatherLineFlags(diagnostics, ls)]
  /\ UNCHANGED <<document, versions, diagnostics, knows, published, latest>>

Next ==
  \/ DidOpen \/ DidChange \/ DidClose
  \/ \E s \in Servers : See(s) \/ Publish(s)
       \/ \E ds \in BoundedSeq(Reports, MaxDiagnostics) : PublishDiagnostics(s, ds)
  \/ \E lines \in LensLines : \E ls \in Sorted(lines) : EditorCodeLens(ls)

Spec == Init /\ [][Next]_vars

-----------------------------------------------------------------------------
(***************************************************************************)
(* Properties.                                                             *)
(***************************************************************************)

\* Every server has published for the version at hand.
Settled == document # 0 /\ DOMAIN latest = Servers

All == UNION {{<<s, latest[s][i], i>> : i \in 1..Len(latest[s])} : s \in Servers}

\* What is painted and counted is what the servers said, the severe over the others.
PaintedAsPublished ==
  /\ options.version = document
  /\ \A s \in 1..4 : options.counts[s] = Cardinality({d \in All : Shown(Severity(d)) = s})
  /\ \A d \in All : Cardinality({i \in 1..Len(options.inline) : options.inline[i] = <<d[1], d[2]>>})
                    = Cardinality({e \in All : e[1] = d[1] /\ e[2] = d[2]})
  /\ \A i, j \in 1..Len(options.inline) :
       LET a == Severity(options.inline[i]) b == Severity(options.inline[j]) IN
       i < j /\ NoSeverity \notin {a, b} => a >= b

\* The text of a line is that of its worst diagnostic.
WorstTextShown ==
  \A line \in Lines :
    LET here == {d \in All : To(d) = line} IN
    (\A d \in here : Severity(d) # NoSeverity) =>
      IF here = {} THEN line \notin DOMAIN options.inlay
      ELSE \A d \in here : options.inlay[line] <= Severity(d)

\* The flags of a line tell of its diagnostics if there are any, and else of its lens.
LinesFlagged ==
  /\ options.flagged = document
  /\ \A line \in Lines :
       LET flags == {i \in 1..Len(options.flags) : options.flags[i][1] = line}
           here == {Shown(Severity(d)) : d \in {e \in All : From(e) = line}} IN
       IF here # {} THEN flags # {} /\ \A i \in flags : options.flags[i][2] \in here
       ELSE IF Contains(lenses, line) THEN \E i \in flags : flags = {i} /\ options.flags[i][2] = Lens
       ELSE flags = {}

\* Diagnostics of several servers come in the order of servers, not of lines.
InOrder == \A i, j \in 1..Len(diagnostics) : i < j => From(diagnostics[i]) <= From(diagnostics[j])

\* Once every server has published for the version at hand, the buffer shows what they
\* said and nothing else, for this version; whatever was published late for another
\* version, before the buffer was opened, or while it was closed.
DiagnosticsShown ==
  Settled => PaintedAsPublished /\ WorstTextShown /\ (InOrder => LinesFlagged)

=============================================================================
