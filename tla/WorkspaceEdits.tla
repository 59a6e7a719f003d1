---------------------------- MODULE WorkspaceEdits ----------------------------
(***************************************************************************)
(* Workspace edits (workspace.rs, text_edit.rs): a sequence of text edits  *)
(* and of operations on files.  Edits of documents that are open in the    *)
(* editor are gathered in one command, which the editor runs at some later *)
(* time; everything else happens at once, on disk.                         *)
(*                                                                         *)
(* A text is the sequence of the changes made to the file since it was     *)
(* created.  How the edits of one document become a command is TextEdits'. *)
(* The editor's buffers and the user are external.                         *)
(***************************************************************************)
EXTENDS Integers, Sequences, FiniteSets, SequencesExt

CONSTANTS
  Current,  \* the buffer the request is about, open in the editor
  Hidden,   \* another one, open in the editor
  Closed,   \* a file that is not open
  Absent,   \* a file that does not exist
  MaxOps    \* bound: operations of a workspace edit

VARIABLES
  ops,      \* the workspace edit
  done,     \* how many of its operations were carried out
  disk,     \* text of every file
  buffers,  \* text of the buffers of the editor
  documents,\* ctx.documents: the text of open documents that kakoune-lsp knows
  command,  \* edits for the editor, and whether the buffer is written after it
  told,     \* text of didOpen notifications sent for files that were edited on disk
  applied,  \* the reply: "none" before it was sent
  ran,      \* has the editor run the command?
  typed,    \* buffers in which the user typed, or that he saved, meanwhile
  before    \* disk and buffers when the edit came

vars == <<ops, done, disk, buffers, documents, command, told, applied, ran, typed, before>>

Paths == {Current, Hidden, Closed, Absent}
Open == {Current, Hidden}
NoFile == << <<"no file", 0>> >>
Exists(files, p) == files[p] # NoFile

Ops ==
  [kind : {"edit", "delete"}, uri : Paths]
    \cup [kind : {"create"}, uri : Paths, ignore : BOOLEAN]
    \cup {r \in [kind : {"rename"}, uri : Paths, to : Paths, ignore : BOOLEAN] : r.uri # r.to}

\* The k-th operation is an edit: what it leaves in a text; misplaced when the text is
\* not the one it was computed from.
Edited(text, k) == Append(text, <<"edit", k>>)
Misplaced(text, k) == Append(text, <<"misplaced", k>>)

-----------------------------------------------------------------------------
(***************************************************************************)
(* apply_document_resource_op: files after it, and whether it fails.       *)
(* ignore stands for ignoreIfExists without overwrite.                     *)
(***************************************************************************)

Renamed(files, op) ==
  IF op.ignore /\ Exists(files, op.to) THEN files
  ELSE [files EXCEPT ![op.to] = files[op.uri], ![op.uri] = NoFile]

\* A file is created, removed or moved: the system may refuse it, and then nothing of it
\* is done.
MayFail(files, op) ==
  CASE op.kind = "create" -> ~(op.ignore /\ Exists(files, op.uri))
    [] op.kind = "delete" -> Exists(files, op.uri)
    [] op.kind = "rename" -> ~(op.ignore /\ Exists(files, op.to))

\* There is nothing to move.
Fails(files, op) == op.kind = "rename" /\ MayFail(files, op) /\ ~Exists(files, op.uri)

ResourceOp(files, op) ==
  CASE op.kind = "create" ->
         IF op.ignore /\ Exists(files, op.uri) THEN files ELSE [files EXCEPT ![op.uri] = <<>>]
    [] op.kind = "delete" -> [files EXCEPT ![op.uri] = NoFile]
    [] op.kind = "rename" -> Renamed(files, op)

-----------------------------------------------------------------------------
(***************************************************************************)
(* apply_edit, one operation a step: the editor and the user go on         *)
(* meanwhile.                                                              *)
(***************************************************************************)

Op == ops[done + 1]
Applying == ops # <<>> /\ done < Len(ops) /\ applied = "none"

\* Mutation: buffers with unsaved changes are written too.
WriteHidden(p) == p # Current

\* Hidden buffers are written unless they were dirty.
WriteToDisk(p) == p # Current /\ disk[p] = documents[p]

EditOpen ==
  /\ Applying /\ Op.kind = "edit" /\ Op.uri \in Open
  /\ command' = Append(command, [path |-> Op.uri, op |-> done + 1, text |-> documents[Op.uri],
                                 write |-> WriteToDisk(Op.uri)])
  /\ done' = done + 1
  /\ UNCHANGED <<ops, disk, buffers, documents, told, applied, ran, typed, before>>

\* A failure is only logged.
EditFile ==
  /\ Applying /\ Op.kind = "edit" /\ Op.uri \notin Open
  /\ IF Exists(disk, Op.uri)
     THEN /\ disk' = [disk EXCEPT ![Op.uri] = Edited(@, done + 1)]
          /\ told' = [told EXCEPT ![Op.uri] = disk'[Op.uri]]
     ELSE UNCHANGED <<disk, told>>
  /\ done' = done + 1
  /\ UNCHANGED <<ops, buffers, documents, command, applied, ran, typed, before>>

\* A failure ends it all, and with it the command.
Resource ==
  /\ Applying /\ Op.kind # "edit"
  /\ \/ MayFail(disk, Op) /\ applied' = "no" /\ UNCHANGED <<disk, done>>
     \/ ~Fails(disk, Op) /\ disk' = ResourceOp(disk, Op) /\ done' = done + 1 /\ UNCHANGED applied
  /\ UNCHANGED <<ops, buffers, documents, command, told, ran, typed, before>>

Reply ==
  /\ ops # <<>> /\ done = Len(ops) /\ applied = "none"
  /\ applied' = "yes"
  /\ UNCHANGED <<ops, done, disk, buffers, documents, command, told, ran, typed, before>>

-----------------------------------------------------------------------------
(***************************************************************************)
(* The editor runs the command as a whole: each edit at its own place, the *)
(* buffer is written if it was so decided, and did-change is sent.         *)
(***************************************************************************)

RunEdit(state, c) ==
  LET now == state.buffers[c.path]
      text == IF now = c.text THEN Edited(now, c.op) ELSE Misplaced(now, c.op)
  IN [buffers |-> [state.buffers EXCEPT ![c.path] = text],
      disk |-> IF c.write THEN [state.disk EXCEPT ![c.path] = text] ELSE state.disk]

Run ==
  /\ applied = "yes" /\ ~ran
  /\ ran' = TRUE
  /\ LET after[k \in 0..Len(command)] ==
           IF k = 0 THEN [buffers |-> buffers, disk |-> disk] ELSE RunEdit(after[k - 1], command[k])
     IN buffers' = after[Len(command)].buffers /\ disk' = after[Len(command)].disk
  /\ UNCHANGED <<ops, done, documents, command, told, applied, typed, before>>

\* The user types in a buffer, or saves one; bound: once in one buffer.
Type(p) ==
  /\ typed = {} /\ typed' = {p}
  /\ buffers' = [buffers EXCEPT ![p] = Append(@, <<"typed", 0>>)]
  /\ UNCHANGED <<ops, done, disk, documents, command, told, applied, ran, before>>

Save(p) ==
  /\ typed = {} /\ typed' = {p}
  /\ disk' = [disk EXCEPT ![p] = buffers[p]]
  /\ UNCHANGED <<ops, done, buffers, documents, command, told, applied, ran, before>>

\* textDocument/didChange comes.
DidChange(p) ==
  /\ documents[p] # buffers[p]
  /\ documents' = [documents EXCEPT ![p] = buffers[p]]
  /\ UNCHANGED <<ops, done, disk, buffers, command, told, applied, ran, typed, before>>

-----------------------------------------------------------------------------

Init ==
  /\ ops = <<>> /\ done = 0 /\ command = <<>> /\ applied = "none" /\ ran = FALSE /\ typed = {}
  /\ told = [p \in Paths |-> NoFile]
  /\ \E dirty \in SUBSET Open :
       /\ buffers = [p \in Open |-> IF p \in dirty THEN << <<"unsaved", 0>> >> ELSE <<>>]
       /\ disk = [p \in Paths |-> IF p = Absent THEN NoFile ELSE <<>>]
  /\ documents = buffers
  /\ before = [disk |-> disk, buffers |-> buffers]

Ask ==
  /\ ops = <<>> /\ ops' \in UNION {[1..n -> Ops] : n \in 1..MaxOps}
  /\ before' = [disk |-> disk, buffers |-> buffers]
  /\ UNCHANGED <<done, disk, buffers, documents, command, told, applied, ran, typed>>

Over == (applied = "no" \/ ran) /\ documents = buffers

Next ==
  \/ Ask \/ EditOpen \/ EditFile \/ Resource \/ Reply \/ Run
  \/ \E p \in Open : DidChange(p)
  \/ ops # <<>> /\ ~Over /\ \E p \in Open : Type(p) \/ Save(p)
  \/ Over /\ UNCHANGED vars

Spec == Init /\ [][Next]_vars

-----------------------------------------------------------------------------
(***************************************************************************)
(* Properties.                                                             *)
(***************************************************************************)

\* What the first n operations of the workspace edit mean: one after the other, on what
\* the user sees, which is the buffer of an open document.
Sees(files, texts) == [p \in Paths |-> IF p \in Open THEN texts[p] ELSE files[p]]

Does(seen, op, k) ==
  CASE op.kind # "edit" -> ResourceOp(seen, op)
    [] op.kind = "edit" /\ Exists(seen, op.uri) -> [seen EXCEPT ![op.uri] = Edited(@, k)]
    [] OTHER -> seen

MeantBy(n) ==
  LET seen[k \in 0..Len(ops)] ==
        IF k = 0 THEN Sees(before.disk, before.buffers) ELSE Does(seen[k - 1], ops[k], k)
  IN seen[n]

\* Operations on a file that is open in the editor come before the edits of its buffer,
\* whatever their order; a second edit of a buffer is not computed from the first.
Touches(op, p) == op.uri = p \/ (op.kind = "rename" /\ op.to = p)
Plain ==
  /\ \A op \in Range(ops) : op.kind # "edit" => \A p \in Open : ~Touches(op, p)
  /\ \A j, k \in 1..Len(ops) : j # k /\ ops[k].kind = "edit" /\ ops[k].uri \in Open => ops[j].uri # ops[k].uri

\* A workspace edit that is reported as applied leaves every text as if its operations
\* had been made one after the other, although edits of buffers are put off behind all
\* others and files are rewritten; hidden buffers are on disk afterwards if they were
\* before, and nobody's unsaved text is.  One that is reported as failed leaves the files
\* that are not open as the operations before the failing one left them.  This holds of
\* each file whose buffer the user leaves alone meanwhile.
AppliedAsMeant ==
  \A p \in Paths \ typed :
    /\ ran /\ Plain =>
         /\ Sees(disk, buffers)[p] = MeantBy(Len(ops))[p]
         /\ p \in Open =>
              disk[p] = IF p # Current /\ before.disk[p] = before.buffers[p] THEN buffers[p] ELSE before.disk[p]
         /\ told[p] # NoFile /\ (\A op \in Range(ops) : Touches(op, p) => op.kind = "edit") => told[p] = disk[p]
    /\ applied = "no" /\ Plain /\ p \notin Open => disk[p] = MeantBy(done)[p]

\* "failure_handling: Some(FailureHandlingKind::Abort)" (capabilities.rs 77), which tells
\* servers that the operations before the failing one stay executed: so they are when all
\* is over, in the editor's buffers too.
AbortKeeps ==
  Over /\ applied = "no" /\ Plain =>
    \A p \in Paths \ typed : Sees(disk, buffers)[p] = MeantBy(done)[p]

=============================================================================
