----------------------------- MODULE CodeActions -----------------------------
(***************************************************************************)
(* Code actions (code_action.rs, lsp-code-actions in lsp.kak): a batch of  *)
(* requests to all servers that have the capability, perhaps a second one  *)
(* about whole lines, then a menu, an indicator, or one action that is     *)
(* done at once; an action without an edit goes back to the servers to be  *)
(* resolved.                                                               *)
(*                                                                         *)
(* All of it is about one buffer and one use of lsp-code-actions: others   *)
(* supersede it (that is Requests'), or change the buffer, as typing does. *)
(* A range is the version it was computed for and whether it begins at the *)
(* beginning of a line.  Typing and the didChange after it are one step.   *)
(* What servers offer, and which of them can resolve an action, is         *)
(* external.                                                               *)
(***************************************************************************)
EXTENDS Sequences, FiniteSets, Integers

CONSTANTS
  Servers,
  First,      \* meta.servers.first()
  Actions,    \* the actions a server may offer, for each of them
  Resolvers,  \* servers that have the capability codeAction/resolve
  MaxVersion  \* bound: version of the buffer

VARIABLES
  able,      \* servers that have the capability codeAction
  version,   \* of the document
  call,      \* what was asked, and what became of it
  asked,     \* history: ranges sent, and the version of the document they were sent for
  toServer,  \* the editor's requests under way
  resolving, \* codeAction/resolve under way to servers
  made       \* history: what was done of the action

vars == <<able, version, call, asked, toServer, resolving, made>>

\* What a server answers: an error, null, or a list.
Failure == [answer |-> "error", actions |-> {}]
Null == [answer |-> "null", actions |-> {}]
List(actions) == [answer |-> "list", actions |-> actions]

\* What a server may offer, in the protocol: a literal command always has something to run.
Offers(s) ==
  {a \in [server : {s}, form : {"action", "command"}, kind : BOOLEAN, title : BOOLEAN,
          edit : BOOLEAN, latent : BOOLEAN, command : BOOLEAN] :
     a.form = "command" => a.command}

Idle == [way |-> "none", filter |-> "none", version |-> 0, start |-> "line", first |-> First,
         round |-> 0, waiting |-> {}, results |-> [s \in Servers |-> Failure],
         outcome |-> "none", pick |-> {}]

Init ==
  /\ able \in (SUBSET Servers) \ {{}}
  /\ version = 1
  /\ call = Idle /\ asked = {} /\ toServer = <<>> /\ resolving = {} /\ made = <<>>

-----------------------------------------------------------------------------
(***************************************************************************)
(* Asking.                                                                 *)
(***************************************************************************)

\* lsp-code-actions, lsp-code-action, the same with -sync, and the idle hook.
Ways == [way : {"menu", "sync"}, filter : {"none", "kinds", "regex"}]
          \cup {[way |-> "hook", filter |-> "none"]}

\* context.only: mem::take leaves an empty list for all servers but the first of the
\* map, and for all of them when they are asked again.
Only(c, s) ==
  IF c.filter # "kinds" THEN "nothing"
  ELSE IF c.round = 1 /\ s = c.first THEN "kinds" ELSE "empty"

\* code_actions_for_ranges
Ask(c) ==
  /\ call' = c
  /\ asked' = asked \cup {[round |-> c.round, of |-> c.version, sentAt |-> version]}

\* text_document_code_action
Request(w, start, first) ==
  /\ call = Idle
  /\ Ask([Idle EXCEPT !.way = w.way, !.filter = w.filter, !.version = version, !.start = start,
                      !.first = first, !.round = 1, !.waiting = able, !.outcome = "open"])
  /\ UNCHANGED <<able, version, toServer, resolving, made>>

\* A synchronous request, or an action done for it, keeps the editor waiting.
Blocked ==
  \/ call.way = "sync" /\ call.outcome = "open"
  \/ \E n \in DOMAIN toServer : toServer[n].sync

Type ==
  /\ version < MaxVersion /\ ~Blocked
  /\ version' = version + 1
  /\ UNCHANGED <<able, call, asked, toServer, resolving, made>>

-----------------------------------------------------------------------------
(***************************************************************************)
(* Doing an action: the commands the editor is given are requests of its   *)
(* own to kak-lsp, in that order (code_action_or_command_to_editor_command).*)
(***************************************************************************)

Commands(a, mayResolve) ==
  LET command == IF a.command THEN <<"command">> ELSE <<>> IN
  IF a.form = "command" THEN <<"command">>
  ELSE IF a.edit THEN <<"edit">> \o command
  ELSE IF mayResolve THEN <<"resolve">>
  ELSE command

\* A request to resolve is never synchronous.
Do(a, sync, mayResolve) ==
  LET commands == Commands(a, mayResolve) IN
  toServer' = toServer \o
    [n \in DOMAIN commands |->
       [what |-> commands[n], action |-> a, sync |-> sync /\ commands[n] # "resolve"]]

MayResolve(a) == a.server \in Resolvers

\* apply_edit_from_editor reads the edit with the encoding of the first server;
\* execute_command sends the command to the server whose action it is.
Perform ==
  /\ toServer # <<>> /\ Head(toServer).what # "resolve"
  /\ LET r == Head(toServer) IN
       made' = Append(made,
         [what |-> r.what, server |-> IF r.what = "edit" THEN First ELSE r.action.server,
          version |-> version])
  /\ toServer' = Tail(toServer)
  /\ UNCHANGED <<able, version, call, asked, resolving>>

\* text_document_code_action_resolve: every server is asked ...
Resolve ==
  /\ toServer # <<>> /\ Head(toServer).what = "resolve"
  /\ resolving' = resolving \cup {Head(toServer).action}
  /\ toServer' = Tail(toServer)
  /\ UNCHANGED <<able, version, call, asked, made>>

\* External: a server resolves its own actions, and answers with an error for others.
Resolves(s, a) == s = a.server
Resolved(a) == [a EXCEPT !.edit = a.latent]

AskedToResolve == Servers

\* ... and the first answer is taken.
ResolveAnswer(a) ==
  /\ a \in resolving
  /\ resolving' = resolving \ {a}
  /\ IF \E s \in AskedToResolve : Resolves(s, a)
     THEN Do(Resolved(a), FALSE, FALSE)
     ELSE UNCHANGED toServer
  /\ UNCHANGED <<able, version, call, asked, made>>

-----------------------------------------------------------------------------
(***************************************************************************)
(* The answers.                                                            *)
(***************************************************************************)

Answers(c, s) ==
  {Failure, Null} \cup
    {List(actions) : actions \in
       SUBSET (IF Only(c, s) = "kinds" THEN {a \in Actions[s] : a.kind} ELSE Actions[s])}

Offered(c) == UNION {c.results[s].actions : s \in able}
Succeeded(c) == {s \in able : c.results[s] # Failure}

\* No server has an action for a range within lines.
AskAgain(c) ==
  c.way # "hook" /\ c.start = "inside" /\ \A s \in Succeeded(c) : c.results[s] = List({})

\* Mutation: the ranges are of an older version.
AlwaysFresh(c) == TRUE
Fresh(c) == c.version = version

\* The single action that a synchronous request or a regex calls for.
Single(c) == c.way = "sync" \/ c.filter = "regex"
Wanted(c) == {a \in Offered(c) : c.filter = "regex" => a.title}

End(c, outcome, pick) == call' = [c EXCEPT !.outcome = outcome, !.pick = pick]

\* editor_code_actions, all answers being in.
EditorCodeActions(c) ==
  \/ /\ Succeeded(c) = {}
     /\ End(c, "dropped", {}) /\ UNCHANGED <<asked, toServer>>
  \/ /\ Succeeded(c) # {} /\ AskAgain(c)
     /\ IF Fresh(c)
        THEN Ask([c EXCEPT !.start = "line", !.round = @ + 1, !.waiting = able])
        ELSE End(c, "stale", {}) /\ UNCHANGED asked
     /\ UNCHANGED toServer
  \/ /\ Succeeded(c) # {} /\ ~AskAgain(c) /\ Single(c)
     /\ IF Cardinality(Wanted(c)) = 1
        THEN /\ End(c, "done", Wanted(c))
             /\ \A a \in Wanted(c) : Do(a, c.way = "sync", MayResolve(a))
        ELSE End(c, "error", {}) /\ UNCHANGED toServer
     /\ UNCHANGED asked
  \/ /\ Succeeded(c) # {} /\ ~AskAgain(c) /\ ~Single(c)
     /\ End(c, IF c.way = "hook" THEN "indicator"
               ELSE IF Offered(c) = {} THEN "error" ELSE "menu", {})
     /\ UNCHANGED <<asked, toServer>>

Answer(s, answer) ==
  /\ s \in call.waiting
  /\ LET c == [call EXCEPT !.waiting = @ \ {s}, !.results[s] = answer] IN
       IF c.waiting = {} THEN EditorCodeActions(c)
       ELSE call' = c /\ UNCHANGED <<asked, toServer>>
  /\ UNCHANGED <<able, version, resolving, made>>

\* The user chooses from the menu, at any time later.
Choose(a) ==
  /\ call.outcome = "menu" /\ a \in Offered(call)
  /\ End(call, "done", {a})
  /\ Do(a, FALSE, MayResolve(a))
  /\ UNCHANGED <<able, version, asked, resolving, made>>

Next ==
  \/ \E w \in Ways, start \in {"inside", "line"}, first \in able : Request(w, start, first)
  \/ Type
  \/ \E s \in call.waiting : \E answer \in Answers(call, s) : Answer(s, answer)
  \/ \E a \in Offered(call) : Choose(a)
  \/ Perform
  \/ Resolve
  \/ \E a \in resolving : ResolveAnswer(a)

Spec == Init /\ [][Next]_vars

-----------------------------------------------------------------------------
(***************************************************************************)
(* Properties.                                                             *)
(***************************************************************************)

\* Servers are only asked about ranges of the text they were told of last, also when a
\* request is repeated after its answers (code_action.rs 150-159).
RangesAreCurrent == \A r \in asked : r.of = r.sentAt

\* A request is repeated once at most, whatever servers answer (code_action.rs 134-144).
AskedAgainOnce == \A r \in asked : r.round <= 2

\* What is left of "only show matching code actions" (lsp.kak 921): the offers of one
\* of the servers have the kinds that were asked for, unless the request was repeated.
KindsAsked ==
  call.filter = "kinds" /\ call.round = 1 =>
    \E s \in able : \A a \in Offered(call) : a.server = s => a.kind

\* What doing an action comes to: its edit, given or found by its server, then its command.
Meaning(a) ==
  LET edit == a.form = "action" /\ (a.edit \/ (MayResolve(a) /\ a.latent)) IN
  (IF edit THEN <<[what |-> "edit", server |-> First]>> ELSE <<>>)
    \o (IF a.command THEN <<[what |-> "command", server |-> a.server]>> ELSE <<>>)

\* The action of a call is done once and as a whole, the edit before the command, by the
\* server that offered it, and nothing else is done (code_action.rs 343-440).
ActionIsDone ==
  LET did == [n \in DOMAIN made |-> [what |-> made[n].what, server |-> made[n].server]]
  IN /\ call.pick = {} => did = <<>>
     /\ toServer = <<>> /\ resolving = {} => \A a \in call.pick : did = Meaning(a)

\* A synchronous request makes its edit in the text that it was asked about, unless the
\* edit has yet to be resolved (lsp.kak 941, code_action.rs 386-392).
SyncIsCurrent ==
  call.way = "sync" =>
    \A a \in call.pick, n \in DOMAIN made : a.edit => made[n].version = call.version

\* All of this.
ActionsAreDone ==
  RangesAreCurrent /\ AskedAgainOnce /\ KindsAsked /\ ActionIsDone /\ SyncIsCurrent

=============================================================================
