----------------------------- MODULE Completion -----------------------------
(***************************************************************************)
(* Completions and the edits that come with them (completion.rs and        *)
(* lsp-completion in lsp.kak).  kak-lsp keeps the items of the last list   *)
(* it got and sends the list to the editor.  A choice in the editor's menu *)
(* goes back as an index into the list, with the version of the buffer the *)
(* list was made for: when an item is selected, to show its documentation, *)
(* and when it is accepted, to make its additional edits.                  *)
(*                                                                         *)
(* Messages between kak-lsp and the editor are in order and take time;     *)
(* answers of servers come in any order.  The editor's menu is external.   *)
(***************************************************************************)
EXTENDS Integers, Sequences

CONSTANTS
  Clients, Buffers,
  MaxLists,   \* bound: lists asked for
  MaxLength,  \* bound: items of a list
  MaxVersion, \* bound: version of a buffer
  MaxChoices  \* bound: requests made by the editor's menu and not yet dealt with

VARIABLES
  provider,  \* whether items come with their edits, or with a server that resolves them
  version,   \* of each buffer in the editor
  at,        \* the buffer each client shows
  window,    \* options and menu of each client's window of each buffer
  lists,     \* lists asked for: by whom, for which version
  calls,     \* those not yet answered
  items,     \* completion_items, completion_items_timestamp, completion_last_client
  toEditor,  \* lists under way to the editor
  requests,  \* completionItem/resolve under way from the editor
  resolving, \* completionItem/resolve under way to servers
  edited     \* history: choices accepted, and whose edits were made for them

editor == <<provider, version, at, window>>
server == <<lists, calls, items, toEditor>>
vars == <<editor, server, requests, resolving, edited>>

-----------------------------------------------------------------------------

NoChoice == [list |-> 0, index |-> 0]

\* The last two are history.
NoWindow == [list |-> 0, length |-> 0, \* lsp_completions
             timestamp |-> -1,         \* lsp_completions_timestamp
             selected |-> 0,           \* lsp_completions_selected_item
             hook |-> FALSE,           \* lsp-completion-on-accept
             choice |-> NoChoice,      \* what the user has chosen, and in a menu of how many
             size |-> 0,
             astray |-> FALSE]         \* are options or hook those of another choice?

Init ==
  /\ provider \in {"resolve", "edits"}
  /\ version = [b \in Buffers |-> 1]
  /\ at \in [Clients -> Buffers]
  /\ window = [c \in Clients |-> [b \in Buffers |-> NoWindow]]
  /\ lists = <<>> /\ calls = {}
  /\ items = [list |-> 0, length |-> 0, timestamp |-> MaxVersion + 1, client |-> "none"]
  /\ toEditor = <<>> /\ requests = <<>> /\ resolving = {} /\ edited = {}

Here(c) == window[c][at[c]]
SetHere(c, w) == window' = [window EXCEPT ![c][at[c]] = w]
Choosing(c) == Here(c).choice # NoChoice

-----------------------------------------------------------------------------
(***************************************************************************)
(* The editor.                                                             *)
(***************************************************************************)

Switch(c, b) ==
  /\ ~Choosing(c) /\ at[c] # b
  /\ at' = [at EXCEPT ![c] = b]
  /\ UNCHANGED <<provider, version, window, server, requests, resolving, edited>>

Changed(b) == version[b] < MaxVersion /\ version' = [version EXCEPT ![b] = @ + 1]

Type(c) ==
  /\ ~Choosing(c) /\ Changed(at[c])
  /\ UNCHANGED <<provider, at, window, server, requests, resolving, edited>>

\* lsp-completion, whenever insert mode is idle, an item chosen or not.
Idle(c) ==
  /\ Len(lists) < MaxLists
  /\ lists' = Append(lists, [client |-> c, version |-> version[at[c]]])
  /\ calls' = calls \cup {Len(lists')}
  /\ UNCHANGED <<editor, items, toEditor, requests, resolving, edited>>

\* set-option window lsp_completions, in whatever window the client shows; the menu
\* stays as it is while an item is chosen.
SetCompletions ==
  /\ toEditor # <<>> /\ toEditor' = Tail(toEditor)
  /\ LET e == Head(toEditor) IN
     SetHere(e.client, [Here(e.client) EXCEPT
       !.list = e.list, !.length = e.length, !.timestamp = e.timestamp, !.astray = @ \/ Choosing(e.client)])
  /\ UNCHANGED <<provider, version, at, lists, calls, items, requests, resolving, edited>>

\* lsp-completion-item-resolve-request.
ResolveRequest(c, w, pager) ==
  /\ Len(requests) < MaxChoices
  /\ requests' = Append(requests, [client |-> c, timestamp |-> w.timestamp, index |-> w.selected,
                                   pager |-> pager, choice |-> w.choice, astray |-> w.astray])

\* The commands of an item: it is selected, the last one's hook is removed; if the
\* server resolves items that is asked for at once; a hook is left for the acceptance.
Select(c, index) ==
  /\ LET here == Here(c)
         list == IF Choosing(c) THEN here.choice.list ELSE here.list
         size == IF Choosing(c) THEN here.size ELSE here.length
         now == [here EXCEPT !.selected = index, !.hook = TRUE, !.size = size,
                             !.choice = [list |-> list, index |-> index],
                             !.astray = here.list # list] IN
     /\ Choosing(c) \/ here.timestamp \in 0..version[at[c]]
     /\ index < size
     /\ SetHere(c, now)
     /\ IF provider = "resolve" THEN ResolveRequest(c, now, TRUE) ELSE UNCHANGED requests
  /\ Changed(at[c])
  /\ UNCHANGED <<provider, at, server, resolving, edited>>

\* InsertCompletionHide: the chosen item's text stays in the buffer.
Accept(c) ==
  /\ Choosing(c)
  /\ SetHere(c, [Here(c) EXCEPT !.hook = FALSE, !.choice = NoChoice, !.size = 0, !.astray = FALSE])
  /\ ResolveRequest(c, Here(c), FALSE)
  /\ UNCHANGED <<provider, version, at, server, resolving, edited>>

\* The user goes back to the text before: the hook stays.
Dismiss(c) ==
  /\ Choosing(c)
  /\ SetHere(c, [Here(c) EXCEPT !.choice = NoChoice, !.size = 0, !.astray = TRUE])
  /\ UNCHANGED <<provider, version, at, server, requests, resolving, edited>>

\* A completion by something else is accepted, and finds the hook.
AcceptOther(c) ==
  /\ ~Choosing(c) /\ Here(c).hook
  /\ SetHere(c, [Here(c) EXCEPT !.hook = FALSE, !.astray = FALSE])
  /\ ResolveRequest(c, Here(c), FALSE)
  /\ UNCHANGED <<provider, version, at, server, resolving, edited>>

-----------------------------------------------------------------------------
(***************************************************************************)
(* kak-lsp.                                                                *)
(***************************************************************************)

\* editor_completion: the editor is not told of an empty list.
EditorCompletion(l, length) ==
  /\ l \in calls /\ calls' = calls \ {l}
  /\ items' = [list |-> l, length |-> length, timestamp |-> lists[l].version, client |-> lists[l].client]
  /\ toEditor' = IF length = 0 THEN toEditor ELSE Append(toEditor, items')
  /\ UNCHANGED <<editor, lists, requests, resolving, edited>>

\* Mutation: a list of another client is taken for this one's.
WantedAnyClient(r) == r.timestamp = items.timestamp /\ r.index < items.length

\* Mutation: a list of another version is taken for this one.
WantedAnyVersion(r) == r.client = items.client /\ r.index < items.length

\* The early returns of completion_item_resolve.
Wanted(r) == r.client = items.client /\ r.timestamp = items.timestamp /\ r.index < items.length

Made(r, item) == edited' = edited \cup {[choice |-> r.choice, astray |-> r.astray, item |-> item]}

\* For an accepted item the list is given up; its edits are made at once if it has any.
\* Otherwise the server is asked, unless there is nothing more to say about the item.
CompletionItemResolve ==
  /\ requests # <<>> /\ requests' = Tail(requests)
  /\ LET r == Head(requests)
         item == [list |-> items.list, index |-> r.index] IN
     IF ~Wanted(r) THEN UNCHANGED <<items, resolving, edited>>
     ELSE /\ items' = IF r.pager THEN items ELSE [items EXCEPT !.length = 0]
          /\ IF provider = "edits" THEN Made(r, item) /\ UNCHANGED resolving
             ELSE /\ \/ resolving' = resolving \cup {[request |-> r, item |-> item]}
                     \/ r.pager /\ UNCHANGED resolving
                  /\ UNCHANGED edited
  /\ UNCHANGED <<editor, lists, calls, toEditor>>

\* The server's answer: documentation to show, or edits to make.
EditorCompletionItemResolve(a) ==
  /\ a \in resolving /\ resolving' = resolving \ {a}
  /\ IF a.request.pager THEN UNCHANGED edited ELSE Made(a.request, a.item)
  /\ UNCHANGED <<editor, server, requests>>

-----------------------------------------------------------------------------

Next ==
  \/ \E c \in Clients :
       \/ \E b \in Buffers : Switch(c, b)
       \/ Type(c) \/ Idle(c) \/ Accept(c) \/ Dismiss(c) \/ AcceptOther(c)
       \/ \E index \in 0..MaxLength - 1 : Select(c, index)
  \/ SetCompletions
  \/ \E l \in calls, length \in 0..MaxLength : EditorCompletion(l, length)
  \/ CompletionItemResolve
  \/ \E a \in resolving : EditorCompletionItemResolve(a)

Spec == Init /\ [][Next]_vars

-----------------------------------------------------------------------------
(***************************************************************************)
(* Properties.                                                             *)
(***************************************************************************)

\* Two lists that kak-lsp cannot tell apart.
Twins == \E l, m \in 1..Len(lists) : l # m /\ lists[l] = lists[m]

\* The edits made for an accepted item are its own, whatever lists came for whom in the
\* meantime; unless a client asks twice without a change, a list comes while an item of
\* the last one is chosen, or an item was dismissed, whose hook is still there.
EditsOfAccepted == Twins \/ \A e \in edited : e.astray \/ e.item = e.choice

=============================================================================
