---------------------------- MODULE ServerMessages ----------------------------
(***************************************************************************)
(* Messages of servers that the user answers or sees (show_message.rs,     *)
(* progress.rs): message requests wait in a queue until the user asks for  *)
(* the next one and chooses an item; work in progress is shown by an       *)
(* hourglass in the modeline.                                              *)
(*                                                                         *)
(* Servers number their own requests and tokens, so that those of two      *)
(* servers may be equal.  The menu and the modeline are external.          *)
(***************************************************************************)
EXTENDS Integers, Sequences

CONSTANTS Servers, Ids, Tokens

VARIABLES
  queue,    \* ctx.pending_message_requests
  bell,     \* number of requests shown in the modeline
  menus,    \* menus open in the editor; each knows the id and, for us, whose it is
  asked,    \* requests that servers made and the answers they got for them, in order
  crossed,  \* was a response given in a buffer not served by just the one that asked?
  progress, \* ctx.work_done_progress: tokens created, and whether they have begun
  working,  \* what servers are busy with
  created,  \* tokens that servers created, each only once
  hourglass \* is shown in the modeline

vars == <<queue, bell, menus, asked, crossed, progress, working, created, hourglass>>
messages == <<queue, bell, menus, asked, crossed>>
works == <<progress, working, created, hourglass>>

-----------------------------------------------------------------------------
(***************************************************************************)
(* window/showMessageRequest                                               *)
(***************************************************************************)

\* A reply counts for the server's own request of that number.
Reply(requests, servers, id, answer) ==
  [r \in DOMAIN requests |->
    IF r[1] \in servers /\ r[2] = id THEN Append(requests[r], answer) ELSE requests[r]]

ShowMessageRequest(s, id, actions) ==
  /\ <<s, id>> \notin DOMAIN asked
  /\ asked' = [r \in DOMAIN asked \cup {<<s, id>>} |-> IF r = <<s, id>> THEN <<>> ELSE asked[r]]
  /\ queue' = Append(queue, [server |-> s, id |-> id, actions |-> actions])
  /\ bell' = Len(queue')
  /\ UNCHANGED <<menus, crossed, works>>

\* Mutation: a request without actions is forgotten once it was shown.
ShowWithoutReply(requests, r) == requests

\* A request without actions is no more than a message: it is answered at once.
ShowWithoutActions(requests, r) == Reply(requests, {r.server}, r.id, <<r.server, r.id>>)

ShowNext ==
  /\ queue # <<>>
  /\ LET r == Head(queue) IN
     /\ queue' = Tail(queue) /\ bell' = Len(queue')
     /\ IF r.actions
        THEN menus' = menus \cup {<<r.server, r.id>>} /\ UNCHANGED asked
        ELSE asked' = ShowWithoutActions(asked, r) /\ UNCHANGED menus
  /\ UNCHANGED <<crossed, works>>

\* The user chooses an item, or leaves the menu; the response goes to all servers of the
\* buffer.
Respond(menu, servers) ==
  /\ menu \in menus
  /\ menus' = menus \ {menu}
  /\ asked' = Reply(asked, servers, menu[2], menu)
  /\ crossed' = (crossed \/ servers # {menu[1]})
  /\ UNCHANGED <<queue, bell, works>>

-----------------------------------------------------------------------------
(***************************************************************************)
(* $/progress.  Tokens are kept without their server.                      *)
(***************************************************************************)

Create(s, t) ==
  /\ <<s, t>> \notin created /\ created' = created \cup {<<s, t>>}
  /\ progress' = IF t \in DOMAIN progress THEN progress
                 ELSE [u \in DOMAIN progress \cup {t} |-> IF u = t THEN "created" ELSE progress[u]]
  /\ UNCHANGED <<messages, working, hourglass>>

Begun(t) == t \in DOMAIN progress /\ progress[t] = "begun"

Begin(s, t) ==
  /\ <<s, t>> \in created /\ <<s, t>> \notin working
  /\ working' = working \cup {<<s, t>>}
  /\ IF t \in DOMAIN progress /\ ~Begun(t)
     THEN progress' = [progress EXCEPT ![t] = "begun"] /\ hourglass' = TRUE
     ELSE UNCHANGED <<progress, hourglass>>
  /\ UNCHANGED <<messages, created>>

\* Reports within a second of the last one, of any token, are dropped.
Report(s, t) ==
  /\ <<s, t>> \in working
  /\ hourglass' \in {hourglass, IF Begun(t) THEN TRUE ELSE hourglass}
  /\ UNCHANGED <<messages, progress, working, created>>

\* Mutation: an end that comes fast is dropped like a report.
HourglassSlow(t) == hourglass

HourglassAfter(t) == IF Begun(t) THEN FALSE ELSE hourglass

End(s, t) ==
  /\ <<s, t>> \in working /\ working' = working \ {<<s, t>>}
  /\ created' = created \ {<<s, t>>}
  /\ progress' = [u \in DOMAIN progress \ {t} |-> progress[u]]
  /\ hourglass' = HourglassAfter(t)
  /\ UNCHANGED messages

-----------------------------------------------------------------------------

Init ==
  /\ queue = <<>> /\ bell = 0 /\ menus = {} /\ asked = <<>> /\ crossed = FALSE
  /\ progress = <<>> /\ working = {} /\ created = {} /\ hourglass = FALSE

NextMessage ==
  \/ \E s \in Servers, id \in Ids, actions \in BOOLEAN : ShowMessageRequest(s, id, actions)
  \/ ShowNext
  \/ \E menu \in menus, servers \in (SUBSET Servers) \ {{}} : Respond(menu, servers)

NextProgress ==
  \E s \in Servers, t \in Tokens : Create(s, t) \/ Begin(s, t) \/ Report(s, t) \/ End(s, t)

Next == NextMessage \/ NextProgress

Spec == Init /\ [][Next]_vars

-----------------------------------------------------------------------------
(***************************************************************************)
(* Properties.                                                             *)
(***************************************************************************)

\* As long as the user responds in buffers that only the asking server serves, each
\* request that left the queue and its menu has got one answer, which is its own, and
\* no other has got any.  The modeline tells how many are waiting.
MessagesAnswered ==
  /\ bell = Len(queue)
  /\ ~crossed => \A r \in DOMAIN asked :
       asked[r] = IF r \in menus \/ \E k \in 1..Len(queue) : <<queue[k].server, queue[k].id>> = r
                  THEN <<>> ELSE <<r>>

\* The hourglass is gone once every server has ended its work, even when servers use
\* equal tokens and reports are dropped.
HourglassOnlyWhenBusy == hourglass => working # {}

=============================================================================
