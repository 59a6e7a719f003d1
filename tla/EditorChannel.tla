--------------------------- MODULE EditorChannel ---------------------------
(***************************************************************************)
(* What the fifos and the threads behind them promise the event loop: the  *)
(* editor's messages, in the order they were sent, each with its own text. *)
(* A message with an option that cannot be parsed is refused, as a whole.  *)
(***************************************************************************)
EXTENDS Sequences

CONSTANT Content  \* what messages are made of

VARIABLES
  queue,  \* sent, not yet taken
  taken   \* history: handed to the event loop

vars == <<queue, taken>>

Init == queue = <<>> /\ taken = <<>>

Send(m) == queue' = Append(queue, m) /\ UNCHANGED taken

Take ==
  /\ queue # <<>>
  /\ taken' = Append(taken, Head(queue))
  /\ queue' = Tail(queue)

Refuse ==
  /\ queue # <<>> /\ Head(queue).broken
  /\ queue' = Tail(queue)
  /\ UNCHANGED taken

Next == (\E m \in Content : Send(m)) \/ Take \/ Refuse

Spec == Init /\ [][Next]_vars
=============================================================================
