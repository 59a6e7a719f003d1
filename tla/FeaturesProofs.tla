--------------------------- MODULE FeaturesProofs ---------------------------
(***************************************************************************)
(* Proofs about the parts of Features that have state, for any values of   *)
(* their constants.  Code actions are reasoned about in CodeActionsProofs, *)
(* diagnostics and positions in DataProofs.                                *)
(***************************************************************************)
EXTENDS Features, FiniteSetTheorems, NaturalsInduction, WellFoundedInduction, SequenceTheorems,
        TLAPS

-----------------------------------------------------------------------------
(***************************************************************************)
(* Message requests.                                                       *)
(***************************************************************************)

Asker == Servers \X Ids
Item == [server : Servers, id : Ids, actions : BOOLEAN]
KeyOf(k) == <<queue[k].server, queue[k].id>>
Queued(r) == \E k \in 1..Len(queue) : KeyOf(k) = r

\* Requests are numbered by the server that made them.
MessagesTyped ==
  /\ queue \in Seq(Item)
  /\ menus \subseteq Asker
  /\ DOMAIN asked \subseteq Asker
  /\ asked = [r \in DOMAIN asked |-> asked[r]]

\* A request is at one place at most: it waits once, or it has a menu.
OnePlace ==
  /\ \A k \in 1..Len(queue) : KeyOf(k) \in DOMAIN asked \ menus
  /\ \A j, k \in 1..Len(queue) : KeyOf(j) = KeyOf(k) => j = k
  /\ menus \subseteq DOMAIN asked

MessagesInv == MessagesTyped /\ OnePlace /\ Message!MessagesAnswered

LEMMA MessagesInit == Message!Init => MessagesInv
<1> SUFFICES ASSUME Message!Init PROVE MessagesInv
  OBVIOUS
<1>1. queue = <<>> /\ Len(queue) = 0 /\ menus = {} /\ bell = 0
  BY DEF Message!Init
<1>2. asked = <<>> /\ DOMAIN asked = {}
  BY DEF Message!Init
<1>3. asked = [r \in DOMAIN asked |-> asked[r]]
  BY <1>2
<1>4. QED BY <1>1, <1>2, <1>3 DEF MessagesInv, MessagesTyped, OnePlace, Message!MessagesAnswered

\* A new request goes to the end of the queue.
LEMMA RequestStep ==
  ASSUME MessagesInv, NEW s \in Servers, NEW id \in Ids, NEW actions \in BOOLEAN,
         Message!ShowMessageRequest(s, id, actions)
  PROVE  MessagesInv'
<1> DEFINE item == [server |-> s, id |-> id, actions |-> actions]
<1>1. /\ item \in Item
      /\ item.server = s /\ item.id = id
      /\ queue' = Append(queue, item)
      /\ menus' = menus /\ crossed' = crossed /\ bell' = Len(queue')
      /\ <<s, id>> \notin DOMAIN asked
      /\ asked' = [r \in DOMAIN asked \cup {<<s, id>>} |-> IF r = <<s, id>> THEN <<>> ELSE asked[r]]
  BY DEF Message!ShowMessageRequest, Item
<1> HIDE DEF item
<1>2. queue \in Seq(Item)
  BY DEF MessagesInv, MessagesTyped
<1>0. PICK n \in Nat : n = Len(queue)
  BY <1>2
<1>3. /\ queue' \in Seq(Item)
      /\ Len(queue') = n + 1
      /\ queue'[n + 1] = item
      /\ \A k \in 1..n : queue'[k] = queue[k]
  BY <1>0, <1>1, <1>2
<1>4. KeyOf(n + 1)' = <<s, id>> /\ \A k \in 1..n : KeyOf(k)' = KeyOf(k)
  BY <1>1, <1>3 DEF KeyOf
<1>5. /\ DOMAIN asked' = DOMAIN asked \cup {<<s, id>>}
      /\ asked'[<<s, id>>] = <<>>
      /\ \A r \in DOMAIN asked : asked'[r] = asked[r]
  BY <1>1
<1>6. \A r : Queued(r)' <=> Queued(r) \/ r = <<s, id>>
  <2>1. \A r, k : k \in 1..n + 1 <=> k \in 1..n \/ k = n + 1
    BY <1>0
  <2>2. QED BY <1>0, <1>3, <1>4, <2>1 DEF Queued
<1>7. MessagesTyped'
  BY <1>1, <1>3, <1>5 DEF MessagesInv, MessagesTyped, Asker
<1>8. OnePlace'
  <2>1. \A k \in 1..n : KeyOf(k) # <<s, id>>
    BY <1>0, <1>1 DEF MessagesInv, OnePlace
  <2>2. <<s, id>> \notin menus
    BY <1>1 DEF MessagesInv, OnePlace
  <2>3. \A k \in 1..n + 1 : k \in 1..n \/ k = n + 1
    BY <1>0
  <2>4. \A k \in 1..n + 1 : KeyOf(k)' \in DOMAIN asked' \ menus'
    <3>1. ASSUME NEW k \in 1..n PROVE KeyOf(k) \in DOMAIN asked \ menus
      BY <1>0 DEF MessagesInv, OnePlace
    <3>2. ASSUME NEW k \in 1..n + 1 PROVE KeyOf(k)' \in DOMAIN asked' \ menus'
      <4>1. CASE k \in 1..n
        BY <1>1, <1>4, <1>5, <3>1, <4>1
      <4>2. CASE k = n + 1
        BY <1>1, <1>4, <1>5, <2>2, <4>2
      <4>3. QED BY <2>3, <4>1, <4>2
    <3>3. QED BY <3>2
  <2>5. \A j, k \in 1..n + 1 : KeyOf(j)' = KeyOf(k)' => j = k
    BY <1>0, <1>4, <2>1, <2>3 DEF MessagesInv, OnePlace
  <2>6. QED BY <1>1, <1>3, <1>5, <2>4, <2>5 DEF MessagesInv, OnePlace
<1>9. Message!MessagesAnswered'
  <2>1. ASSUME ~crossed, NEW r \in DOMAIN asked'
        PROVE  asked'[r] = IF r \in menus \/ Queued(r)' THEN <<>> ELSE <<r>>
    BY <1>1, <1>5, <1>6, <2>1 DEF MessagesInv, Message!MessagesAnswered, Queued, KeyOf
  <2>2. QED BY <1>1, <2>1 DEF Message!MessagesAnswered, Queued, KeyOf
<1>10. QED BY <1>7, <1>8, <1>9 DEF MessagesInv

\* The answer to one request, by the server that made it, changes that of no other.
LEMMA ReplyOne ==
  ASSUME DOMAIN asked \subseteq Asker, NEW s \in Servers, NEW id \in Ids, NEW given,
         NEW after, after = Message!Reply(asked, {s}, id, given)
  PROVE  /\ DOMAIN after = DOMAIN asked
         /\ after = [r \in DOMAIN after |-> after[r]]
         /\ \A r \in DOMAIN asked :
              after[r] = IF r = <<s, id>> THEN Append(asked[r], given) ELSE asked[r]
<1>1. \A r \in DOMAIN asked : r[1] \in {s} /\ r[2] = id <=> r = <<s, id>>
  BY DEF Asker
<1>2. QED BY <1>1 DEF Message!Reply

\* The first request leaves the queue for a menu, or is answered.
LEMMA ShowStep ==
  ASSUME MessagesInv, Message!ShowNext
  PROVE  MessagesInv'
<1>0. PICK r0 : r0 = <<Head(queue).server, Head(queue).id>>
  OBVIOUS
<1>1. /\ queue \in Seq(Item) /\ queue # <<>>
      /\ queue' = Tail(queue) /\ bell' = Len(queue') /\ crossed' = crossed
  BY DEF MessagesInv, MessagesTyped, Message!ShowNext
<1>2. /\ queue' \in Seq(Item)
      /\ Len(queue') = Len(queue) - 1 /\ Len(queue) \in Nat /\ Len(queue) > 0
      /\ queue[1] = Head(queue)
      /\ Head(queue) \in Item
      /\ \A k \in 1..Len(queue') : queue'[k] = queue[k + 1]
  BY <1>1
<1>3. r0 \in Asker /\ KeyOf(1) = r0 /\ \A k \in 1..Len(queue') : KeyOf(k)' = KeyOf(k + 1)
  BY <1>0, <1>2 DEF Item, Asker, KeyOf
<1>4. r0 \in DOMAIN asked /\ r0 \notin menus
  BY <1>2, <1>3 DEF MessagesInv, OnePlace
<1>5. \A k \in 1..Len(queue') : KeyOf(k + 1) # r0
  <2> SUFFICES ASSUME NEW k \in 1..Len(queue'), KeyOf(k + 1) = r0 PROVE FALSE
    OBVIOUS
  <2>1. k + 1 \in 1..Len(queue) /\ 1 \in 1..Len(queue) /\ k + 1 # 1
    BY <1>2
  <2>2. QED BY <1>3, <2>1 DEF MessagesInv, OnePlace
<1>6. \A r : Queued(r) <=> Queued(r)' \/ r = r0
  <2>1. ASSUME NEW r, Queued(r), r # r0 PROVE Queued(r)'
    <3>1. PICK k \in 1..Len(queue) : KeyOf(k) = r
      BY <2>1 DEF Queued
    <3>2. k # 1 /\ k - 1 \in 1..Len(queue') /\ (k - 1) + 1 = k
      BY <1>2, <1>3, <2>1, <3>1
    <3>3. KeyOf(k - 1)' = KeyOf((k - 1) + 1)
      BY <1>3, <3>2
    <3>4. QED BY <3>1, <3>2, <3>3 DEF Queued
  <2>2. ASSUME NEW r, Queued(r)' PROVE Queued(r)
    <3>1. PICK k \in 1..Len(queue') : KeyOf(k)' = r
      BY <2>2 DEF Queued
    <3>2. k + 1 \in 1..Len(queue)
      BY <1>2
    <3>3. QED BY <1>3, <3>1, <3>2 DEF Queued
  <2>3. Queued(r0)
    <3>1. 1 \in 1..Len(queue)
      BY <1>2
    <3>2. QED BY <1>3, <3>1 DEF Queued
  <2>4. QED BY <2>1, <2>2, <2>3
<1>7. ~Queued(r0)'
  BY <1>3, <1>5 DEF Queued
<1>8. \A k \in 1..Len(queue') : KeyOf(k)' \in DOMAIN asked \ menus
  <2>1. \A k \in 1..Len(queue') : k + 1 \in 1..Len(queue)
    BY <1>2
  <2>2. QED BY <1>3, <2>1 DEF MessagesInv, OnePlace
<1>9. \A j, k \in 1..Len(queue') : KeyOf(j)' = KeyOf(k)' => j = k
  <2> SUFFICES ASSUME NEW j \in 1..Len(queue'), NEW k \in 1..Len(queue'), KeyOf(j)' = KeyOf(k)'
               PROVE  j = k
    OBVIOUS
  <2>1. j + 1 \in 1..Len(queue) /\ k + 1 \in 1..Len(queue)
    BY <1>2
  <2>2. j + 1 = k + 1
    BY <1>3, <2>1 DEF MessagesInv, OnePlace
  <2>3. QED BY <2>2
<1>10. CASE menus' = menus \cup {r0} /\ UNCHANGED asked
  <2>1. MessagesTyped'
    BY <1>2, <1>3, <1>10 DEF MessagesInv, MessagesTyped
  <2>2. OnePlace'
    BY <1>3, <1>4, <1>5, <1>8, <1>9, <1>10 DEF MessagesInv, OnePlace
  <2>3. Message!MessagesAnswered'
    <3>1. ASSUME ~crossed, NEW r \in DOMAIN asked
          PROVE  asked[r] = IF r \in menus' \/ Queued(r)' THEN <<>> ELSE <<r>>
      BY <1>6, <1>10, <3>1 DEF MessagesInv, Message!MessagesAnswered, Queued, KeyOf
    <3>2. QED BY <1>1, <1>10, <3>1 DEF Message!MessagesAnswered, Queued, KeyOf
  <2>4. QED BY <2>1, <2>2, <2>3 DEF MessagesInv
<1>11. CASE asked' = Message!Reply(asked, {Head(queue).server}, Head(queue).id, r0) /\ UNCHANGED menus
  <2>1. /\ DOMAIN asked' = DOMAIN asked
        /\ asked' = [r \in DOMAIN asked' |-> asked'[r]]
        /\ \A r \in DOMAIN asked :
             asked'[r] = IF r = r0 THEN Append(asked[r], r0) ELSE asked[r]
    <3>1. Head(queue).server \in Servers /\ Head(queue).id \in Ids /\ DOMAIN asked \subseteq Asker
      BY <1>2 DEF Item, MessagesInv, MessagesTyped
    <3>2. QED BY <1>0, <1>11, <3>1, ReplyOne
  <2>2. MessagesTyped'
    BY <1>2, <1>11, <2>1 DEF MessagesInv, MessagesTyped
  <2>3. OnePlace'
    BY <1>8, <1>9, <1>11, <2>1 DEF MessagesInv, OnePlace
  <2>4. Message!MessagesAnswered'
    <3>1. ASSUME ~crossed, NEW r \in DOMAIN asked
          PROVE  asked'[r] = IF r \in menus \/ Queued(r)' THEN <<>> ELSE <<r>>
      <4>1. asked[r] = IF r \in menus \/ Queued(r) THEN <<>> ELSE <<r>>
        BY <3>1 DEF MessagesInv, Message!MessagesAnswered, Queued, KeyOf
      <4>2. CASE r = r0
        <5>1. asked[r] = <<>>
          BY <1>6, <4>1, <4>2
        <5>2. asked'[r] = <<r0>>
          <6>1. Append(<<>>, r0) = <<r0>>
            OBVIOUS
          <6>2. QED BY <2>1, <3>1, <4>2, <5>1, <6>1
        <5>3. QED BY <1>4, <1>7, <4>2, <5>2
      <4>3. CASE r # r0
        BY <1>6, <2>1, <3>1, <4>1, <4>3
      <4>4. QED BY <4>2, <4>3
    <3>2. QED BY <1>1, <1>11, <2>1, <3>1 DEF Message!MessagesAnswered, Queued, KeyOf
  <2>5. QED BY <2>2, <2>3, <2>4 DEF MessagesInv
<1>12. QED BY <1>0, <1>10, <1>11 DEF Message!ShowNext, Message!ShowWithoutActions

\* The user's response closes the menu and answers its request.
LEMMA RespondStep ==
  ASSUME MessagesInv, NEW menu \in menus, NEW servers \in (SUBSET Servers) \ {{}},
         Message!Respond(menu, servers)
  PROVE  MessagesInv'
<1>1. /\ menus' = menus \ {menu} /\ UNCHANGED <<queue, bell>>
      /\ asked' = Message!Reply(asked, servers, menu[2], menu)
      /\ crossed' = (crossed \/ servers # {menu[1]})
  BY DEF Message!Respond
<1>2. menu \in Asker /\ menu = <<menu[1], menu[2]>> /\ menu[1] \in Servers /\ menu[2] \in Ids
  BY DEF MessagesInv, MessagesTyped, Asker
<1>3. DOMAIN asked' = DOMAIN asked /\ asked' = [r \in DOMAIN asked' |-> asked'[r]]
  BY <1>1 DEF Message!Reply
<1>4. MessagesTyped'
  BY <1>1, <1>3 DEF MessagesInv, MessagesTyped
<1>5. OnePlace'
  BY <1>1, <1>3 DEF MessagesInv, OnePlace, KeyOf
<1>6. Message!MessagesAnswered'
  <2>1. ASSUME ~crossed', NEW r \in DOMAIN asked
        PROVE  asked'[r] = IF r \in menus' \/ Queued(r) THEN <<>> ELSE <<r>>
    <3>1. ~crossed /\ servers = {menu[1]}
      BY <1>1, <2>1
    <3>2. asked'[r] = IF r = menu THEN Append(asked[r], menu) ELSE asked[r]
      <4>1. DOMAIN asked \subseteq Asker
        BY DEF MessagesInv, MessagesTyped
      <4>2. asked' = Message!Reply(asked, {menu[1]}, menu[2], menu)
        BY <1>1, <3>1
      <4>3. PICK s \in Servers, id \in Ids : s = menu[1] /\ id = menu[2] /\ menu = <<s, id>>
        BY <1>2
      <4>4. asked' = Message!Reply(asked, {s}, id, menu)
        BY <4>2, <4>3
      <4>5. asked'[r] = IF r = <<s, id>> THEN Append(asked[r], menu) ELSE asked[r]
        BY <2>1, <4>1, <4>4, ReplyOne
      <4>6. QED BY <4>3, <4>5
    <3>3. asked[r] = IF r \in menus \/ Queued(r) THEN <<>> ELSE <<r>>
      BY <2>1, <3>1 DEF MessagesInv, Message!MessagesAnswered, Queued, KeyOf
    <3>4. CASE r = menu
      <4>1. ~Queued(menu)
        BY DEF MessagesInv, OnePlace, Queued
      <4>2. asked'[r] = <<menu>>
        <5>1. Append(<<>>, menu) = <<menu>>
          OBVIOUS
        <5>2. QED BY <3>2, <3>3, <3>4, <5>1
      <4>3. QED BY <1>1, <3>4, <4>1, <4>2
    <3>5. CASE r # menu
      BY <1>1, <3>2, <3>3, <3>5
    <3>6. QED BY <3>4, <3>5
  <2>2. bell = Len(queue)
    BY DEF MessagesInv, Message!MessagesAnswered
  <2>3. QED BY <1>1, <1>3, <2>1, <2>2 DEF Message!MessagesAnswered, Queued, KeyOf
<1>7. QED BY <1>4, <1>5, <1>6 DEF MessagesInv

LEMMA MessagesUnchanged ==
  ASSUME MessagesInv, UNCHANGED Message!messages
  PROVE  MessagesInv'
BY DEF Message!messages, MessagesInv, MessagesTyped, OnePlace, Message!MessagesAnswered, KeyOf

LEMMA MessagesStep == MessagesInv /\ [Message!NextMessage]_ofMessages => MessagesInv'
<1> SUFFICES ASSUME MessagesInv, [Message!NextMessage]_ofMessages PROVE MessagesInv'
  OBVIOUS
<1>1. CASE Message!NextMessage
  BY <1>1, RequestStep, ShowStep, RespondStep DEF Message!NextMessage
<1>2. CASE UNCHANGED ofMessages
  BY <1>2, MessagesUnchanged DEF ofMessages, Message!messages
<1>3. QED BY <1>1, <1>2

\* For any number of servers and requests: one that was shown and answered has got one
\* answer, its own, as long as users respond in buffers of the asking server alone
\* (show_message.rs).
THEOREM MessagesCorrect == Spec => []MessagesAnswered
<1> DEFINE Inv == part = "messages" => MessagesInv
<1>1. Init => Inv
  BY MessagesInit DEF Init
<1>2. Inv /\ [Next]_vars => Inv'
  <2> SUFFICES ASSUME Inv, [Next]_vars, part' = "messages" PROVE MessagesInv'
    OBVIOUS
  <2>1. part = "messages" /\ MessagesInv
    BY DEF Next, vars
  <2>2. [Message!NextMessage]_ofMessages
    BY <2>1 DEF Next, vars
  <2>3. QED BY <2>1, <2>2, MessagesStep
<1>3. Inv => MessagesAnswered
  BY DEF MessagesAnswered, MessagesInv
<1>4. QED BY <1>1, <1>2, <1>3, PTL DEF Spec

-----------------------------------------------------------------------------
(***************************************************************************)
(* Work in progress.                                                       *)
(***************************************************************************)

\* A token that has begun is at work for some server; the hourglass is shown for one
\* that has begun.
ProgressInv ==
  /\ \A t : Message!Begun(t) => \E s : <<s, t>> \in working
  /\ hourglass => \E t : Message!Begun(t)

LEMMA ProgressInit == Message!Init => ProgressInv
<1> SUFFICES ASSUME Message!Init PROVE ProgressInv
  OBVIOUS
<1>1. DOMAIN progress = {} /\ ~hourglass
  BY DEF Message!Init
<1>2. QED BY <1>1 DEF ProgressInv, Message!Begun

LEMMA ProgressStep == ProgressInv /\ [Message!NextProgress]_ofMessages => ProgressInv'
<1> SUFFICES ASSUME ProgressInv, [Message!NextProgress]_ofMessages PROVE ProgressInv'
  OBVIOUS
<1>1. CASE UNCHANGED ofMessages
  BY <1>1 DEF ofMessages, ProgressInv, Message!Begun
<1>2. ASSUME NEW s \in Servers, NEW t \in Tokens, Message!Create(s, t)
      PROVE  ProgressInv'
  <2>1. \A u : Message!Begun(u)' <=> Message!Begun(u)
    BY <1>2 DEF Message!Create, Message!Begun
  <2>2. QED BY <1>2, <2>1 DEF Message!Create, ProgressInv
<1>3. ASSUME NEW s \in Servers, NEW t \in Tokens, Message!Begin(s, t)
      PROVE  ProgressInv'
  <2>1. working' = working \cup {<<s, t>>}
    BY <1>3 DEF Message!Begin
  <2>2. CASE t \in DOMAIN progress /\ ~Message!Begun(t)
    <3>1. \A u : Message!Begun(u)' <=> Message!Begun(u) \/ u = t
      BY <1>3, <2>2 DEF Message!Begin, Message!Begun
    <3>2. QED BY <2>1, <3>1 DEF ProgressInv
  <2>3. CASE ~(t \in DOMAIN progress /\ ~Message!Begun(t))
    <3>1. UNCHANGED <<progress, hourglass>>
      BY <1>3, <2>3 DEF Message!Begin
    <3>2. QED BY <2>1, <3>1 DEF ProgressInv, Message!Begun
  <2>4. QED BY <2>2, <2>3
<1>4. ASSUME NEW s \in Servers, NEW t \in Tokens, Message!Report(s, t)
      PROVE  ProgressInv'
  <2>1. UNCHANGED <<progress, working>>
    BY <1>4 DEF Message!Report
  <2>2. hourglass' => \E u : Message!Begun(u)
    BY <1>4 DEF Message!Report, ProgressInv
  <2>3. QED BY <2>1, <2>2 DEF ProgressInv, Message!Begun
<1>5. ASSUME NEW s \in Servers, NEW t \in Tokens, Message!End(s, t)
      PROVE  ProgressInv'
  <2>1. \A u : Message!Begun(u)' <=> Message!Begun(u) /\ u # t
    BY <1>5 DEF Message!End, Message!Begun
  <2>2. working' = working \ {<<s, t>>}
    BY <1>5 DEF Message!End
  <2>3. hourglass' => hourglass /\ ~Message!Begun(t)
    BY <1>5 DEF Message!End, Message!HourglassAfter
  <2>4. QED BY <2>1, <2>2, <2>3 DEF ProgressInv
<1>6. CASE Message!NextProgress
  <2>1. PICK s \in Servers, t \in Tokens :
          Message!Create(s, t) \/ Message!Begin(s, t) \/ Message!Report(s, t) \/ Message!End(s, t)
    BY <1>6 DEF Message!NextProgress
  <2>2. QED BY <1>2, <1>3, <1>4, <1>5, <2>1
<1>7. QED BY <1>1, <1>6

\* For any servers and tokens, equal ones included, and whichever reports are dropped:
\* the hourglass is only shown while a server is at work (progress.rs).
THEOREM HourglassCorrect == Spec => []HourglassOnlyWhenBusy
<1> DEFINE Inv == part = "progress" => ProgressInv
<1>1. Init => Inv
  BY ProgressInit DEF Init
<1>2. Inv /\ [Next]_vars => Inv'
  <2> SUFFICES ASSUME Inv, [Next]_vars, part' = "progress" PROVE ProgressInv'
    OBVIOUS
  <2>1. part = "progress" /\ ProgressInv
    BY DEF Next, vars
  <2>2. [Message!NextProgress]_ofMessages
    BY <2>1 DEF Next, vars
  <2>3. QED BY <2>1, <2>2, ProgressStep
<1>3. Inv => HourglassOnlyWhenBusy
  BY DEF HourglassOnlyWhenBusy, ProgressInv, Message!HourglassOnlyWhenBusy, Message!Begun
<1>4. QED BY <1>1, <1>2, <1>3, PTL DEF Spec

-----------------------------------------------------------------------------
(***************************************************************************)
(* Completion.                                                             *)
(***************************************************************************)

CompletionLists == [list : Nat, length : Nat, timestamp : Nat, client : Clients]
Choices == [list : Nat, index : Nat]
Windows ==
  [list : Nat, length : Nat, timestamp : Int, selected : Nat, hook : BOOLEAN,
   choice : Choices, size : Nat, astray : BOOLEAN]
Resolutions ==
  [client : Clients, timestamp : Int, index : Nat, pager : BOOLEAN, choice : Choices, astray : BOOLEAN]

CompletionTyped ==
  /\ version \in [Buffers -> Nat]
  /\ at \in [Clients -> Buffers]
  /\ window \in [Clients -> [Buffers -> Windows]]
  /\ lists \in Seq([client : Clients, version : Nat])
  /\ calls \subseteq 1..Len(lists)
  /\ items.length \in Nat
  /\ toEditor \in Seq(CompletionLists)
  /\ requests \in Seq(Resolutions)

\* The list was asked for by this client, for this version.
IsFor(l, c, v) == l \in 1..Len(lists) /\ lists[l] = [client |-> c, version |-> v]

\* What a window of client c has is of one list, and so is the choice made in it, if
\* none of the cases has occurred that cannot be told apart.
WindowInv(c, w) ==
  /\ w.list # 0 => IsFor(w.list, c, w.timestamp)
  /\ w.list = 0 => w.length = 0
  /\ w.choice = Completing!NoChoice /\ w.hook => w.astray
  /\ w.choice # Completing!NoChoice =>
       /\ w.choice.list # 0
       /\ ~w.astray => w.list = w.choice.list /\ w.selected = w.choice.index

\* A request names the choice it is about.
RequestInv(r) ==
  r.astray \/ (r.index = r.choice.index /\ IsFor(r.choice.list, r.client, r.timestamp))

\* Edits made, or to be made, are those of the choice.
ItemOfChoice(astray, item, choice) == Completing!Twins \/ astray \/ item = choice

WindowsInv == \A c \in Clients, b \in Buffers : WindowInv(c, window[c][b])
ItemsInv == items.length > 0 => IsFor(items.list, items.client, items.timestamp)
ToEditorInv ==
  \A i \in 1..Len(toEditor) : IsFor(toEditor[i].list, toEditor[i].client, toEditor[i].timestamp)
RequestsInv == \A i \in 1..Len(requests) : RequestInv(requests[i])
ResolvingInv == \A a \in resolving : ItemOfChoice(a.request.astray, a.item, a.request.choice)
EditedInv == \A e \in edited : ItemOfChoice(e.astray, e.item, e.choice)

CompletionInv ==
  /\ CompletionTyped /\ WindowsInv /\ ItemsInv /\ ToEditorInv /\ RequestsInv
  /\ ResolvingInv /\ EditedInv

LEMMA CompletionInit == Completing!Init => CompletionInv
<1> SUFFICES ASSUME Completing!Init PROVE CompletionInv
  OBVIOUS
<1> USE FeaturesAssumption DEF Completing!Init
<1>1. Completing!NoWindow \in Windows
  BY DEF Completing!NoWindow, Completing!NoChoice, Windows, Choices
<1>2. CompletionTyped
  BY <1>1 DEF CompletionTyped
<1>3. WindowsInv
  BY DEF WindowsInv, WindowInv, Completing!NoWindow
<1>4. ItemsInv /\ ToEditorInv /\ RequestsInv /\ ResolvingInv /\ EditedInv
  BY DEF ItemsInv, ToEditorInv, RequestsInv, ResolvingInv, EditedInv
<1>5. QED BY <1>2, <1>3, <1>4 DEF CompletionInv

\* Lists are only added, so that what is of a list remains so.
LEMMA ListsOnlyGrow ==
  ASSUME CompletionTyped, NEW x, lists' = Append(lists, x) \/ lists' = lists
  PROVE  /\ \A l, c, v : IsFor(l, c, v) => IsFor(l, c, v)'
         /\ Completing!Twins => Completing!Twins'
         /\ \A c, w : WindowInv(c, w) => WindowInv(c, w)'
         /\ \A r : RequestInv(r) => RequestInv(r)'
         /\ \A s, i, c : ItemOfChoice(s, i, c) => ItemOfChoice(s, i, c)'
<1>1. Len(lists) \in Nat /\ Len(lists') \in Nat /\ Len(lists) <= Len(lists')
  BY DEF CompletionTyped
<1>2. ASSUME NEW l \in 1..Len(lists) PROVE l \in 1..Len(lists') /\ lists'[l] = lists[l]
  <2>1. CASE lists' = lists
    BY <2>1
  <2>2. CASE lists' = Append(lists, x)
    <3>1. PICK S : lists \in Seq(S)
      BY DEF CompletionTyped
    <3>2. lists \in Seq(S \cup {x})
      BY <3>1
    <3>3. QED BY <1>1, <2>2, <3>2
  <2>3. QED BY <2>1, <2>2
<1>3. \A l, c, v : IsFor(l, c, v) => IsFor(l, c, v)'
  BY <1>2 DEF IsFor
<1>4. Completing!Twins => Completing!Twins'
  BY <1>2 DEF Completing!Twins
<1>5. \A c, w : WindowInv(c, w) => WindowInv(c, w)'
  BY <1>3 DEF WindowInv
<1>6. \A r : RequestInv(r) => RequestInv(r)'
  BY <1>3 DEF RequestInv
<1>7. \A s, i, c : ItemOfChoice(s, i, c) => ItemOfChoice(s, i, c)'
  BY <1>4 DEF ItemOfChoice
<1>8. QED BY <1>3, <1>4, <1>5, <1>6, <1>7

\* What an action leaves as it is stays correct.
LEMMA UntouchedStaysCorrect ==
  ASSUME CompletionInv, NEW x, lists' = Append(lists, x) \/ lists' = lists
  PROVE  /\ window' = window => WindowsInv'
         /\ items' = items => ItemsInv'
         /\ toEditor' = toEditor => ToEditorInv'
         /\ requests' = requests => RequestsInv'
         /\ resolving' = resolving => ResolvingInv'
         /\ edited' = edited => EditedInv'
<1> USE ListsOnlyGrow DEF CompletionInv
<1>1. ASSUME window' = window PROVE WindowsInv'
  <2>1. \A c \in Clients, b \in Buffers : WindowInv(c, window[c][b])
    BY DEF WindowsInv
  <2>2. ASSUME NEW c \in Clients, NEW b \in Buffers PROVE WindowInv(c, window[c][b])'
    <3>1. PICK w : w = window[c][b]
      OBVIOUS
    <3>2. WindowInv(c, w)'
      BY <2>1, <3>1
    <3>3. QED BY <1>1, <3>1, <3>2 DEF WindowInv, IsFor
  <2>3. QED BY <2>2 DEF WindowsInv
<1>2. ASSUME items' = items PROVE ItemsInv'
  BY <1>2 DEF ItemsInv, IsFor
<1>3. ASSUME toEditor' = toEditor PROVE ToEditorInv'
  BY <1>3 DEF ToEditorInv, IsFor
<1>4. ASSUME requests' = requests PROVE RequestsInv'
  BY <1>4 DEF RequestsInv, RequestInv, IsFor
<1>5. ASSUME resolving' = resolving PROVE ResolvingInv'
  BY <1>5 DEF ResolvingInv, ItemOfChoice
<1>6. ASSUME edited' = edited PROVE EditedInv'
  BY <1>6 DEF EditedInv, ItemOfChoice
<1>7. QED BY <1>1, <1>2, <1>3, <1>4, <1>5, <1>6

\* What the editor's menu does to the window that a client shows.
LEMMA WindowIsSet ==
  ASSUME CompletionInv, lists' = lists, NEW c \in Clients, NEW w \in Windows,
         Completing!SetHere(c, w), WindowInv(c, w)
  PROVE  window' \in [Clients -> [Buffers -> Windows]] /\ WindowsInv'
<1>1. at[c] \in Buffers /\ window \in [Clients -> [Buffers -> Windows]]
  BY DEF CompletionInv, CompletionTyped
<1>2. window' = [window EXCEPT ![c][at[c]] = w]
  BY DEF Completing!SetHere
<1>3. window' \in [Clients -> [Buffers -> Windows]]
  BY <1>1, <1>2
<1>4. ASSUME NEW d \in Clients, NEW b \in Buffers PROVE WindowInv(d, window[d][b])'
  <2>1. PICK v : v = window[d][b]
    OBVIOUS
  <2>2. PICK u : u = window'[d][b]
    OBVIOUS
  <2>3. (d = c /\ u = w) \/ u = v
    BY <1>1, <1>2, <2>1, <2>2
  <2>4. WindowInv(d, v)
    BY <2>1 DEF CompletionInv, WindowsInv
  <2>5. WindowInv(d, u)
    BY <2>3, <2>4
  <2>6. QED BY <2>2, <2>5 DEF WindowInv, IsFor
<1>5. QED BY <1>3, <1>4 DEF WindowsInv

\* The request about a choice is added to those under way.
LEMMA RequestIsAdded ==
  ASSUME CompletionInv, lists' = lists, NEW c \in Clients, NEW w \in Windows, NEW pager \in BOOLEAN,
         w.astray \/ (w.selected = w.choice.index /\ IsFor(w.choice.list, c, w.timestamp)),
         Completing!ResolveRequest(c, w, pager)
  PROVE  requests' \in Seq(Resolutions) /\ RequestsInv'
<1>1. PICK r : r = [client |-> c, timestamp |-> w.timestamp, index |-> w.selected,
                    pager |-> pager, choice |-> w.choice, astray |-> w.astray]
  OBVIOUS
<1>2. r \in Resolutions
  BY <1>1 DEF Resolutions, Windows
<1>3. requests' = Append(requests, r) /\ requests \in Seq(Resolutions)
  BY <1>1 DEF Completing!ResolveRequest, CompletionInv, CompletionTyped
<1>4. requests' \in Seq(Resolutions)
  BY <1>2, <1>3
<1>5. RequestInv(r)
  BY <1>1 DEF RequestInv
<1>6. ASSUME NEW i \in 1..Len(requests') PROVE RequestInv(requests[i])'
  <2>1. PICK q : q = requests'[i]
    OBVIOUS
  <2>2. q = r \/ (i \in 1..Len(requests) /\ q = requests[i])
    BY <1>2, <1>3, <2>1
  <2>3. RequestInv(q)
    BY <1>5, <2>2 DEF CompletionInv, RequestsInv
  <2>4. QED BY <2>1, <2>3 DEF RequestInv, IsFor
<1>7. QED BY <1>4, <1>6 DEF RequestsInv

\* The window a client shows.
LEMMA ShownWindow ==
  ASSUME CompletionInv, NEW c \in Clients
  PROVE  /\ at[c] \in Buffers
         /\ Completing!Here(c) \in Windows
         /\ WindowInv(c, Completing!Here(c))
BY DEF CompletionInv, CompletionTyped, WindowsInv, Completing!Here

LEMMA SwitchTypeIdle ==
  ASSUME CompletionInv, NEW c \in Clients,
         (\E b \in Buffers : Completing!Switch(c, b)) \/ Completing!Type(c) \/ Completing!Idle(c)
  PROVE  CompletionInv'
<1> USE DEF Completing!editor, Completing!server
<1>1. CompletionTyped /\ at[c] \in Buffers
  BY ShownWindow DEF CompletionInv
<1>2. CASE \E b \in Buffers : Completing!Switch(c, b)
  <2>1. lists' = lists /\ at' \in [Clients -> Buffers]
    BY <1>1, <1>2 DEF Completing!Switch, CompletionTyped
  <2>2. CompletionTyped'
    BY <1>1, <1>2, <2>1 DEF Completing!Switch, CompletionTyped
  <2>3. QED BY <1>2, <2>1, <2>2, UntouchedStaysCorrect DEF Completing!Switch, CompletionInv
<1>3. CASE Completing!Type(c)
  <2>1. lists' = lists /\ version' \in [Buffers -> Nat]
    BY <1>1, <1>3 DEF Completing!Type, Completing!Changed, CompletionTyped
  <2>2. CompletionTyped'
    BY <1>1, <1>3, <2>1 DEF Completing!Type, CompletionTyped
  <2>3. QED BY <1>3, <2>1, <2>2, UntouchedStaysCorrect DEF Completing!Type, CompletionInv
<1>4. CASE Completing!Idle(c)
  <2>1. PICK x : x = [client |-> c, version |-> version[at[c]]]
    OBVIOUS
  <2>2. x \in [client : Clients, version : Nat]
    BY <1>1, <2>1 DEF CompletionTyped
  <2>3. lists' = Append(lists, x) /\ calls' = calls \cup {Len(lists')}
    BY <1>4, <2>1 DEF Completing!Idle
  <2>4. /\ lists' \in Seq([client : Clients, version : Nat])
        /\ Len(lists') = Len(lists) + 1 /\ Len(lists) \in Nat
        /\ calls \subseteq 1..Len(lists)
    BY <1>1, <2>2, <2>3 DEF CompletionTyped
  <2>5. calls' \subseteq 1..Len(lists')
    <3>1. PICK n \in Nat : n = Len(lists)
      BY <2>4
    <3>2. Len(lists') = n + 1
      BY <2>4, <3>1
    <3>3. calls' = calls \cup {n + 1} /\ calls \subseteq 1..n
      BY <2>3, <2>4, <3>1, <3>2
    <3>4. QED BY ONLY <3>2, <3>3, n \in Nat
  <2>6. CompletionTyped'
    BY <1>1, <1>4, <2>4, <2>5 DEF Completing!Idle, CompletionTyped
  <2>7. QED BY <1>4, <2>3, <2>6, UntouchedStaysCorrect DEF Completing!Idle, CompletionInv
<1>5. QED BY <1>2, <1>3, <1>4

LEMMA SetCompletionsKeeps ==
  ASSUME CompletionInv, Completing!SetCompletions PROVE CompletionInv'
<1>1. PICK e : e = Head(toEditor)
  OBVIOUS
<1>2. e \in CompletionLists /\ IsFor(e.list, e.client, e.timestamp)
  <2>1. toEditor # <<>> /\ toEditor \in Seq(CompletionLists)
    BY DEF Completing!SetCompletions, CompletionInv, CompletionTyped
  <2>2. 1 \in 1..Len(toEditor) /\ e = toEditor[1]
    BY <1>1, <2>1
  <2>3. QED BY <2>1, <2>2 DEF CompletionInv, ToEditorInv
<1>3. PICK here : here = Completing!Here(e.client)
  OBVIOUS
<1>4. here \in Windows /\ WindowInv(e.client, here) /\ e.client \in Clients
  BY <1>2, <1>3, ShownWindow DEF CompletionLists
<1>5. PICK w : w = [here EXCEPT !.list = e.list, !.length = e.length, !.timestamp = e.timestamp,
                                !.astray = @ \/ Completing!Choosing(e.client)]
  OBVIOUS
<1>6. PICK astray \in BOOLEAN : astray = (here.astray \/ here.choice # Completing!NoChoice)
  OBVIOUS
<1>7. w = [list |-> e.list, length |-> e.length, timestamp |-> e.timestamp,
           selected |-> here.selected, hook |-> here.hook, choice |-> here.choice,
           size |-> here.size, astray |-> astray]
  BY <1>3, <1>4, <1>5, <1>6 DEF Completing!Choosing, Windows
<1>8. w \in Windows
  BY <1>2, <1>4, <1>7 DEF Windows, CompletionLists
<1>9. WindowInv(e.client, w)
  <2>1. e.list # 0
    BY <1>2 DEF IsFor, CompletionLists
  <2>2. QED BY <1>2, <1>4, <1>6, <1>7, <2>1 DEF WindowInv
<1>10. /\ Completing!SetHere(e.client, w) /\ lists' = lists
       /\ toEditor' = Tail(toEditor) /\ toEditor # <<>>
  BY <1>1, <1>3, <1>5 DEF Completing!SetCompletions
<1>11. window' \in [Clients -> [Buffers -> Windows]] /\ WindowsInv'
  BY <1>4, <1>8, <1>9, <1>10, WindowIsSet
<1>12. /\ toEditor' \in Seq(CompletionLists)
       /\ Len(toEditor') = Len(toEditor) - 1
       /\ \A i \in 1..Len(toEditor') : i + 1 \in 1..Len(toEditor) /\ toEditor'[i] = toEditor[i + 1]
  BY <1>10 DEF CompletionInv, CompletionTyped
<1>13. ToEditorInv'
  <2>1. \A i \in 1..Len(toEditor) : IsFor(toEditor[i].list, toEditor[i].client, toEditor[i].timestamp)
    BY DEF CompletionInv, ToEditorInv
  <2>2. QED BY <1>10, <1>12, <2>1 DEF ToEditorInv, IsFor
<1>14. CompletionTyped'
  BY <1>10, <1>11, <1>12 DEF CompletionInv, CompletionTyped, Completing!SetCompletions
<1>15. QED
  BY <1>10, <1>11, <1>13, <1>14, UntouchedStaysCorrect
  DEF Completing!SetCompletions, CompletionInv

LEMMA SelectKeeps ==
  ASSUME CompletionInv, NEW c \in Clients, NEW index \in 0..MaxLength - 1, Completing!Select(c, index)
  PROVE  CompletionInv'
<1>1. PICK here : here = Completing!Here(c)
  OBVIOUS
<1>2. here \in Windows /\ WindowInv(c, here) /\ at[c] \in Buffers
  BY <1>1, ShownWindow
<1>3. PICK chosen : chosen = IF Completing!Choosing(c) THEN here.choice.list ELSE here.list
  OBVIOUS
<1>4. PICK size : size = IF Completing!Choosing(c) THEN here.size ELSE here.length
  OBVIOUS
<1>5. PICK w : w = [here EXCEPT !.selected = index, !.hook = TRUE, !.size = size,
                                !.choice = [list |-> chosen, index |-> index],
                                !.astray = here.list # chosen]
  OBVIOUS
<1>6. w = [list |-> here.list, length |-> here.length, timestamp |-> here.timestamp,
           selected |-> index, hook |-> TRUE, choice |-> [list |-> chosen, index |-> index],
           size |-> size, astray |-> here.list # chosen]
  BY <1>2, <1>5 DEF Windows
<1>7. chosen \in Nat /\ size \in Nat /\ index \in Nat
  BY <1>2, <1>3, <1>4, FeaturesAssumption DEF Windows, Choices
<1>8. w \in Windows
  BY <1>2, <1>6, <1>7 DEF Windows, Choices
<1>9. /\ index < size /\ Completing!SetHere(c, w)
      /\ Completing!ResolveRequest(c, w, TRUE) \/ requests' = requests
      /\ Completing!Changed(at[c])
      /\ UNCHANGED <<provider, at, lists, calls, items, toEditor, resolving, edited>>
  BY <1>1, <1>3, <1>4, <1>5 DEF Completing!Select, Completing!server
<1>10. chosen # 0
  <2>1. CASE Completing!Choosing(c)
    BY <1>1, <1>2, <1>3, <2>1 DEF Completing!Choosing, WindowInv
  <2>2. CASE ~Completing!Choosing(c)
    BY <1>2, <1>3, <1>4, <1>7, <1>9, <2>2 DEF WindowInv, Windows
  <2>3. QED BY <2>1, <2>2
<1>11. WindowInv(c, w)
  BY <1>2, <1>6, <1>7, <1>10 DEF WindowInv, Completing!NoChoice
<1>12. window' \in [Clients -> [Buffers -> Windows]] /\ WindowsInv'
  BY <1>8, <1>9, <1>11, WindowIsSet
<1>13. w.astray \/ (w.selected = w.choice.index /\ IsFor(w.choice.list, c, w.timestamp))
  BY <1>2, <1>6, <1>10 DEF WindowInv
<1>14. requests' \in Seq(Resolutions) /\ RequestsInv'
  <2>1. CASE Completing!ResolveRequest(c, w, TRUE)
    BY <1>8, <1>9, <1>13, <2>1, RequestIsAdded
  <2>2. CASE requests' = requests
    BY <1>9, <2>2, UntouchedStaysCorrect DEF CompletionInv, CompletionTyped
  <2>3. QED BY <1>9, <2>1, <2>2
<1>15. version' \in [Buffers -> Nat]
  BY <1>2, <1>9 DEF Completing!Changed, CompletionInv, CompletionTyped
<1>16. CompletionTyped'
  BY <1>9, <1>12, <1>14, <1>15 DEF CompletionInv, CompletionTyped
<1>17. QED BY <1>9, <1>12, <1>14, <1>16, UntouchedStaysCorrect DEF CompletionInv

\* Accepting and dismissing.
LEMMA AcceptDismissKeep ==
  ASSUME CompletionInv, NEW c \in Clients,
         Completing!Accept(c) \/ Completing!Dismiss(c) \/ Completing!AcceptOther(c)
  PROVE  CompletionInv'
<1>1. PICK here : here = Completing!Here(c)
  OBVIOUS
<1>2. here \in Windows /\ WindowInv(c, here)
  BY <1>1, ShownWindow
<1>3. /\ Completing!Choosing(c) <=> here.choice # Completing!NoChoice
      /\ Completing!Accept(c) => Completing!Choosing(c)
      /\ Completing!Dismiss(c) => Completing!Choosing(c)
      /\ Completing!AcceptOther(c) => ~Completing!Choosing(c) /\ here.hook
  BY <1>1 DEF Completing!Choosing, Completing!Accept, Completing!Dismiss, Completing!AcceptOther
<1>4. PICK hook \in BOOLEAN : hook <=> (Completing!Dismiss(c) /\ here.hook)
  OBVIOUS
<1>5. PICK size \in Nat : size = IF Completing!Choosing(c) THEN 0 ELSE here.size
  BY <1>2 DEF Windows
<1>6. PICK astray \in BOOLEAN : astray <=> Completing!Dismiss(c)
  OBVIOUS
<1>7. PICK kept : kept = [list |-> here.list, length |-> here.length, timestamp |-> here.timestamp,
                          selected |-> here.selected, hook |-> hook, choice |-> Completing!NoChoice,
                          size |-> size, astray |-> astray]
  OBVIOUS
<1>8. kept \in Windows
  BY <1>2, <1>7 DEF Windows, Choices, Completing!NoChoice
<1>9. WindowInv(c, kept)
  BY <1>2, <1>4, <1>6, <1>7 DEF WindowInv
<1>10. /\ Completing!SetHere(c, kept)
       /\ requests' = requests \/ Completing!ResolveRequest(c, here, FALSE)
       /\ UNCHANGED <<provider, version, at, lists, calls, items, toEditor, resolving, edited>>
  <2>1. CASE Completing!Accept(c)
    <3>1. ~Completing!Dismiss(c)
      BY <1>1, <2>1 DEF Completing!Accept, Completing!Dismiss, Completing!ResolveRequest
    <3>2. [here EXCEPT !.hook = FALSE, !.choice = Completing!NoChoice, !.size = 0, !.astray = FALSE]
            = kept
      <4>1. hook = FALSE /\ astray = FALSE /\ size = 0
        BY <1>3, <1>4, <1>5, <1>6, <2>1, <3>1
      <4>2. kept = [list |-> here.list, length |-> here.length, timestamp |-> here.timestamp,
                      selected |-> here.selected, hook |-> FALSE, choice |-> Completing!NoChoice,
                      size |-> 0, astray |-> FALSE]
        BY ONLY <1>7, <4>1
      <4>3. PICK w : w = [here EXCEPT !.hook = FALSE, !.choice = Completing!NoChoice, !.size = 0, !.astray = FALSE]
        OBVIOUS
      <4>4. w = [list |-> here.list, length |-> here.length, timestamp |-> here.timestamp,
                      selected |-> here.selected, hook |-> FALSE, choice |-> Completing!NoChoice,
                      size |-> 0, astray |-> FALSE]
        BY <1>2, <4>3 DEF Windows
      <4>5. QED BY <4>2, <4>3, <4>4
    <3>3. QED BY <1>1, <2>1, <3>2 DEF Completing!Accept, Completing!server
  <2>2. CASE Completing!Dismiss(c)
    <3>1. [here EXCEPT !.choice = Completing!NoChoice, !.size = 0, !.astray = TRUE] = kept
      <4>1. hook = here.hook /\ astray = TRUE /\ size = 0
        BY <1>2, <1>3, <1>4, <1>5, <1>6, <2>2 DEF Windows
      <4>2. kept = [list |-> here.list, length |-> here.length, timestamp |-> here.timestamp,
                      selected |-> here.selected, hook |-> here.hook, choice |-> Completing!NoChoice,
                      size |-> 0, astray |-> TRUE]
        BY ONLY <1>7, <4>1
      <4>3. PICK w : w = [here EXCEPT !.choice = Completing!NoChoice, !.size = 0, !.astray = TRUE]
        OBVIOUS
      <4>4. w = [list |-> here.list, length |-> here.length, timestamp |-> here.timestamp,
                      selected |-> here.selected, hook |-> here.hook, choice |-> Completing!NoChoice,
                      size |-> 0, astray |-> TRUE]
        BY <1>2, <4>3 DEF Windows
      <4>5. QED BY <4>2, <4>3, <4>4
    <3>2. QED BY <1>1, <2>2, <3>1 DEF Completing!Dismiss, Completing!server
  <2>3. CASE Completing!AcceptOther(c)
    <3>1. ~Completing!Dismiss(c)
      BY <1>3, <2>3
    <3>2. [here EXCEPT !.hook = FALSE, !.astray = FALSE] = kept
      <4>1. hook = FALSE /\ astray = FALSE /\ size = here.size /\ here.choice = Completing!NoChoice
        BY <1>3, <1>4, <1>5, <1>6, <2>3, <3>1
      <4>2. kept = [list |-> here.list, length |-> here.length, timestamp |-> here.timestamp,
                      selected |-> here.selected, hook |-> FALSE, choice |-> Completing!NoChoice,
                      size |-> here.size, astray |-> FALSE]
        BY ONLY <1>7, <4>1
      <4>3. PICK w : w = [here EXCEPT !.hook = FALSE, !.astray = FALSE]
        OBVIOUS
      <4>4. w = [list |-> here.list, length |-> here.length, timestamp |-> here.timestamp,
                      selected |-> here.selected, hook |-> FALSE, choice |-> Completing!NoChoice,
                      size |-> here.size, astray |-> FALSE]
        BY <1>2, <4>1, <4>3 DEF Windows
      <4>5. QED BY <4>2, <4>3, <4>4
    <3>3. QED BY <1>1, <2>3, <3>2 DEF Completing!AcceptOther, Completing!server
  <2>4. QED BY <2>1, <2>2, <2>3
<1>11. window' \in [Clients -> [Buffers -> Windows]] /\ WindowsInv'
  BY <1>8, <1>9, <1>10, WindowIsSet
<1>12. requests' \in Seq(Resolutions) /\ RequestsInv'
  <2>1. CASE requests' = requests
    BY <1>10, <2>1, UntouchedStaysCorrect DEF CompletionInv, CompletionTyped
  <2>2. CASE Completing!ResolveRequest(c, here, FALSE)
    <3>1. CASE here.choice = Completing!NoChoice /\ here.hook
      BY <1>2, <1>10, <2>2, <3>1, RequestIsAdded DEF WindowInv
    <3>2. CASE here.choice # Completing!NoChoice
      <4>1. here.astray \/ (here.selected = here.choice.index
                            /\ IsFor(here.choice.list, c, here.timestamp))
        BY <1>2, <3>2 DEF WindowInv
      <4>2. QED BY <1>2, <1>10, <2>2, <4>1, RequestIsAdded
    <3>3. QED BY <1>3, <3>1, <3>2
  <2>3. QED BY <1>10, <2>1, <2>2
<1>13. CompletionTyped'
  BY <1>10, <1>11, <1>12 DEF CompletionInv, CompletionTyped
<1>14. QED BY <1>10, <1>11, <1>12, <1>13, UntouchedStaysCorrect DEF CompletionInv

LEMMA EditorCompletionKeeps ==
  ASSUME CompletionInv, NEW l \in calls, NEW length \in 0..MaxLength,
         Completing!EditorCompletion(l, length)
  PROVE  CompletionInv'
<1>1. PICK new : new = items'
  OBVIOUS
<1>2. l \in 1..Len(lists) /\ lists[l] \in [client : Clients, version : Nat]
  <2>1. l \in 1..Len(lists) /\ lists \in Seq([client : Clients, version : Nat])
    BY DEF CompletionInv, CompletionTyped
  <2>2. PICK S : S = [client : Clients, version : Nat]
    OBVIOUS
  <2>3. lists \in Seq(S)
    BY <2>1, <2>2
  <2>4. lists[l] \in S
    BY ONLY <2>1, <2>3
  <2>5. QED BY <2>1, <2>2, <2>4
<1>3. /\ new = [list |-> l, length |-> length, timestamp |-> lists[l].version,
                client |-> lists[l].client]
      /\ toEditor' = toEditor \/ toEditor' = Append(toEditor, new)
      /\ calls' = calls \ {l}
      /\ UNCHANGED <<provider, version, at, window, lists, requests, resolving, edited>>
  BY <1>1 DEF Completing!EditorCompletion, Completing!editor
<1>4. new \in CompletionLists
  BY <1>2, <1>3, FeaturesAssumption DEF CompletionLists
<1>5. IsFor(new.list, new.client, new.timestamp)
  BY <1>2, <1>3 DEF IsFor
<1>6. ItemsInv'
  BY <1>1, <1>3, <1>5 DEF ItemsInv, IsFor
<1>7. toEditor' \in Seq(CompletionLists) /\ ToEditorInv'
  <2>1. CASE toEditor' = toEditor
    BY <1>3, <2>1, UntouchedStaysCorrect DEF CompletionInv, CompletionTyped
  <2>2. CASE toEditor' = Append(toEditor, new)
    <3>1. toEditor \in Seq(CompletionLists) /\ toEditor' \in Seq(CompletionLists)
      BY <1>4, <2>2 DEF CompletionInv, CompletionTyped
    <3>2. \A i \in 1..Len(toEditor') :
             toEditor'[i] = new \/ (i \in 1..Len(toEditor) /\ toEditor'[i] = toEditor[i])
      BY <1>4, <2>2, <3>1
    <3>3. QED BY <1>3, <1>5, <3>1, <3>2 DEF ToEditorInv, CompletionInv, IsFor
  <2>3. QED BY <1>3, <2>1, <2>2
<1>8. CompletionTyped'
  BY <1>1, <1>3, <1>4, <1>7 DEF CompletionInv, CompletionTyped, CompletionLists
<1>9. QED BY <1>3, <1>6, <1>7, <1>8, UntouchedStaysCorrect DEF CompletionInv

\* A request that kak-lsp wants is about an item of the list it has.
LEMMA WantedIsOfChoice ==
  ASSUME CompletionInv, NEW r \in Resolutions, RequestInv(r), Completing!Wanted(r),
         NEW item, item = [list |-> items.list, index |-> r.index]
  PROVE  ItemOfChoice(r.astray, item, r.choice)
<1> SUFFICES ASSUME ~r.astray, ~Completing!Twins PROVE item = r.choice
  BY DEF ItemOfChoice
<1>1. r.client = items.client /\ r.timestamp = items.timestamp /\ items.length > 0
  BY DEF Completing!Wanted, CompletionInv, CompletionTyped, Resolutions
<1>2. IsFor(items.list, r.client, r.timestamp)
  BY <1>1 DEF CompletionInv, ItemsInv
<1>3. r.index = r.choice.index /\ IsFor(r.choice.list, r.client, r.timestamp)
  BY DEF RequestInv
<1>4. items.list = r.choice.list
  BY <1>2, <1>3 DEF IsFor, Completing!Twins
<1>5. r.choice = [list |-> r.choice.list, index |-> r.choice.index]
  BY DEF Resolutions, Choices
<1>6. QED BY <1>3, <1>4, <1>5

LEMMA CompletionItemResolveKeeps ==
  ASSUME CompletionInv, Completing!CompletionItemResolve PROVE CompletionInv'
<1> USE DEF Completing!editor
<1>1. PICK r : r = Head(requests)
  OBVIOUS
<1>2. requests # <<>> /\ requests \in Seq(Resolutions) /\ requests' = Tail(requests) /\ lists' = lists
  BY DEF Completing!CompletionItemResolve, CompletionInv, CompletionTyped
<1>3. 1 \in 1..Len(requests) /\ r = requests[1] /\ r \in Resolutions
  BY <1>1, <1>2
<1>4. RequestInv(r)
  BY <1>3 DEF CompletionInv, RequestsInv
<1>5. PICK item : item = [list |-> items.list, index |-> r.index]
  OBVIOUS
<1>6. requests' \in Seq(Resolutions) /\ RequestsInv'
  <2>1. /\ requests' \in Seq(Resolutions)
        /\ Len(requests') = Len(requests) - 1
        /\ \A i \in 1..Len(requests') : i + 1 \in 1..Len(requests) /\ requests'[i] = requests[i + 1]
    BY <1>2
  <2>2. \A i \in 1..Len(requests) : RequestInv(requests[i])
    BY DEF CompletionInv, RequestsInv
  <2>3. ASSUME NEW i \in 1..Len(requests') PROVE RequestInv(requests[i])'
    <3>1. PICK q : q = requests'[i]
      OBVIOUS
    <3>2. RequestInv(q)
      BY <2>1, <2>2, <3>1
    <3>3. QED BY <1>2, <3>1, <3>2 DEF RequestInv, IsFor
  <2>4. QED BY <2>1, <2>3 DEF RequestsInv
<1>7. ItemsInv' /\ items'.length \in Nat
  <2>1. items' = items \/ items' = [items EXCEPT !.length = 0]
    BY <1>1 DEF Completing!CompletionItemResolve
  <2>2. CASE items' = items
    BY <1>2, <2>2, UntouchedStaysCorrect DEF CompletionInv, CompletionTyped
  <2>3. CASE items' = [items EXCEPT !.length = 0]
    <3>1. \/ items'.length = 0
          \/ items' = items
      BY <2>3
    <3>2. CASE items'.length = 0
      BY <3>2 DEF ItemsInv
    <3>3. QED BY <2>2, <3>1, <3>2
  <2>4. QED BY <2>1, <2>2, <2>3
<1>8. CompletionTyped'
  BY <1>2, <1>6, <1>7 DEF Completing!CompletionItemResolve, CompletionInv, CompletionTyped
<1>9. CASE ~Completing!Wanted(r)
  BY <1>1, <1>2, <1>6, <1>7, <1>8, <1>9, UntouchedStaysCorrect
  DEF Completing!CompletionItemResolve, CompletionInv
<1>10. CASE Completing!Wanted(r)
  <2>1. ItemOfChoice(r.astray, item, r.choice)
    BY <1>3, <1>4, <1>5, <1>10, WantedIsOfChoice
  <2>2. /\ \/ resolving' = resolving
           \/ resolving' = resolving \cup {[request |-> r, item |-> item]}
        /\ \/ edited' = edited
           \/ edited' = edited \cup {[choice |-> r.choice, astray |-> r.astray, item |-> item]}
    BY <1>1, <1>5, <1>10 DEF Completing!CompletionItemResolve, Completing!Made
  <2>3. ResolvingInv' /\ EditedInv'
    BY <1>2, <2>1, <2>2 DEF CompletionInv, ResolvingInv, EditedInv, ItemOfChoice, Completing!Twins
  <2>4. window' = window /\ toEditor' = toEditor
    BY DEF Completing!CompletionItemResolve
  <2>5. QED BY <1>2, <1>6, <1>7, <1>8, <2>3, <2>4, UntouchedStaysCorrect DEF CompletionInv
<1>11. QED BY <1>9, <1>10

LEMMA EditorCompletionItemResolveKeeps ==
  ASSUME CompletionInv, NEW a \in resolving, Completing!EditorCompletionItemResolve(a)
  PROVE  CompletionInv'
<1> USE DEF Completing!editor, Completing!server
<1>1. ItemOfChoice(a.request.astray, a.item, a.request.choice)
  BY DEF CompletionInv, ResolvingInv
<1>2. /\ resolving' \subseteq resolving
      /\ \/ edited' = edited
         \/ edited' = edited \cup {[choice |-> a.request.choice, astray |-> a.request.astray,
                                    item |-> a.item]}
      /\ UNCHANGED <<version, at, window, lists, calls, items, toEditor, requests>>
  BY DEF Completing!EditorCompletionItemResolve, Completing!Made
<1>3. ResolvingInv' /\ EditedInv'
  BY <1>1, <1>2 DEF CompletionInv, ResolvingInv, EditedInv, ItemOfChoice, Completing!Twins
<1>4. CompletionTyped'
  BY <1>2 DEF CompletionInv, CompletionTyped
<1>5. QED BY <1>2, <1>3, <1>4, UntouchedStaysCorrect DEF CompletionInv

LEMMA CompletionStep ==
  ASSUME CompletionInv, [Completing!Next]_ofCompletion PROVE CompletionInv'
<1>1. CASE UNCHANGED ofCompletion
  <2>1. CompletionTyped'
    BY <1>1 DEF ofCompletion, CompletionInv, CompletionTyped
  <2>2. QED BY <1>1, <2>1, UntouchedStaysCorrect DEF ofCompletion, CompletionInv
<1>2. CASE Completing!Next
  BY <1>2, SwitchTypeIdle, SetCompletionsKeeps, SelectKeeps, AcceptDismissKeep,
     EditorCompletionKeeps, CompletionItemResolveKeeps, EditorCompletionItemResolveKeeps
  DEF Completing!Next
<1>3. QED BY <1>1, <1>2

\* The edits made for an accepted item are its own, whatever lists came for whom in the
\* meantime (completion.rs).
THEOREM CompletionCorrect == Spec => []EditsOfAccepted
<1> DEFINE Inv == part = "completion" => CompletionInv
<1>1. Init => Inv
  BY CompletionInit DEF Init
<1>2. Inv /\ [Next]_vars => Inv'
  <2> SUFFICES ASSUME Inv, [Next]_vars, part' = "completion" PROVE CompletionInv'
    OBVIOUS
  <2>1. part = "completion" /\ CompletionInv
    BY DEF Next, vars
  <2>2. [Completing!Next]_ofCompletion
    BY <2>1 DEF Next, vars
  <2>3. QED BY <2>1, <2>2, CompletionStep
<1>3. Inv => EditsOfAccepted
  BY DEF EditsOfAccepted, Completing!EditsOfAccepted, CompletionInv, EditedInv, ItemOfChoice
<1>4. QED BY <1>1, <1>2, <1>3, PTL DEF Spec

-----------------------------------------------------------------------------
(***************************************************************************)
(* Watching files.                                                         *)
(***************************************************************************)

Changes == [file : Files \cup {Log}, kind : Watch!EventKinds]

\* Numbers of the changes that are not the log's.
OfOthers(q) == {i \in 1..Len(q) : q[i].file # Log}

Event(c) == [file |-> c.file, kind |-> c.kind]
Covered(c) ==
  c.file # Log /\ \E w \in watcher.watches : c.kind \in w.kinds /\ <<w.pattern, c.file>> \in Matches

\* Servers will be told of it.
UnderWay(e) ==
  \/ e \in watcher.pending
  \/ \E i \in 1..Len(channel) : e \in channel[i]
  \/ \E i \in 1..Len(raw) : raw[i] = e

WatchTyped ==
  /\ watcher \in [worker : Nat, watches : SUBSET Watch!Watches, pending : SUBSET Changes]
  /\ \A c \in changed : c.worker \in Nat
  /\ raw \in Seq(Changes)
  /\ channel \in Seq(SUBSET Changes)
  /\ made \in Nat /\ ticks \in Nat

ToldInv ==
  \A c \in changed :
    /\ c.worker <= watcher.worker
    /\ c.worker = watcher.worker /\ Covered(c) =>
         UnderWay(Event(c)) \/ \A s \in Servers : Event(c) \in informed[s]

\* Every time servers were told, and every time they will be, is for a change.
TicksInv ==
  ticks + (IF watcher.pending = {} THEN 0 ELSE 1) + Len(channel) + Cardinality(OfOthers(raw)) <= made

WatchInv == WatchTyped /\ ToldInv /\ TicksInv

LEMMA OfOthersFinite ==
  ASSUME NEW q \in Seq(Changes)
  PROVE  IsFiniteSet(OfOthers(q)) /\ Cardinality(OfOthers(q)) \in Nat
<1>1. IsFiniteSet(1..Len(q))
  BY FS_Interval, Len(q) \in Nat
<1>2. OfOthers(q) \in SUBSET (1..Len(q))
  BY DEF OfOthers
<1>3. QED BY <1>1, <1>2, FS_Subset, FS_CardinalityType

LEMMA OfOthersAppend ==
  ASSUME NEW q \in Seq(Changes), NEW e \in Changes
  PROVE  Cardinality(OfOthers(Append(q, e))) =
           IF e.file = Log THEN Cardinality(OfOthers(q)) ELSE Cardinality(OfOthers(q)) + 1
<1> DEFINE n == Len(q) + 1
           p == Append(q, e)
<1>1. Len(q) \in Nat /\ n \in Nat /\ p \in Seq(Changes) /\ Len(p) = n
  OBVIOUS
<1>2. p[n] = e /\ \A i \in 1..Len(q) : p[i] = q[i]
  OBVIOUS
<1>3. 1..n = (1..Len(q)) \cup {n} /\ n \notin 1..Len(q)
  BY <1>1
<1> HIDE DEF n, p
<1>4. OfOthers(p) = IF e.file = Log THEN OfOthers(q) ELSE OfOthers(q) \cup {n}
  BY <1>1, <1>2, <1>3 DEF OfOthers
<1>5. n \notin OfOthers(q)
  BY <1>3 DEF OfOthers
<1>6. QED BY <1>4, <1>5, OfOthersFinite, FS_AddElement DEF p

\* A batch for servers takes a change of others away.
LEMMA OfOthersTaken ==
  ASSUME NEW q \in Seq(Changes), NEW n \in 1..Len(q)
  PROVE  /\ Cardinality(OfOthers(SubSeq(q, n + 1, Len(q)))) <= Cardinality(OfOthers(q))
         /\ (\E k \in 1..n : q[k].file # Log) =>
              Cardinality(OfOthers(SubSeq(q, n + 1, Len(q)))) + 1 <= Cardinality(OfOthers(q))
<1> DEFINE p == SubSeq(q, n + 1, Len(q))
           later == {j \in OfOthers(q) : j > n}
           f == [i \in OfOthers(p) |-> i + n]
<1>1. PICK len \in Nat : len = Len(q)
  OBVIOUS
<1>2. Len(p) = len - n /\ \A i \in 1..(len - n) : p[i] = q[i + n]
  BY <1>1
<1>3. n \in 1..len
  BY <1>1
<1>4. p \in Seq(Changes)
  BY <1>1, <1>3
<1> HIDE DEF p
<1>5. \A i \in OfOthers(p) : i \in 1..(len - n) /\ q[i + n].file # Log
  BY <1>2 DEF OfOthers
<1>6. \A i \in OfOthers(p) : i + n \in 1..len /\ i + n > n
  BY ONLY <1>5, <1>3, len \in Nat
<1>7. \A i \in OfOthers(p) : i + n \in later
  BY <1>1, <1>5, <1>6 DEF OfOthers
<1>8. \A i, j \in OfOthers(p) : i + n = j + n => i = j
  BY ONLY <1>5, <1>3, len \in Nat
<1>9. f \in Injection(OfOthers(p), later)
  BY <1>7, <1>8 DEF Injection, IsInjective
<1>10. /\ IsFiniteSet(OfOthers(q)) /\ Cardinality(OfOthers(q)) \in Nat
       /\ Cardinality(OfOthers(p)) \in Nat
  BY <1>4, OfOthersFinite
<1>11. later \in SUBSET OfOthers(q)
  OBVIOUS
<1> HIDE DEF f, later
<1>12. IsFiniteSet(later) /\ Cardinality(later) <= Cardinality(OfOthers(q)) /\ Cardinality(later) \in Nat
  BY <1>10, <1>11, FS_Subset, FS_CardinalityType
<1>13. Cardinality(OfOthers(p)) <= Cardinality(later)
  BY <1>9, <1>12, FS_Injection
<1>14. ASSUME NEW k \in 1..n, q[k].file # Log
       PROVE  Cardinality(later) + 1 <= Cardinality(OfOthers(q))
  <2>1. k \in OfOthers(q) /\ k \notin later
    <3>1. k \in 1..len /\ ~(k > n)
      BY ONLY <1>3, len \in Nat, k \in 1..n
    <3>2. QED BY <1>1, <1>14, <3>1 DEF OfOthers, later
  <2>2. later # OfOthers(q)
    BY <2>1
  <2>3. QED BY <1>10, <1>11, <1>12, <2>2, FS_Subset
<1>15. QED BY <1>10, <1>12, <1>13, <1>14 DEF p

LEMMA WatchInit == Watch!Init => WatchInv
<1> SUFFICES ASSUME Watch!Init PROVE WatchInv
  OBVIOUS
<1>1. WatchTyped
  BY DEF Watch!Init, Watch!NoWatcher, WatchTyped
<1>2. ToldInv
  BY DEF Watch!Init, ToldInv
<1>3. OfOthers(raw) = {}
  BY DEF Watch!Init, OfOthers
<1>4. TicksInv
  <2>1. ticks = 0 /\ made = 0 /\ watcher.pending = {} /\ Len(channel) = 0
    BY DEF Watch!Init, Watch!NoWatcher
  <2>2. Cardinality(OfOthers(raw)) = 0
    BY <1>3, FS_EmptySet
  <2>3. QED BY <2>1, <2>2 DEF TicksInv
<1>5. QED BY <1>1, <1>2, <1>4 DEF WatchInv

LEMMA RegisterKeeps ==
  ASSUME WatchInv, NEW r \in Watch!Registrations, Watch!Register(r) PROVE WatchInv'
<1>1. PICK requested : requested = UNION {Watch!Supported(s) : s \in Watch!Range(r)}
  OBVIOUS
<1>2. requested \subseteq Watch!Watches
  BY <1>1 DEF Watch!Registrations, Watch!Range, Watch!Supported
<1>3. UNCHANGED <<changed, informed, made, ticks>>
  BY DEF Watch!Register
<1>4. CASE UNCHANGED <<watcher, raw, channel>>
  BY <1>3, <1>4
  DEF WatchInv, WatchTyped, ToldInv, TicksInv, UnderWay, Covered, Event
<1>5. CASE ~UNCHANGED <<watcher, raw, channel>>
  <2>1. /\ watcher' = [worker |-> watcher.worker + 1, watches |-> requested, pending |-> {}]
        /\ raw' = <<>> /\ channel' = <<>>
    BY <1>1, <1>5 DEF Watch!Register
  <2>2. WatchTyped'
    BY <1>2, <1>3, <2>1 DEF WatchInv, WatchTyped
  <2>3. \A c \in changed' : c.worker <= watcher'.worker /\ c.worker # watcher'.worker
    BY <1>3, <2>1 DEF WatchInv, WatchTyped, ToldInv
  <2>4. ToldInv'
    BY <2>3 DEF ToldInv
  <2>5. OfOthers(raw') = {}
    BY <2>1 DEF OfOthers
  <2>6. Cardinality(OfOthers(raw')) = 0 /\ watcher'.pending = {} /\ Len(channel') = 0
    BY <2>1, <2>5, FS_EmptySet
  <2>7. PICK n \in Nat : n = Cardinality(OfOthers(raw))
    BY OfOthersFinite DEF WatchInv, WatchTyped
  <2>8. ticks <= made
    <3>1. PICK m \in Nat : m = Len(channel)
      BY DEF WatchInv, WatchTyped
    <3>2. PICK p \in {0, 1} : p = IF watcher.pending = {} THEN 0 ELSE 1
      OBVIOUS
    <3>3. ticks + p + m + n <= made /\ ticks \in Nat /\ made \in Nat
      BY <2>7, <3>1, <3>2 DEF WatchInv, WatchTyped, TicksInv
    <3>4. QED BY ONLY <3>3, n \in Nat, m \in Nat, p \in {0, 1}
  <2>9. TicksInv'
    BY <1>3, <2>6, <2>8 DEF TicksInv, WatchInv, WatchTyped
  <2>10. QED BY <2>2, <2>4, <2>9 DEF WatchInv
<1>6. QED BY <1>4, <1>5

LEMMA ChangeKeeps ==
  ASSUME WatchInv, NEW f \in Files, NEW kind \in Watch!EventKinds, Watch!Change(f, kind)
  PROVE  WatchInv'
<1>1. PICK e : e = [file |-> f, kind |-> kind]
  OBVIOUS
<1>2. e \in Changes
  BY <1>1 DEF Changes
<1>3. /\ raw' = Append(raw, e) /\ made' = made + 1
      /\ changed' = changed \cup {[worker |-> watcher.worker, file |-> f, kind |-> kind]}
      /\ UNCHANGED <<watcher, channel, informed, ticks>>
      /\ raw \in Seq(Changes)
  BY <1>1 DEF Watch!Change, WatchInv, WatchTyped
<1>4. WatchTyped'
  BY <1>2, <1>3 DEF WatchInv, WatchTyped
<1>5. /\ Len(raw') = Len(raw) + 1 /\ Len(raw) \in Nat
      /\ raw'[Len(raw')] = e /\ \A i \in 1..Len(raw) : i \in 1..Len(raw') /\ raw'[i] = raw[i]
  BY <1>2, <1>3
<1>6. \A x : UnderWay(x) => UnderWay(x)'
  BY <1>3, <1>5 DEF UnderWay
<1>7. UnderWay(e)'
  <2>1. Len(raw') \in 1..Len(raw')
    BY <1>5
  <2>2. QED BY <1>5, <2>1 DEF UnderWay
<1>8. ToldInv'
  <2>1. \A c : Covered(c)' <=> Covered(c)
    BY <1>3 DEF Covered
  <2>2. ASSUME NEW c \in changed'
        PROVE  /\ c.worker <= watcher.worker
               /\ c.worker = watcher.worker /\ Covered(c) =>
                    UnderWay(Event(c))' \/ \A s \in Servers : Event(c) \in informed[s]
    <3>1. CASE c \in changed
      BY <1>6, <3>1 DEF WatchInv, ToldInv
    <3>2. CASE c = [worker |-> watcher.worker, file |-> f, kind |-> kind]
      <4>1. Event(c) = e /\ c.worker = watcher.worker /\ watcher.worker \in Nat
        BY <1>1, <3>2 DEF Event, WatchInv, WatchTyped
      <4>2. QED BY <1>7, <4>1
    <3>3. QED BY <1>3, <2>2, <3>1, <3>2
  <2>3. QED BY <1>3, <2>1, <2>2 DEF ToldInv
<1>9. TicksInv'
  <2>1. PICK n \in Nat : n = Cardinality(OfOthers(raw))
    BY <1>3, OfOthersFinite
  <2>2. PICK n2 : n2 = Cardinality(OfOthers(raw'))
    OBVIOUS
  <2>3. n2 \in {n, n + 1}
    BY <1>2, <1>3, <2>1, <2>2, OfOthersAppend
  <2>4. PICK m \in Nat : m = Len(channel)
    BY DEF WatchInv, WatchTyped
  <2>5. PICK p \in {0, 1} : p = IF watcher.pending = {} THEN 0 ELSE 1
    OBVIOUS
  <2>6. ticks + p + m + n <= made /\ ticks \in Nat /\ made \in Nat
    BY <2>1, <2>4, <2>5 DEF WatchInv, WatchTyped, TicksInv
  <2>7. ticks + p + m + n2 <= made + 1
    BY ONLY <2>3, <2>6, n \in Nat, m \in Nat, p \in {0, 1}
  <2>8. QED BY <1>3, <2>2, <2>4, <2>5, <2>7 DEF TicksInv
<1>10. QED BY <1>4, <1>8, <1>9 DEF WatchInv

\* What the debouncer hands over.
LEMMA BatchHas ==
  ASSUME WatchInv, NEW n \in 1..Len(raw), NEW batch,
         batch = UNION {Watch!EventFileChanges(e, watcher.watches) :
                          e \in Watch!Range(SubSeq(raw, 1, n))}
  PROVE  /\ batch \subseteq Changes
         /\ batch # {} => \E k \in 1..n : raw[k].file # Log
         /\ \A c : Covered(c) /\ (\E k \in 1..n : raw[k] = Event(c)) => Event(c) \in batch
<1>1. raw \in Seq(Changes) /\ Len(raw) \in Nat
  BY DEF WatchInv, WatchTyped
<1>2. \A k \in 1..n : k \in 1..Len(raw) /\ raw[k] \in Changes
  BY <1>1
<1>3. Watch!Range(SubSeq(raw, 1, n)) = {raw[k] : k \in 1..n}
  <2>1. Len(SubSeq(raw, 1, n)) = n /\ \A k \in 1..n : SubSeq(raw, 1, n)[k] = raw[k]
    BY <1>1
  <2>2. DOMAIN SubSeq(raw, 1, n) = 1..n
    BY <1>1, <2>1
  <2>3. QED BY <2>1, <2>2 DEF Watch!Range
<1>4. batch = UNION {Watch!EventFileChanges(raw[k], watcher.watches) : k \in 1..n}
  BY <1>3
<1>5. \A x : x \in batch <=> \E k \in 1..n : x \in Watch!EventFileChanges(raw[k], watcher.watches)
  BY <1>4
<1>6. \A x, k : x \in Watch!EventFileChanges(raw[k], watcher.watches) <=>
                  Covered(raw[k]) /\ x = Event(raw[k])
  BY DEF Watch!EventFileChanges, Covered, Event
<1>7. batch \subseteq Changes
  <2>1. \A k \in 1..n : Event(raw[k]) = raw[k]
    BY <1>2 DEF Changes, Event
  <2>2. ASSUME NEW x \in batch PROVE x \in Changes
    <3>1. PICK k \in 1..n : x \in Watch!EventFileChanges(raw[k], watcher.watches)
      BY <1>5
    <3>2. x = Event(raw[k])
      BY <1>6, <3>1
    <3>3. QED BY <1>2, <2>1, <3>2
  <2>3. QED BY <2>2
<1>8. ASSUME batch # {} PROVE \E k \in 1..n : raw[k].file # Log
  <2>1. PICK x : x \in batch
    BY <1>8
  <2>2. PICK k \in 1..n : x \in Watch!EventFileChanges(raw[k], watcher.watches)
    BY <1>5, <2>1
  <2>3. Covered(raw[k])
    BY <1>6, <2>2
  <2>4. QED BY <2>3 DEF Covered
<1>9. ASSUME NEW c, Covered(c), NEW k \in 1..n, raw[k] = Event(c)
      PROVE  Event(c) \in batch
  <2>1. raw[k].file = c.file /\ raw[k].kind = c.kind
    BY <1>9 DEF Event
  <2>2. Covered(raw[k]) /\ Event(raw[k]) = Event(c)
    BY <1>9, <2>1 DEF Covered, Event
  <2>3. QED BY <1>5, <1>6, <2>2
<1>10. QED BY <1>7, <1>8, <1>9

LEMMA DebouncedKeeps == ASSUME WatchInv, Watch!Debounced PROVE WatchInv'
<1>1. PICK n, batch :
        /\ n \in 1..Len(raw)
        /\ batch = UNION {Watch!EventFileChanges(e, watcher.watches) :
                            e \in Watch!Range(SubSeq(raw, 1, n))}
        /\ raw' = SubSeq(raw, n + 1, Len(raw))
        /\ channel' = IF batch = {} THEN channel ELSE Append(channel, batch)
  BY DEF Watch!Debounced
<1>2. UNCHANGED <<watcher, changed, informed, made, ticks>>
  BY DEF Watch!Debounced
<1>3. raw \in Seq(Changes) /\ Len(raw) \in Nat /\ channel \in Seq(SUBSET Changes)
  BY DEF WatchInv, WatchTyped
<1>4. /\ batch \subseteq Changes
      /\ batch # {} => \E k \in 1..n : raw[k].file # Log
      /\ \A c : Covered(c) /\ (\E k \in 1..n : raw[k] = Event(c)) => Event(c) \in batch
  BY <1>1, BatchHas
<1>5. PICK len \in Nat : len = Len(raw)
  BY <1>3
<1>6. n \in 1..len
  BY <1>1, <1>5
<1>7. /\ raw' \in Seq(Changes) /\ Len(raw') = len - n
      /\ \A i \in 1..(len - n) : raw'[i] = raw[i + n]
  <2>1. n + 1 \in 1..(len + 1) /\ len \in n..len
    BY <1>6
  <2>2. /\ raw' = SubSeq(raw, n + 1, len)
        /\ \A i \in (n + 1)..len : raw[i] \in Changes
    BY <1>1, <1>3, <1>5, <2>1
  <2>3. /\ raw' \in Seq(Changes)
        /\ Len(raw') = IF n + 1 <= len THEN len - (n + 1) + 1 ELSE 0
        /\ \A i \in 1..(len - (n + 1) + 1) : raw'[i] = raw[(n + 1) + i - 1]
    BY <1>3, <1>5, <2>1, <2>2, SubSeqProperties
  <2>4. \A i \in 1..(len - n) : (n + 1) + i - 1 = i + n
    BY <1>6
  <2>5. len - (n + 1) + 1 = len - n /\ (n + 1 <= len \/ len - n = 0)
    BY <1>6
  <2>6. QED BY <2>3, <2>4, <2>5
<1>8. /\ channel' \in Seq(SUBSET Changes)
      /\ \A i \in 1..Len(channel) : i \in 1..Len(channel') /\ channel'[i] = channel[i]
      /\ batch # {} => Len(channel') \in 1..Len(channel') /\ channel'[Len(channel')] = batch
      /\ Len(channel') = IF batch = {} THEN Len(channel) ELSE Len(channel) + 1
  <2>1. CASE batch = {}
    BY <1>1, <1>3, <2>1
  <2>2. CASE batch # {}
    BY <1>1, <1>3, <1>4, <2>2
  <2>3. QED BY <2>1, <2>2
<1>9. WatchTyped'
  BY <1>2, <1>7, <1>8 DEF WatchInv, WatchTyped
<1>10. ASSUME NEW c, Covered(c), UnderWay(Event(c)) PROVE UnderWay(Event(c))'
  <2>1. CASE \E i \in 1..Len(raw) : raw[i] = Event(c)
    <3>1. PICK i \in 1..len : raw[i] = Event(c)
      BY <1>5, <2>1
    <3>2. CASE i <= n
      <4>1. i \in 1..n
        BY ONLY <1>6, <3>2, len \in Nat, i \in 1..len
      <4>2. Event(c) \in batch
        BY <1>4, <1>10, <3>1, <4>1
      <4>3. QED BY <1>8, <4>2 DEF UnderWay
    <3>3. CASE i > n
      <4>1. i - n \in 1..(len - n) /\ (i - n) + n = i
        BY ONLY <1>6, <3>3, len \in Nat, i \in 1..len
      <4>2. raw'[i - n] = Event(c)
        BY <1>7, <3>1, <4>1
      <4>3. QED BY <1>7, <4>1, <4>2 DEF UnderWay
    <3>4. QED BY ONLY <1>6, <3>2, <3>3, len \in Nat, i \in 1..len
  <2>2. CASE Event(c) \in watcher.pending
    BY <1>2, <2>2 DEF UnderWay
  <2>3. CASE \E i \in 1..Len(channel) : Event(c) \in channel[i]
    BY <1>8, <2>3 DEF UnderWay
  <2>4. QED BY <1>10, <2>1, <2>2, <2>3 DEF UnderWay
<1>11. ToldInv'
  <2>1. \A c : Covered(c)' <=> Covered(c)
    BY <1>2 DEF Covered
  <2>2. QED BY <1>2, <1>10, <2>1 DEF ToldInv, WatchInv
<1>12. TicksInv'
  <2>1. PICK a : a = Cardinality(OfOthers(raw))
    OBVIOUS
  <2>2. PICK b : b = Cardinality(OfOthers(raw'))
    OBVIOUS
  <2>3. a \in Nat /\ b \in Nat
    BY <1>3, <1>7, <2>1, <2>2, OfOthersFinite
  <2>4. PICK m \in Nat : m = Len(channel)
    BY <1>3
  <2>5. PICK m2 : m2 = Len(channel')
    OBVIOUS
  <2>6. (m2 = m /\ b <= a) \/ (m2 = m + 1 /\ b + 1 <= a)
    BY <1>1, <1>3, <1>4, <1>8, <2>1, <2>2, <2>4, <2>5, OfOthersTaken
  <2>7. PICK p \in {0, 1} : p = IF watcher.pending = {} THEN 0 ELSE 1
    OBVIOUS
  <2>8. ticks + p + m + a <= made /\ ticks \in Nat /\ made \in Nat
    BY <2>1, <2>4, <2>7 DEF WatchInv, WatchTyped, TicksInv
  <2>9. ticks + p + m2 + b <= made
    BY ONLY <2>3, <2>6, <2>8, m \in Nat, p \in {0, 1}
  <2>10. QED BY <1>2, <2>2, <2>5, <2>7, <2>9 DEF TicksInv
<1>13. QED BY <1>9, <1>11, <1>12 DEF WatchInv

LEMMA FromFileWatcherKeeps == ASSUME WatchInv, Watch!FromFileWatcher PROVE WatchInv'
<1>1. PICK batch : batch = Head(channel)
  OBVIOUS
<1>2. channel # <<>> /\ channel \in Seq(SUBSET Changes) /\ channel' = Tail(channel)
  BY DEF Watch!FromFileWatcher, WatchInv, WatchTyped
<1>3. PICK len \in Nat : len = Len(channel)
  BY <1>2
<1>4. /\ len >= 1 /\ batch = channel[1] /\ batch \subseteq Changes
      /\ channel' \in Seq(SUBSET Changes) /\ Len(channel') = len - 1
      /\ \A i \in 1..(len - 1) : channel'[i] = channel[i + 1]
  BY <1>1, <1>2, <1>3
<1>5. UNCHANGED <<changed, raw, informed, made, ticks>>
  BY DEF Watch!FromFileWatcher
<1>6. watcher \in [worker : Nat, watches : SUBSET Watch!Watches, pending : SUBSET Changes]
  BY DEF WatchInv, WatchTyped
<1>7. watcher' = [watcher EXCEPT !.pending = @ \cup batch]
  BY <1>1 DEF Watch!FromFileWatcher
<1>8. /\ watcher' \in [worker : Nat, watches : SUBSET Watch!Watches, pending : SUBSET Changes]
      /\ watcher'.worker = watcher.worker /\ watcher'.watches = watcher.watches
      /\ watcher'.pending = watcher.pending \cup batch
  BY <1>4, <1>6, <1>7
<1>9. WatchTyped'
  BY <1>4, <1>5, <1>8 DEF WatchInv, WatchTyped
<1>10. ASSUME NEW e, UnderWay(e) PROVE UnderWay(e)'
  <2>1. CASE \E i \in 1..Len(channel) : e \in channel[i]
    <3>1. PICK i \in 1..len : e \in channel[i]
      BY <1>3, <2>1
    <3>2. CASE i = 1
      BY <1>4, <1>8, <3>1, <3>2 DEF UnderWay
    <3>3. CASE i # 1
      <4>1. i - 1 \in 1..(len - 1) /\ (i - 1) + 1 = i
        BY ONLY <3>3, len \in Nat, i \in 1..len
      <4>2. e \in channel'[i - 1]
        BY <1>4, <3>1, <4>1
      <4>3. QED BY <1>4, <4>1, <4>2 DEF UnderWay
    <3>4. QED BY <3>2, <3>3
  <2>2. CASE e \in watcher.pending
    BY <1>8, <2>2 DEF UnderWay
  <2>3. CASE \E i \in 1..Len(raw) : raw[i] = e
    BY <1>5, <2>3 DEF UnderWay
  <2>4. QED BY <1>10, <2>1, <2>2, <2>3 DEF UnderWay
<1>11. ToldInv'
  <2>1. \A c : Covered(c)' <=> Covered(c)
    BY <1>8 DEF Covered
  <2>2. QED BY <1>5, <1>8, <1>10, <2>1 DEF ToldInv, WatchInv
<1>12. TicksInv'
  <2>1. PICK a \in Nat : a = Cardinality(OfOthers(raw))
    BY OfOthersFinite DEF WatchInv, WatchTyped
  <2>2. PICK p \in {0, 1} : p = IF watcher.pending = {} THEN 0 ELSE 1
    OBVIOUS
  <2>3. PICK p2 \in {0, 1} : p2 = IF watcher'.pending = {} THEN 0 ELSE 1
    OBVIOUS
  <2>4. ticks + p + len + a <= made /\ ticks \in Nat /\ made \in Nat
    BY <1>3, <2>1, <2>2 DEF WatchInv, WatchTyped, TicksInv
  <2>5. ticks + p2 + (len - 1) + a <= made
    BY ONLY <2>4, a \in Nat, len \in Nat, p \in {0, 1}, p2 \in {0, 1}
  <2>6. QED BY <1>4, <1>5, <2>1, <2>3, <2>5 DEF TicksInv
<1>13. QED BY <1>9, <1>11, <1>12 DEF WatchInv

LEMMA FromPendingFileWatcherKeeps == ASSUME WatchInv, Watch!FromPendingFileWatcher PROVE WatchInv'
<1>1. PICK e : e = [file |-> Log, kind |-> "change"]
  OBVIOUS
<1>2. e \in Changes /\ e.file = Log
  BY <1>1 DEF Changes, Watch!EventKinds
<1>3. /\ raw' = Append(raw, e) /\ ticks' = ticks + 1
      /\ watcher.pending # {}
      /\ informed' = [s \in Servers |-> informed[s] \cup watcher.pending]
      /\ watcher' = [watcher EXCEPT !.pending = {}]
      /\ UNCHANGED <<channel, changed, made>>
      /\ raw \in Seq(Changes)
      /\ watcher \in [worker : Nat, watches : SUBSET Watch!Watches, pending : SUBSET Changes]
  BY <1>1 DEF Watch!FromPendingFileWatcher, WatchInv, WatchTyped
<1>4. /\ watcher' \in [worker : Nat, watches : SUBSET Watch!Watches, pending : SUBSET Changes]
      /\ watcher'.worker = watcher.worker /\ watcher'.watches = watcher.watches
      /\ watcher'.pending = {}
  BY <1>3
<1>5. WatchTyped'
  <2>1. raw' \in Seq(Changes)
    BY <1>2, <1>3
  <2>2. QED BY <1>3, <1>4, <2>1 DEF WatchInv, WatchTyped
<1>6. \A i \in 1..Len(raw) : i \in 1..Len(raw') /\ raw'[i] = raw[i]
  BY <1>2, <1>3
<1>7. \A x : UnderWay(x) => UnderWay(x)' \/ \A s \in Servers : x \in informed'[s]
  BY <1>3, <1>6 DEF UnderWay
<1>8. ToldInv'
  <2>1. \A c : Covered(c)' <=> Covered(c)
    BY <1>4 DEF Covered
  <2>2. \A x : (\A s \in Servers : x \in informed[s]) => \A s \in Servers : x \in informed'[s]
    BY <1>3
  <2>3. QED BY <1>3, <1>4, <1>7, <2>1, <2>2 DEF ToldInv, WatchInv
<1>9. TicksInv'
  <2>1. PICK a \in Nat : a = Cardinality(OfOthers(raw))
    BY <1>3, OfOthersFinite
  <2>2. Cardinality(OfOthers(raw')) = a
    BY <1>2, <1>3, <2>1, OfOthersAppend
  <2>3. PICK m \in Nat : m = Len(channel)
    BY DEF WatchInv, WatchTyped
  <2>4. ticks + 1 + m + a <= made /\ ticks \in Nat /\ made \in Nat
    BY <1>3, <2>1, <2>3 DEF WatchInv, WatchTyped, TicksInv
  <2>5. (ticks + 1) + 0 + m + a <= made
    BY ONLY <2>4, a \in Nat, m \in Nat
  <2>6. QED BY <1>3, <1>4, <2>2, <2>3, <2>5 DEF TicksInv
<1>10. QED BY <1>5, <1>8, <1>9 DEF WatchInv

LEMMA WatchStep == ASSUME WatchInv, [Watch!Next]_ofFileWatch PROVE WatchInv'
<1>1. CASE Watch!SecondPasses \/ Watch!Traffic \/ UNCHANGED ofFileWatch \/ UNCHANGED Watch!vars
  BY <1>1
  DEF Watch!SecondPasses, Watch!Traffic, ofFileWatch, Watch!vars,
      WatchInv, WatchTyped, ToldInv, TicksInv, UnderWay, Covered, Event
<1>2. QED
  BY <1>1, RegisterKeeps, ChangeKeeps, DebouncedKeeps, FromFileWatcherKeeps,
     FromPendingFileWatcherKeeps
  DEF Watch!Next

\* Servers are told of every change that a registered pattern covers, and no more often
\* than there were changes: what is logged then does not keep them busy (text_sync.rs).
THEOREM WatchCorrect == Spec => []ChangesAreTold
<1> DEFINE Inv == part = "file watch" => WatchInv
<1>1. Init => Inv
  BY WatchInit DEF Init
<1>2. Inv /\ [Next]_vars => Inv'
  <2> SUFFICES ASSUME Inv, [Next]_vars, part' = "file watch" PROVE WatchInv'
    OBVIOUS
  <2>1. part = "file watch" /\ WatchInv
    BY DEF Next, vars
  <2>2. [Watch!Next]_ofFileWatch
    BY <2>1 DEF Next, vars
  <2>3. QED BY <2>1, <2>2, WatchStep
<1>3. Inv => ChangesAreTold
  <2> SUFFICES ASSUME WatchInv PROVE Watch!ChangesAreTold
    BY DEF ChangesAreTold
  <2>1. ticks <= made
    <3>1. PICK a \in Nat : a = Cardinality(OfOthers(raw))
      BY OfOthersFinite DEF WatchInv, WatchTyped
    <3>2. PICK m \in Nat : m = Len(channel)
      BY DEF WatchInv, WatchTyped
    <3>3. PICK p \in {0, 1} : p = IF watcher.pending = {} THEN 0 ELSE 1
      OBVIOUS
    <3>4. ticks + p + m + a <= made /\ ticks \in Nat /\ made \in Nat
      BY <3>1, <3>2, <3>3 DEF WatchInv, WatchTyped, TicksInv
    <3>5. QED BY ONLY <3>4, a \in Nat, m \in Nat, p \in {0, 1}
  <2>2. Watch!Settled /\ ~panic => \A e : ~UnderWay(e)
    BY DEF Watch!Settled, UnderWay
  <2>3. QED BY <2>1, <2>2 DEF Watch!ChangesAreTold, WatchInv, ToldInv, Covered, Event
<1>4. QED BY <1>1, <1>2, <1>3, PTL DEF Spec

-----------------------------------------------------------------------------
(***************************************************************************)
(* Code actions.                                                           *)
(***************************************************************************)

CodeActing == INSTANCE CodeActionsProofs WITH
  version <- revision, asked <- sent, resolving <- unresolved, made <- performed,
  MaxVersion <- MaxRevision

LEMMA SameAnswers ==
  /\ CodeAction!Failure = CodeActing!Failure /\ CodeAction!Null = CodeActing!Null
  /\ \A x : CodeAction!List(x) = CodeActing!List(x)
  /\ \A c : CodeAction!Offered(c) = CodeActing!Offered(c)
  /\ \A c : CodeAction!Succeeded(c) = CodeActing!Succeeded(c)
  /\ \A c, s : CodeAction!Only(c, s) = CodeActing!Only(c, s)
  /\ \A c, s : CodeAction!Answers(c, s) = CodeActing!Answers(c, s)
  /\ \A c : CodeAction!AskAgain(c) <=> CodeActing!AskAgain(c)
  /\ \A c : CodeAction!Fresh(c) <=> CodeActing!Fresh(c)
  /\ \A c : CodeAction!Single(c) <=> CodeActing!Single(c)
  /\ \A c : CodeAction!Wanted(c) = CodeActing!Wanted(c)
<1>1. /\ CodeAction!Failure = CodeActing!Failure /\ CodeAction!Null = CodeActing!Null
      /\ \A x : CodeAction!List(x) = CodeActing!List(x)
  BY DEF CodeAction!Failure, CodeActing!Failure, CodeAction!Null, CodeActing!Null,
         CodeAction!List, CodeActing!List
<1>2. \A c : CodeAction!Offered(c) = CodeActing!Offered(c)
  BY DEF CodeAction!Offered, CodeActing!Offered
<1>3. \A c : CodeAction!Succeeded(c) = CodeActing!Succeeded(c)
  BY <1>1 DEF CodeAction!Succeeded, CodeActing!Succeeded
<1>4. \A c, s : CodeAction!Only(c, s) = CodeActing!Only(c, s)
  BY DEF CodeAction!Only, CodeActing!Only
<1>5. \A c, s : CodeAction!Answers(c, s) = CodeActing!Answers(c, s)
  BY <1>1, <1>4 DEF CodeAction!Answers, CodeActing!Answers
<1>6. \A c : CodeAction!AskAgain(c) <=> CodeActing!AskAgain(c)
  BY <1>1, <1>3 DEF CodeAction!AskAgain, CodeActing!AskAgain
<1>7. /\ \A c : CodeAction!Fresh(c) <=> CodeActing!Fresh(c)
      /\ \A c : CodeAction!Single(c) <=> CodeActing!Single(c)
  BY DEF CodeAction!Fresh, CodeActing!Fresh, CodeAction!Single, CodeActing!Single
<1>8. \A c : CodeAction!Wanted(c) = CodeActing!Wanted(c)
  BY <1>2 DEF CodeAction!Wanted, CodeActing!Wanted
<1>9. QED BY <1>1, <1>2, <1>3, <1>4, <1>5, <1>6, <1>7, <1>8

LEMMA SameDoing ==
  /\ \A a, m : CodeAction!Commands(a, m) = CodeActing!Commands(a, m)
  /\ \A a : CodeAction!MayResolve(a) = CodeActing!MayResolve(a)
  /\ \A a, s, m : CodeAction!Do(a, s, m) <=> CodeActing!Do(a, s, m)
  /\ \A a : CodeAction!Resolved(a) = CodeActing!Resolved(a)
  /\ \A c : CodeAction!Ask(c) <=> CodeActing!Ask(c)
  /\ \A c, o, p : CodeAction!End(c, o, p) <=> CodeActing!End(c, o, p)
<1>1. \A a, m : CodeAction!Commands(a, m) = CodeActing!Commands(a, m)
  BY DEF CodeAction!Commands, CodeActing!Commands
<1>2. /\ \A a : CodeAction!MayResolve(a) = CodeActing!MayResolve(a)
      /\ \A a : CodeAction!Resolved(a) = CodeActing!Resolved(a)
      /\ \A c : CodeAction!Ask(c) <=> CodeActing!Ask(c)
      /\ \A c, o, p : CodeAction!End(c, o, p) <=> CodeActing!End(c, o, p)
  BY DEF CodeAction!MayResolve, CodeActing!MayResolve, CodeAction!Resolved, CodeActing!Resolved,
         CodeAction!Ask, CodeActing!Ask, CodeAction!End, CodeActing!End
<1>3. ASSUME NEW a, NEW s, NEW m
      PROVE  CodeAction!Do(a, s, m) <=> CodeActing!Do(a, s, m)
  <2>1. PICK cs : cs = CodeAction!Commands(a, m)
    OBVIOUS
  <2>2. cs = CodeActing!Commands(a, m)
    BY <1>1, <2>1
  <2>3. PICK q : q = [n \in DOMAIN cs |->
                        [what |-> cs[n], action |-> a, sync |-> s /\ cs[n] # "resolve"]]
    OBVIOUS
  <2>4. CodeAction!Do(a, s, m) <=> toServer' = toServer \o q
    BY <2>1, <2>3, Zenon DEF CodeAction!Do
  <2>5. CodeActing!Do(a, s, m) <=> toServer' = toServer \o q
    BY <2>2, <2>3, Zenon DEF CodeActing!Do
  <2>6. QED BY <2>4, <2>5
<1>4. QED BY <1>1, <1>2, <1>3

LEMMA SameEditorCodeActions ==
  \A c : CodeAction!EditorCodeActions(c) <=> CodeActing!EditorCodeActions(c)
<1> SUFFICES ASSUME NEW c
             PROVE  CodeAction!EditorCodeActions(c) <=> CodeActing!EditorCodeActions(c)
  OBVIOUS
<1>1. /\ CodeAction!Offered(c) = CodeActing!Offered(c)
      /\ CodeAction!Succeeded(c) = CodeActing!Succeeded(c)
      /\ CodeAction!AskAgain(c) <=> CodeActing!AskAgain(c)
      /\ CodeAction!Fresh(c) <=> CodeActing!Fresh(c)
      /\ CodeAction!Single(c) <=> CodeActing!Single(c)
      /\ CodeAction!Wanted(c) = CodeActing!Wanted(c)
  BY SameAnswers
<1>2. ASSUME NEW a
      PROVE  CodeAction!Do(a, c.way = "sync", CodeAction!MayResolve(a))
               <=> CodeActing!Do(a, c.way = "sync", CodeActing!MayResolve(a))
  <2>1. PICK sync : sync = (c.way = "sync")
    OBVIOUS
  <2>2. PICK m : m = CodeAction!MayResolve(a)
    OBVIOUS
  <2>3. m = CodeActing!MayResolve(a)
    BY <2>2, SameDoing
  <2>4. CodeAction!Do(a, sync, m) <=> CodeActing!Do(a, sync, m)
    BY SameDoing
  <2>5. QED BY <2>1, <2>2, <2>3, <2>4
<1>3. \A x : CodeAction!Ask(x) <=> CodeActing!Ask(x)
  BY SameDoing
<1>4. \A o, p : CodeAction!End(c, o, p) <=> CodeActing!End(c, o, p)
  BY SameDoing
<1> DEFINE Again == [c EXCEPT !.start = "line", !.round = @ + 1, !.waiting = able]
           EndsAs == IF c.way = "hook" THEN "indicator"
                     ELSE IF CodeAction!Offered(c) = {} THEN "error" ELSE "menu"
<1>5. CodeAction!Ask(Again) <=> CodeActing!Ask(Again)
  BY <1>3
<1>6. CodeAction!End(c, EndsAs, {}) <=> CodeActing!End(c, EndsAs, {})
  BY <1>4
<1>7. (\A a \in CodeAction!Wanted(c) :
          CodeAction!Do(a, c.way = "sync", CodeAction!MayResolve(a)))
        <=> (\A a \in CodeActing!Wanted(c) :
               CodeActing!Do(a, c.way = "sync", CodeActing!MayResolve(a)))
  BY <1>1, <1>2
<1>8. CodeAction!Cardinality(CodeAction!Wanted(c)) = CodeActing!Cardinality(CodeActing!Wanted(c))
  BY <1>1 DEF CodeAction!Cardinality, CodeActing!Cardinality
<1>9. QED
  BY <1>1, <1>4, <1>5, <1>6, <1>7, <1>8
  DEF CodeAction!EditorCodeActions, CodeActing!EditorCodeActions

LEMMA SameCodeActions ==
  /\ CodeAction!Init <=> CodeActing!Init
  /\ CodeAction!Next <=> CodeActing!Next
  /\ CodeAction!ActionsAreDone <=> CodeActing!ActionsAreDone
<1>1. CodeAction!Idle = CodeActing!Idle
  BY SameAnswers DEF CodeAction!Idle, CodeActing!Idle
<1>2. CodeAction!Init <=> CodeActing!Init
  BY <1>1 DEF CodeAction!Init, CodeActing!Init
<1>3. \A w, start, first : CodeAction!Request(w, start, first) <=> CodeActing!Request(w, start, first)
  BY <1>1, SameDoing DEF CodeAction!Request, CodeActing!Request
<1>4. /\ CodeAction!Type <=> CodeActing!Type
      /\ CodeAction!Perform <=> CodeActing!Perform
      /\ CodeAction!Resolve <=> CodeActing!Resolve
  BY DEF CodeAction!Type, CodeActing!Type, CodeAction!Blocked, CodeActing!Blocked,
         CodeAction!Perform, CodeActing!Perform, CodeAction!Resolve, CodeActing!Resolve
<1>5. \A s, a : CodeAction!Answer(s, a) <=> CodeActing!Answer(s, a)
  BY SameEditorCodeActions DEF CodeAction!Answer, CodeActing!Answer
<1>6. \A a : CodeAction!Choose(a) <=> CodeActing!Choose(a)
  BY SameAnswers, SameDoing DEF CodeAction!Choose, CodeActing!Choose
<1>7. \A a : CodeAction!ResolveAnswer(a) <=> CodeActing!ResolveAnswer(a)
  BY SameDoing
  DEF CodeAction!ResolveAnswer, CodeActing!ResolveAnswer, CodeAction!AskedToResolve,
      CodeActing!AskedToResolve, CodeAction!Resolves, CodeActing!Resolves
<1>8. CodeAction!Ways = CodeActing!Ways
  BY DEF CodeAction!Ways, CodeActing!Ways
<1>9. CodeAction!Next <=> CodeActing!Next
  BY <1>3, <1>4, <1>5, <1>6, <1>7, <1>8, SameAnswers DEF CodeAction!Next, CodeActing!Next
<1>10. /\ CodeAction!RangesAreCurrent <=> CodeActing!RangesAreCurrent
       /\ CodeAction!AskedAgainOnce <=> CodeActing!AskedAgainOnce
       /\ CodeAction!SyncIsCurrent <=> CodeActing!SyncIsCurrent
  BY DEF CodeAction!RangesAreCurrent, CodeActing!RangesAreCurrent, CodeAction!AskedAgainOnce,
         CodeActing!AskedAgainOnce, CodeAction!SyncIsCurrent, CodeActing!SyncIsCurrent
<1>11. CodeAction!KindsAsked <=> CodeActing!KindsAsked
  BY SameAnswers DEF CodeAction!KindsAsked, CodeActing!KindsAsked
<1>12. \A a : CodeAction!Meaning(a) = CodeActing!Meaning(a)
  BY SameDoing DEF CodeAction!Meaning, CodeActing!Meaning
<1>13. CodeAction!ActionIsDone <=> CodeActing!ActionIsDone
  BY <1>12 DEF CodeAction!ActionIsDone, CodeActing!ActionIsDone
<1>14. CodeAction!ActionsAreDone <=> CodeActing!ActionsAreDone
  BY <1>10, <1>11, <1>13 DEF CodeAction!ActionsAreDone, CodeActing!ActionsAreDone
<1>15. QED BY <1>2, <1>9, <1>14

\* A code action is done as a whole and by its server, and servers are asked about the
\* text as it is (code_action.rs).
THEOREM CodeActionsCorrect == Spec => []ActionsAreDone
<1> DEFINE Inv == part = "code actions" =>
             CodeActing!Inv /\ CodeActing!KindsInv /\ CodeActing!DoneInv
<1>1. CodeActing!ActionsOffered
  BY ActionsAssumption DEF CodeActing!ActionsOffered, CodeAction!Offers, CodeActing!Offers
<1>2. Init => Inv
  <2>1. CodeActing!Init => CodeActing!Inv /\ CodeActing!KindsInv /\ CodeActing!DoneInv
    BY CodeActing!InvInit, CodeActing!KindsInit
    DEF CodeActing!Init, CodeActing!Idle, CodeActing!DoneInv
  <2>2. QED BY <2>1, SameCodeActions DEF Init
<1>3. Inv /\ [Next]_vars => Inv'
  <2> SUFFICES ASSUME Inv, [Next]_vars, part' = "code actions"
               PROVE  (CodeActing!Inv /\ CodeActing!KindsInv /\ CodeActing!DoneInv)'
    OBVIOUS
  <2>1. part = "code actions" /\ CodeActing!Inv /\ CodeActing!KindsInv /\ CodeActing!DoneInv
    BY DEF Next, vars
  <2>2. CodeAction!Next \/ UNCHANGED ofCodeActions
    BY <2>1 DEF Next, vars
  <2>3. [CodeActing!Next]_(CodeActing!vars)
    BY <2>2, SameCodeActions DEF CodeActing!vars, ofCodeActions
  <2>4. QED BY <1>1, <2>1, <2>3, CodeActing!InvStep, CodeActing!KindsStep, CodeActing!DoneStep
<1>4. Inv => ActionsAreDone
  <2>1. CodeActing!Inv /\ CodeActing!KindsInv /\ CodeActing!DoneInv => CodeActing!ActionsAreDone
    BY <1>1, CodeActing!InvKinds, CodeActing!InvDone, CodeActing!InvSynchronous
    DEF CodeActing!ActionsAreDone, CodeActing!Inv, CodeActing!AskedWell
  <2>2. QED BY <2>1, SameCodeActions DEF ActionsAreDone
<1>5. QED BY <1>2, <1>3, <1>4, PTL DEF Spec

-----------------------------------------------------------------------------
(***************************************************************************)
(* Functions defined by recursion: that there are such functions is proved *)
(* by induction over their domain, as a minimal counterexample.            *)
(***************************************************************************)

LEMMA Induction ==
  ASSUME NEW G, 0 \in G, \A n \in Nat : n \in G => n + 1 \in G
  PROVE  Nat \subseteq G
<1> DEFINE Bad == {n \in Nat : n \notin G}
<1> SUFFICES ASSUME Bad # {} PROVE FALSE
  OBVIOUS
<1>1. IsWellFoundedOn(OpToRel(<, Nat), Nat)
  BY NatLessThanWellFounded
<1>2. Bad \subseteq Nat
  OBVIOUS
<1>3. PICK n \in Bad : \A m \in Bad : <<m, n>> \notin OpToRel(<, Nat)
  BY <1>1, <1>2, WFMin
<1>4. n \in Nat /\ n \notin G /\ n # 0
  OBVIOUS
<1>5. n - 1 \in Nat /\ n - 1 < n /\ (n - 1) + 1 = n
  BY <1>4
<1>6. <<n - 1, n>> \in OpToRel(<, Nat)
  BY <1>4, <1>5 DEF OpToRel
<1>7. n - 1 \in G
  BY <1>3, <1>5, <1>6
<1>8. QED BY <1>4, <1>5, <1>7

IsRun(g, state, cs, n) ==
  g = [k \in 0..n |-> IF k = 0 THEN state ELSE WorkspaceEdit!RunEdit(g[k - 1], cs[k])]

LEMMA RunExists ==
  ASSUME NEW state, NEW cs, NEW n \in Nat
  PROVE  \E g : IsRun(g, state, cs, n)
<1> DEFINE G == {m \in Nat : \E g : IsRun(g, state, cs, m)}
<1>1. 0 \in G
  <2> DEFINE g == [k \in 0..0 |-> state]
  <2>1. IsRun(g, state, cs, 0)
    BY DEF IsRun
  <2>2. QED BY <2>1
<1>2. ASSUME NEW m \in Nat, m \in G PROVE m + 1 \in G
  <2>1. PICK g : IsRun(g, state, cs, m)
    BY <1>2
  <2> DEFINE h == [k \in 0..m + 1 |->
                     IF k = m + 1 THEN WorkspaceEdit!RunEdit(g[m], cs[m + 1]) ELSE g[k]]
  <2>2. ASSUME NEW k \in 0..m + 1
        PROVE  h[k] = IF k = 0 THEN state ELSE WorkspaceEdit!RunEdit(h[k - 1], cs[k])
    <3>1. CASE k = m + 1
      <4>1. h[k - 1] = g[m] /\ h[k] = WorkspaceEdit!RunEdit(g[m], cs[m + 1])
        BY <3>1
      <4>2. QED BY <3>1, <4>1
    <3>2. CASE k # m + 1 /\ k # 0
      <4>1. k \in 0..m /\ k - 1 \in 0..m
        BY <3>2
      <4>2. g[k] = WorkspaceEdit!RunEdit(g[k - 1], cs[k])
        BY <2>1, <3>2, <4>1 DEF IsRun
      <4>3. h[k] = g[k] /\ h[k - 1] = g[k - 1]
        BY <3>2, <4>1
      <4>4. QED BY <3>2, <4>2, <4>3
    <3>3. CASE k = 0
      <4>1. g[0] = state
        BY <2>1 DEF IsRun
      <4>2. QED BY <3>3, <4>1
    <3>4. QED BY <3>1, <3>2, <3>3
  <2>3. h = [k \in 0..m + 1 |-> h[k]]
    OBVIOUS
  <2> HIDE DEF h
  <2>4. IsRun(h, state, cs, m + 1)
    BY <2>2, <2>3 DEF IsRun
  <2>5. QED BY <2>4
<1> HIDE DEF G
<1>3. n \in G
  BY <1>1, <1>2, Induction
<1>4. QED BY <1>3 DEF G

\* The editor runs the edits one after the other.
LEMMA RunSteps ==
  ASSUME WorkspaceEdit!Run, Len(command) \in Nat
  PROVE  \E g : /\ g[0] = [buffers |-> buffers, disk |-> disk]
                /\ \A k \in 1..Len(command) : g[k] = WorkspaceEdit!RunEdit(g[k - 1], command[k])
                /\ buffers' = g[Len(command)].buffers /\ disk' = g[Len(command)].disk
<1> DEFINE s == [buffers |-> buffers, disk |-> disk]
           g == CHOOSE g : g = [k \in 0..Len(command) |->
                  IF k = 0 THEN s ELSE WorkspaceEdit!RunEdit(g[k - 1], command[k])]
<1>1. buffers' = g[Len(command)].buffers /\ disk' = g[Len(command)].disk
  BY DEF WorkspaceEdit!Run
<1>2. PICK h : IsRun(h, s, command, Len(command))
  BY RunExists
<1>3. g = [k \in 0..Len(command) |-> IF k = 0 THEN s ELSE WorkspaceEdit!RunEdit(g[k - 1], command[k])]
  BY <1>2 DEF IsRun
<1> HIDE DEF g
<1>4. g[0] = s
  BY <1>3
<1>5. ASSUME NEW k \in 1..Len(command)
      PROVE  g[k] = WorkspaceEdit!RunEdit(g[k - 1], command[k])
  BY <1>3
<1>6. QED BY <1>1, <1>4, <1>5

\* What running the command does to one file, if at most one edit is about it.
LEMMA RunLeaves ==
  ASSUME WorkspaceEdit!Run, NEW n \in Nat, n = Len(command),
         DOMAIN buffers = WorkspaceEdit!Open, DOMAIN disk = WorkspaceEdit!Paths,
         \A k \in 1..n : command[k].path \in WorkspaceEdit!Open,
         NEW p \in WorkspaceEdit!Paths,
         \A j, k \in 1..n : command[j].path = p /\ command[k].path = p => j = k
  PROVE  /\ DOMAIN buffers' = WorkspaceEdit!Open /\ DOMAIN disk' = WorkspaceEdit!Paths
         /\ (\A k \in 1..n : command[k].path # p) => buffers'[p] = buffers[p] /\ disk'[p] = disk[p]
         /\ \A i \in 1..n : command[i].path = p /\ command[i].text = buffers[p] =>
              /\ buffers'[p] = WorkspaceEdit!Edited(buffers[p], command[i].op)
              /\ disk'[p] = IF command[i].write THEN buffers'[p] ELSE disk[p]
<1>1. PICK g : /\ g[0] = [buffers |-> buffers, disk |-> disk]
               /\ \A k \in 1..n : g[k] = WorkspaceEdit!RunEdit(g[k - 1], command[k])
               /\ buffers' = g[n].buffers /\ disk' = g[n].disk
  BY RunSteps
<1> DEFINE
  Same(s) == s.buffers[p] = buffers[p] /\ s.disk[p] = disk[p]
  Ran(s, c) == /\ s.buffers[p] = WorkspaceEdit!Edited(buffers[p], c.op)
               /\ s.disk[p] = IF c.write THEN s.buffers[p] ELSE disk[p]
  Good(s, k) ==
    /\ DOMAIN s.buffers = WorkspaceEdit!Open /\ DOMAIN s.disk = WorkspaceEdit!Paths
    /\ (\A j \in 1..k : command[j].path # p) => Same(s)
    /\ \A i \in 1..k : command[i].path = p /\ command[i].text = buffers[p] => Ran(s, command[i])
  G == {k \in Nat : k <= n => Good(g[k], k)}
<1>2. 0 \in G
  BY <1>1
<1>3. ASSUME NEW k \in Nat, k \in G PROVE k + 1 \in G
  <2> SUFFICES ASSUME k + 1 <= n PROVE Good(g[k + 1], k + 1)
    OBVIOUS
  <2>1. k + 1 \in 1..n /\ k <= n /\ k \in 0..n /\ \A j \in 1..k : j \in 1..n /\ j # k + 1
    OBVIOUS
  <2>2. PICK c : c = command[k + 1]
    OBVIOUS
  <2>3. PICK s : s = g[k]
    OBVIOUS
  <2>4. PICK t : t = g[k + 1]
    OBVIOUS
  <2>5. Good(s, k)
    BY <1>3, <2>1, <2>3
  <2>6. t = WorkspaceEdit!RunEdit(s, c)
    BY <1>1, <2>1, <2>2, <2>3, <2>4
  <2>7. PICK new : new = IF s.buffers[c.path] = c.text
                         THEN WorkspaceEdit!Edited(s.buffers[c.path], c.op)
                         ELSE WorkspaceEdit!Misplaced(s.buffers[c.path], c.op)
    OBVIOUS
  <2>8. /\ t.buffers = [s.buffers EXCEPT ![c.path] = new]
        /\ t.disk = IF c.write THEN [s.disk EXCEPT ![c.path] = new] ELSE s.disk
    BY <2>6, <2>7 DEF WorkspaceEdit!RunEdit
  <2>9. c.path \in WorkspaceEdit!Open /\ c.path \in WorkspaceEdit!Paths
    BY <2>1, <2>2 DEF WorkspaceEdit!Open, WorkspaceEdit!Paths
  <2>10. DOMAIN t.buffers = WorkspaceEdit!Open /\ DOMAIN t.disk = WorkspaceEdit!Paths
    BY <2>5, <2>8
  <2>11. CASE c.path # p
    <3>1. t.buffers[p] = s.buffers[p] /\ t.disk[p] = s.disk[p]
      BY <2>5, <2>8, <2>11
    <3>2. (\A j \in 1..k + 1 : command[j].path # p) => Same(t)
      BY <2>5, <3>1
    <3>3. ASSUME NEW i \in 1..k + 1, command[i].path = p, command[i].text = buffers[p]
          PROVE  Ran(t, command[i])
      <4>1. i \in 1..k
        BY <2>2, <2>11, <3>3
      <4>2. Ran(s, command[i])
        BY <2>5, <3>3, <4>1
      <4>3. QED BY <3>1, <4>2
    <3>4. QED BY <2>4, <2>10, <3>2, <3>3
  <2>12. CASE c.path = p
    <3>1. \A j \in 1..k : command[j].path # p
      BY <2>1, <2>2, <2>12
    <3>2. Same(s)
      BY <2>5, <3>1
    <3>3. ASSUME NEW i \in 1..k + 1, command[i].path = p, command[i].text = buffers[p]
          PROVE  Ran(t, command[i])
      <4>1. i = k + 1
        BY <3>1, <3>3
      <4>2. new = WorkspaceEdit!Edited(buffers[p], c.op)
        BY <2>2, <2>7, <2>12, <3>2, <3>3, <4>1
      <4>3. t.buffers[p] = new /\ t.disk[p] = IF c.write THEN new ELSE disk[p]
        BY <2>5, <2>8, <2>9, <2>12, <3>2
      <4>4. QED BY <2>2, <4>1, <4>2, <4>3
    <3>4. ~\A j \in 1..k + 1 : command[j].path # p
      BY <2>1, <2>2, <2>12
    <3>5. QED BY <2>4, <2>10, <3>3, <3>4
  <2>13. QED BY <2>11, <2>12
<1> HIDE DEF G
<1>4. n \in G
  BY <1>2, <1>3, Induction
<1>5. Good(g[n], n)
  BY <1>4 DEF G
<1>6. QED BY <1>1, <1>5

-----------------------------------------------------------------------------
(***************************************************************************)
(* What a workspace edit means.                                            *)
(***************************************************************************)

IsMeant(g, b, os, n) ==
  g = [k \in 0..n |-> IF k = 0 THEN WorkspaceEdit!Sees(b.disk, b.buffers)
                      ELSE WorkspaceEdit!Does(g[k - 1], os[k], k)]

LEMMA MeantExists == ASSUME NEW b, NEW os, NEW n \in Nat PROVE \E g : IsMeant(g, b, os, n)
<1> DEFINE s == WorkspaceEdit!Sees(b.disk, b.buffers)
           G == {m \in Nat : \E g : IsMeant(g, b, os, m)}
<1>1. 0 \in G
  <2> DEFINE g == [k \in 0..0 |-> s]
  <2>1. IsMeant(g, b, os, 0)
    BY DEF IsMeant
  <2>2. QED BY <2>1
<1>2. ASSUME NEW m \in Nat, m \in G PROVE m + 1 \in G
  <2>1. PICK g : IsMeant(g, b, os, m)
    BY <1>2
  <2> DEFINE h == [k \in 0..m + 1 |-> IF k = m + 1 THEN WorkspaceEdit!Does(g[m], os[m + 1], m + 1) ELSE g[k]]
  <2>2. ASSUME NEW k \in 0..m + 1
        PROVE  h[k] = IF k = 0 THEN s ELSE WorkspaceEdit!Does(h[k - 1], os[k], k)
    <3>1. CASE k = m + 1
      <4>1. h[k - 1] = g[m] /\ h[k] = WorkspaceEdit!Does(g[m], os[m + 1], m + 1)
        BY <3>1
      <4>2. QED BY <3>1, <4>1
    <3>2. CASE k # m + 1 /\ k # 0
      <4>1. k \in 0..m /\ k - 1 \in 0..m
        BY <3>2
      <4>2. g[k] = WorkspaceEdit!Does(g[k - 1], os[k], k)
        BY <2>1, <3>2, <4>1 DEF IsMeant
      <4>3. h[k] = g[k] /\ h[k - 1] = g[k - 1]
        BY <3>2, <4>1
      <4>4. QED BY <3>2, <4>2, <4>3
    <3>3. CASE k = 0
      <4>1. g[0] = s
        BY <2>1 DEF IsMeant
      <4>2. QED BY <3>3, <4>1
    <3>4. QED BY <3>1, <3>2, <3>3
  <2>3. h = [k \in 0..m + 1 |-> h[k]]
    OBVIOUS
  <2> HIDE DEF h
  <2>4. IsMeant(h, b, os, m + 1)
    BY <2>2, <2>3 DEF IsMeant
  <2>5. QED BY <2>4
<1> HIDE DEF G
<1>3. n \in G
  BY <1>1, <1>2, Induction
<1>4. QED BY <1>3 DEF G

\* What is meant by the first operations.
SeenIn(b, os) == CHOOSE g : IsMeant(g, b, os, Len(os))
Seen == SeenIn(before, ops)

LEMMA SeenSteps ==
  ASSUME NEW b, NEW os, Len(os) \in Nat
  PROVE  /\ SeenIn(b, os)[0] = WorkspaceEdit!Sees(b.disk, b.buffers)
         /\ \A k \in 1..Len(os) :
              SeenIn(b, os)[k] = WorkspaceEdit!Does(SeenIn(b, os)[k - 1], os[k], k)
<1>1. IsMeant(SeenIn(b, os), b, os, Len(os))
  BY MeantExists DEF SeenIn
<1>2. PICK g : g = SeenIn(b, os)
  OBVIOUS
<1>3. g = [k \in 0..Len(os) |-> IF k = 0 THEN WorkspaceEdit!Sees(b.disk, b.buffers)
                                ELSE WorkspaceEdit!Does(g[k - 1], os[k], k)]
  BY <1>1, <1>2 DEF IsMeant
<1>4. g[0] = WorkspaceEdit!Sees(b.disk, b.buffers)
  BY <1>3
<1>5. \A k \in 1..Len(os) : g[k] = WorkspaceEdit!Does(g[k - 1], os[k], k)
  BY <1>3
<1>6. QED BY <1>2, <1>4, <1>5

LEMMA MeantIsSeen == \A n : WorkspaceEdit!MeantBy(n) = Seen[n]
BY DEF WorkspaceEdit!MeantBy, Seen, SeenIn, IsMeant

-----------------------------------------------------------------------------
(***************************************************************************)
(* Until the editor runs the command.                                      *)
(***************************************************************************)

BuffersWait ==
  /\ ran => applied = "yes"
  /\ ~ran =>
       /\ DOMAIN buffers = WorkspaceEdit!Open
       /\ \A p \in WorkspaceEdit!Open \ typed : buffers[p] = before.buffers[p]

\* No operation creates, renames or deletes the file.
OnlyEdited(p) ==
  \A k \in 1..Len(ops) : WorkspaceEdit!Touches(ops[k], p) => ops[k].kind = "edit"

ToldOfDisk ==
  ~ran =>
    /\ DOMAIN disk = WorkspaceEdit!Paths /\ DOMAIN told = WorkspaceEdit!Paths
    /\ \A p \in WorkspaceEdit!Open : told[p] = WorkspaceEdit!NoFile
    /\ \A p \in WorkspaceEdit!Paths : told[p] # WorkspaceEdit!NoFile /\ OnlyEdited(p) => told[p] = disk[p]
    /\ ops = <<>> => \A p \in WorkspaceEdit!Paths : told[p] = WorkspaceEdit!NoFile
    /\ done \in Nat /\ (ops = <<>> \/ (ops \in Seq(WorkspaceEdit!Ops) /\ ops # <<>>))

LEMMA WorkspaceInit == WorkspaceEdit!Init => BuffersWait /\ ToldOfDisk
BY DEF WorkspaceEdit!Init, BuffersWait, ToldOfDisk, WorkspaceEdit!Open, WorkspaceEdit!Paths

LEMMA BuffersStep ==
  ASSUME BuffersWait, [WorkspaceEdit!Next]_ofWorkspaceEdits PROVE BuffersWait'
<1>1. CASE WorkspaceEdit!Ask
  BY <1>1 DEF WorkspaceEdit!Ask, BuffersWait
<1>2. CASE WorkspaceEdit!EditOpen \/ WorkspaceEdit!EditFile
  BY <1>2 DEF WorkspaceEdit!EditOpen, WorkspaceEdit!EditFile, BuffersWait
<1>3. CASE WorkspaceEdit!Resource \/ WorkspaceEdit!Reply
  BY <1>3 DEF WorkspaceEdit!Resource, WorkspaceEdit!Reply, WorkspaceEdit!Applying, BuffersWait
<1>4. CASE WorkspaceEdit!Run
  BY <1>4 DEF WorkspaceEdit!Run, BuffersWait
<1>5. ASSUME NEW p \in WorkspaceEdit!Open,
             WorkspaceEdit!DidChange(p) \/ WorkspaceEdit!Type(p) \/ WorkspaceEdit!Save(p)
      PROVE  BuffersWait'
  BY <1>5 DEF WorkspaceEdit!DidChange, WorkspaceEdit!Type, WorkspaceEdit!Save, BuffersWait
<1>6. CASE UNCHANGED ofWorkspaceEdits \/ UNCHANGED WorkspaceEdit!vars
  BY <1>6 DEF ofWorkspaceEdits, WorkspaceEdit!vars, BuffersWait
<1>7. QED BY <1>1, <1>2, <1>3, <1>4, <1>5, <1>6 DEF WorkspaceEdit!Next

LEMMA OpInRange ==
  ASSUME ToldOfDisk, ~ran, WorkspaceEdit!Applying
  PROVE  /\ done + 1 \in 1..Len(ops) /\ WorkspaceEdit!Op = ops[done + 1]
         /\ WorkspaceEdit!Op \in WorkspaceEdit!Ops
<1>1. ops \in Seq(WorkspaceEdit!Ops) /\ done \in Nat /\ done < Len(ops)
  BY DEF ToldOfDisk, WorkspaceEdit!Applying
<1>2. done + 1 \in 1..Len(ops)
  BY <1>1
<1>3. PICK S : S = WorkspaceEdit!Ops
  OBVIOUS
<1>4. ops \in Seq(S)
  BY <1>1, <1>3
<1>5. ops[done + 1] \in S
  BY ONLY <1>2, <1>4
<1>6. QED BY <1>2, <1>3, <1>5 DEF WorkspaceEdit!Op

LEMMA ToldStep ==
  ASSUME BuffersWait, ToldOfDisk, [WorkspaceEdit!Next]_ofWorkspaceEdits PROVE ToldOfDisk'
<1> SUFFICES ASSUME ~ran' PROVE ToldOfDisk'
  BY DEF ToldOfDisk
<1> USE DEF OnlyEdited
<1>1. CASE WorkspaceEdit!Ask
  <2>1. PICK n \in 1..MaxOps : ops' \in [1..n -> WorkspaceEdit!Ops]
    BY <1>1 DEF WorkspaceEdit!Ask
  <2>2. CASE n \in Nat
    <3>1. ops' \in Seq(WorkspaceEdit!Ops) /\ ops' # <<>>
      BY <2>1, <2>2
    <3>2. QED BY <1>1, <3>1 DEF WorkspaceEdit!Ask, ToldOfDisk
  <2>3. QED BY <2>1, <2>2
<1>2. CASE WorkspaceEdit!EditOpen \/ WorkspaceEdit!Reply
  BY <1>2 DEF WorkspaceEdit!EditOpen, WorkspaceEdit!Reply, ToldOfDisk
<1>3. CASE WorkspaceEdit!EditFile
  <2>1. PICK op : op = WorkspaceEdit!Op
    OBVIOUS
  <2>2. op.uri \in WorkspaceEdit!Paths \ WorkspaceEdit!Open /\ ops # <<>>
    BY <1>3, <2>1, OpInRange DEF WorkspaceEdit!EditFile, WorkspaceEdit!Ops, WorkspaceEdit!Applying
  <2>3. /\ done' = done + 1 /\ UNCHANGED <<ops, ran>>
        /\ \/ UNCHANGED <<disk, told>>
           \/ \E new : /\ disk' = [disk EXCEPT ![op.uri] = new]
                       /\ told' = [told EXCEPT ![op.uri] = disk'[op.uri]]
    BY <1>3, <2>1 DEF WorkspaceEdit!EditFile
  <2>4. PICK u : u = op.uri
    OBVIOUS
  <2>5. u \in WorkspaceEdit!Paths /\ u \notin WorkspaceEdit!Open
    BY <2>2, <2>4
  <2>6. CASE UNCHANGED <<disk, told>>
    BY <2>2, <2>3, <2>6 DEF ToldOfDisk
  <2>7. ASSUME NEW new, disk' = [disk EXCEPT ![op.uri] = new],
               told' = [told EXCEPT ![op.uri] = disk'[op.uri]]
        PROVE  ToldOfDisk'
    <3>. ~ran
      BY <2>3
    <3>1. DOMAIN disk = WorkspaceEdit!Paths /\ DOMAIN told = WorkspaceEdit!Paths
      BY DEF ToldOfDisk
    <3>2. DOMAIN disk' = WorkspaceEdit!Paths /\ DOMAIN told' = WorkspaceEdit!Paths
      BY <2>7, <3>1
    <3>3. disk'[u] = told'[u]
      BY <2>4, <2>5, <2>7, <3>1
    <3>4. ASSUME NEW p, p # u PROVE disk'[p] = disk[p] /\ told'[p] = told[p]
      BY <2>4, <2>7, <3>4, <3>1
    <3>5. \A p \in WorkspaceEdit!Open : told'[p] = WorkspaceEdit!NoFile
      BY <2>5, <3>4 DEF ToldOfDisk
    <3>6. ASSUME NEW p \in WorkspaceEdit!Paths,
                 told'[p] # WorkspaceEdit!NoFile, OnlyEdited(p)
          PROVE  told'[p] = disk'[p]
      BY <3>3, <3>4, <3>6 DEF ToldOfDisk
    <3>7. QED BY <2>2, <2>3, <3>2, <3>5, <3>6 DEF ToldOfDisk
  <2>8. QED BY <2>3, <2>6, <2>7
<1>4. CASE WorkspaceEdit!Resource
  <2>1. PICK op : op = WorkspaceEdit!Op
    OBVIOUS
  <2>2. PICK k \in 1..Len(ops) : op = ops[k] /\ op.kind # "edit" /\ op \in WorkspaceEdit!Ops
    BY <1>4, <2>1, OpInRange DEF WorkspaceEdit!Resource
  <2>3. UNCHANGED <<ops, told, ran>> /\ (done' = done \/ done' = done + 1)
    BY <1>4 DEF WorkspaceEdit!Resource
  <2>4. disk' = disk \/ disk' = WorkspaceEdit!ResourceOp(disk, op)
    BY <1>4, <2>1 DEF WorkspaceEdit!Resource
  <2>5. DOMAIN disk' = DOMAIN disk
        /\ \A p \in DOMAIN disk : ~WorkspaceEdit!Touches(op, p) => disk'[p] = disk[p]
    BY <2>2, <2>4
    DEF WorkspaceEdit!ResourceOp, WorkspaceEdit!Renamed, WorkspaceEdit!Touches, WorkspaceEdit!Ops
  <2>6. \A p : OnlyEdited(p) => ~WorkspaceEdit!Touches(op, p)
    BY <2>2
  <2>7. QED BY <2>3, <2>5, <2>6 DEF ToldOfDisk
<1>5. ASSUME NEW p \in WorkspaceEdit!Open,
             WorkspaceEdit!DidChange(p) \/ WorkspaceEdit!Type(p) \/ WorkspaceEdit!Save(p)
      PROVE  ToldOfDisk'
  BY <1>5 DEF WorkspaceEdit!DidChange, WorkspaceEdit!Type, WorkspaceEdit!Save, ToldOfDisk
<1>6. CASE UNCHANGED ofWorkspaceEdits \/ UNCHANGED WorkspaceEdit!vars
  BY <1>6 DEF ofWorkspaceEdits, WorkspaceEdit!vars, ToldOfDisk
<1>7. ~WorkspaceEdit!Run
  BY DEF WorkspaceEdit!Run
<1>8. QED BY <1>1, <1>2, <1>3, <1>4, <1>5, <1>6, <1>7 DEF WorkspaceEdit!Next

-----------------------------------------------------------------------------
(***************************************************************************)
(* When operations on files keep off what is open in the editor, and no    *)
(* buffer is edited twice, putting off the edits of buffers makes no       *)
(* difference.                                                             *)
(***************************************************************************)

Edits(op, p) == op.kind = "edit" /\ op.uri = p

PlainOps(os) ==
  \A j \in 1..Len(os) :
    /\ os[j].kind # "edit" => \A p \in WorkspaceEdit!Open : ~WorkspaceEdit!Touches(os[j], p)
    /\ \A k \in 1..Len(os) :
         j # k /\ os[k].kind = "edit" /\ os[k].uri \in WorkspaceEdit!Open => os[j].uri # os[k].uri

LEMMA PlainIsPlainOps ==
  ASSUME ops \in Seq(WorkspaceEdit!Ops), WorkspaceEdit!Plain
  PROVE  PlainOps(ops)
<1>1. DOMAIN ops = 1..Len(ops)
  OBVIOUS
<1>2. QED BY <1>1 DEF WorkspaceEdit!Plain, WorkspaceEdit!Range, PlainOps

\* One operation leaves files alone that it does not touch, and what it does to another
\* depends on the files that it touches.
LEMMA DoesElsewhere ==
  ASSUME NEW s, DOMAIN s = WorkspaceEdit!Paths, NEW op \in WorkspaceEdit!Ops, NEW k,
         NEW p \in WorkspaceEdit!Paths
  PROVE  /\ DOMAIN WorkspaceEdit!Does(s, op, k) = WorkspaceEdit!Paths
         /\ ~WorkspaceEdit!Touches(op, p) => WorkspaceEdit!Does(s, op, k)[p] = s[p]
BY DEF WorkspaceEdit!Does, WorkspaceEdit!ResourceOp, WorkspaceEdit!Renamed, WorkspaceEdit!Touches,
       WorkspaceEdit!Ops

\* What is meant for a buffer: its one edit, if there is one.
LEMMA SeenOpen ==
  ASSUME NEW b, NEW os \in Seq(WorkspaceEdit!Ops), PlainOps(os),
         NEW p \in WorkspaceEdit!Open, b.buffers[p] # WorkspaceEdit!NoFile, NEW m \in 0..Len(os)
  PROVE  /\ DOMAIN SeenIn(b, os)[m] = WorkspaceEdit!Paths
         /\ (\A j \in 1..m : ~Edits(os[j], p)) => SeenIn(b, os)[m][p] = b.buffers[p]
         /\ \A j \in 1..m : Edits(os[j], p) =>
              SeenIn(b, os)[m][p] = WorkspaceEdit!Edited(b.buffers[p], j)
<1>0. PICK n \in Nat : n = Len(os)
  OBVIOUS
<1>1. PICK s : s = SeenIn(b, os)
  OBVIOUS
<1>2. /\ s[0] = WorkspaceEdit!Sees(b.disk, b.buffers)
      /\ \A k \in 1..n : s[k] = WorkspaceEdit!Does(s[k - 1], os[k], k)
  BY <1>0, <1>1, SeenSteps
<1>3. p \in WorkspaceEdit!Paths
  BY DEF WorkspaceEdit!Open, WorkspaceEdit!Paths
<1> DEFINE
  Good(k) ==
    /\ DOMAIN s[k] = WorkspaceEdit!Paths
    /\ (\A j \in 1..k : ~Edits(os[j], p)) => s[k][p] = b.buffers[p]
    /\ \A j \in 1..k : Edits(os[j], p) => s[k][p] = WorkspaceEdit!Edited(b.buffers[p], j)
  G == {k \in Nat : k <= n => Good(k)}
<1>4. 0 \in G
  BY <1>2, <1>3 DEF WorkspaceEdit!Sees
<1>5. ASSUME NEW k \in Nat, k \in G PROVE k + 1 \in G
  <2> SUFFICES ASSUME k + 1 <= n PROVE Good(k + 1)
    OBVIOUS
  <2>1. k + 1 \in 1..n /\ k \in 0..n /\ \A j \in 1..k : j \in 1..n /\ j # k + 1
    OBVIOUS
  <2>2. PICK x : x = s[k]
    OBVIOUS
  <2>3. PICK op : op = os[k + 1]
    OBVIOUS
  <2>4. PICK y : y = s[k + 1]
    OBVIOUS
  <2>5. y = WorkspaceEdit!Does(x, op, k + 1)
    <3>1. s[k + 1] = WorkspaceEdit!Does(s[(k + 1) - 1], os[k + 1], k + 1)
      BY <1>2, <2>1
    <3>2. (k + 1) - 1 = k
      OBVIOUS
    <3>3. QED BY <2>2, <2>3, <2>4, <3>1, <3>2
  <2>6. Good(k)
    BY <1>5, <2>1
  <2>7. op \in WorkspaceEdit!Ops
    BY <1>0, <2>1, <2>3
  <2>8. DOMAIN y = WorkspaceEdit!Paths
    BY <1>3, <2>2, <2>5, <2>6, <2>7, DoesElsewhere
  <2>9. CASE Edits(op, p)
    <3>1. \A j \in 1..k : ~Edits(os[j], p)
      BY <1>0, <2>1, <2>3, <2>9 DEF PlainOps, Edits
    <3>2. x[p] = b.buffers[p]
      BY <2>2, <2>6, <3>1
    <3>3. y = [x EXCEPT ![p] = WorkspaceEdit!Edited(@, k + 1)]
      BY <2>5, <2>9, <3>2 DEF WorkspaceEdit!Does, WorkspaceEdit!Exists, Edits
    <3>4. y[p] = WorkspaceEdit!Edited(b.buffers[p], k + 1)
      BY <1>3, <2>2, <2>6, <3>2, <3>3
    <3>5. ASSUME NEW j \in 1..k + 1, Edits(os[j], p) PROVE j = k + 1
      BY <3>1, <3>5
    <3>6. k + 1 \in 1..k + 1
      OBVIOUS
    <3>7. QED BY <2>3, <2>4, <2>8, <2>9, <3>4, <3>5, <3>6
  <2>10. CASE ~Edits(op, p)
    <3>1. ~WorkspaceEdit!Touches(op, p)
      <4>1. CASE op.kind = "edit"
        BY <2>10, <4>1 DEF WorkspaceEdit!Touches, Edits
      <4>2. CASE op.kind # "edit"
        BY <1>0, <2>1, <2>3, <4>2 DEF PlainOps
      <4>3. QED BY <4>1, <4>2
    <3>2. y[p] = x[p]
      BY <1>3, <2>2, <2>5, <2>6, <2>7, <3>1, DoesElsewhere
    <3>3. ASSUME NEW j \in 1..k + 1, Edits(os[j], p) PROVE j \in 1..k
      BY <2>3, <2>10, <3>3
    <3>4. \A j \in 1..k : j \in 1..k + 1
      OBVIOUS
    <3>5. QED BY <2>2, <2>4, <2>6, <2>8, <3>2, <3>3, <3>4
  <2>11. QED BY <2>9, <2>10
<1> HIDE DEF G
<1>6. m \in G /\ m <= n
  <2>1. m \in Nat /\ m <= n
    BY <1>0
  <2>2. Nat \subseteq G
    BY <1>4, <1>5, Induction
  <2>3. QED BY <2>1, <2>2
<1>7. Good(m)
  BY <1>6 DEF G
<1>8. QED BY <1>1, <1>7

-----------------------------------------------------------------------------
(***************************************************************************)
(* The invariant.                                                          *)
(***************************************************************************)

Asked ==
  /\ ops = <<>> => done = 0 /\ command = <<>> /\ typed = {} /\ applied = "none" /\ ~ran
  /\ ops # <<>> => ops \in Seq(WorkspaceEdit!Ops) /\ done \in 0..Len(ops)
  /\ applied = "yes" => ops # <<>> /\ done = Len(ops)
  /\ \A p \in WorkspaceEdit!Open : before.buffers[p] # WorkspaceEdit!NoFile

\* What kakoune-lsp knows of a buffer in which the user did not type.
Known ==
  ~ran =>
    /\ DOMAIN documents = WorkspaceEdit!Open
    /\ \A p \in WorkspaceEdit!Open \ typed : documents[p] = buffers[p]

\* An edit that the editor is going to make.
Ordered(c) ==
  /\ c.path \in WorkspaceEdit!Open /\ c.op \in 1..done /\ Edits(ops[c.op], c.path)
  /\ c.path \notin typed => c.text = before.buffers[c.path]
  /\ c.path \notin typed /\ PlainOps(ops) =>
       c.write = (c.path # Current /\ before.disk[c.path] = before.buffers[c.path])

\* One for each operation that edits a buffer.
Ordering ==
  ~ran =>
    /\ \E S : command \in Seq(S)
    /\ \A i \in 1..Len(command) : Ordered(command[i])
    /\ \A i, j \in 1..Len(command) : command[i].op = command[j].op => i = j
    /\ \A k \in 1..done : ops[k].kind = "edit" /\ ops[k].uri \in WorkspaceEdit!Open =>
         \E i \in 1..Len(command) : command[i].op = k

\* The disk is ahead of the editor, by the operations on files that are not open.
OnDisk ==
  ops # <<>> /\ ~ran /\ PlainOps(ops) =>
    /\ \A p \in WorkspaceEdit!Paths \ WorkspaceEdit!Open : disk[p] = Seen[done][p]
    /\ \A p \in WorkspaceEdit!Open \ typed : disk[p] = before.disk[p]

AsMeant(p) ==
  /\ WorkspaceEdit!Sees(disk, buffers)[p] = Seen[Len(ops)][p]
  /\ p \in WorkspaceEdit!Open =>
       disk[p] = IF p # Current /\ before.disk[p] = before.buffers[p] THEN buffers[p] ELSE before.disk[p]
  /\ told[p] # WorkspaceEdit!NoFile /\ OnlyEdited(p) => told[p] = disk[p]

Lasting == ran /\ PlainOps(ops) => \A p \in WorkspaceEdit!Paths \ typed : AsMeant(p)

EditsInv == BuffersWait /\ ToldOfDisk /\ Asked /\ Known /\ Ordering /\ OnDisk /\ Lasting

LEMMA EditsInit == WorkspaceEdit!Init => EditsInv
<1> SUFFICES ASSUME WorkspaceEdit!Init PROVE EditsInv
  OBVIOUS
<1>1. PICK dirty \in SUBSET WorkspaceEdit!Open :
        buffers = [p \in WorkspaceEdit!Open |-> IF p \in dirty THEN << <<"unsaved", 0>> >> ELSE <<>>]
  BY DEF WorkspaceEdit!Init
<1>2. ASSUME NEW p \in WorkspaceEdit!Open PROVE buffers[p] # WorkspaceEdit!NoFile
  <2>1. buffers[p] = << <<"unsaved", 0>> >> \/ buffers[p] = <<>>
    BY <1>1
  <2>2. << <<"unsaved", 0>> >> # << <<"no file", 0>> >>
    <3>1. << <<"unsaved", 0>> >>[1][1] = "unsaved" /\ << <<"no file", 0>> >>[1][1] = "no file"
      OBVIOUS
    <3>2. QED BY <3>1
  <2>3. <<>> # << <<"no file", 0>> >>
    OBVIOUS
  <2>4. QED BY <2>1, <2>2, <2>3 DEF WorkspaceEdit!NoFile
<1>3. Asked
  BY <1>2 DEF WorkspaceEdit!Init, Asked
<1>4. Known
  BY <1>1 DEF WorkspaceEdit!Init, Known
<1>5. Ordering
  <2>1. command = <<>> /\ done = 0 /\ command \in Seq({})
    BY DEF WorkspaceEdit!Init
  <2>2. QED BY <2>1 DEF Ordering
<1>6. QED BY <1>3, <1>4, <1>5, WorkspaceInit DEF WorkspaceEdit!Init, EditsInv, OnDisk, Lasting

LEMMA AskStep ==
  ASSUME EditsInv, WorkspaceEdit!Ask PROVE Asked' /\ Known' /\ Ordering' /\ OnDisk' /\ Lasting'
<1>1. ops = <<>> /\ before' = [disk |-> disk, buffers |-> buffers]
      /\ UNCHANGED <<done, disk, buffers, documents, command, told, applied, ran, typed>>
  BY DEF WorkspaceEdit!Ask
<1>2. PICK n \in 1..MaxOps : ops' \in [1..n -> WorkspaceEdit!Ops]
  BY DEF WorkspaceEdit!Ask
<1>3. n \in Nat
  BY <1>2
<1>4. ops' \in Seq(WorkspaceEdit!Ops) /\ ops' # <<>> /\ Len(ops') = n
  BY <1>2, <1>3
<1>5. done = 0 /\ command = <<>> /\ typed = {} /\ applied = "none" /\ ~ran
  BY <1>1 DEF EditsInv, Asked
<1>6. \A p \in WorkspaceEdit!Open : buffers[p] = before.buffers[p]
  BY <1>5 DEF EditsInv, BuffersWait
<1>7. Asked'
  BY <1>1, <1>3, <1>4, <1>5, <1>6 DEF EditsInv, Asked
<1>8. Known'
  BY <1>1 DEF EditsInv, Known
<1>9. Ordering'
  <2>1. command' = <<>> /\ done' = 0 /\ command' \in Seq({})
    BY <1>1, <1>5
  <2>2. QED BY <2>1 DEF Ordering
<1>10. OnDisk'
  <2>1. PICK os : os = ops'
    OBVIOUS
  <2>2. PICK b : b = before'
    OBVIOUS
  <2>3. Len(os) \in Nat
    BY <1>3, <1>4, <2>1
  <2>4. SeenIn(b, os)[0] = WorkspaceEdit!Sees(b.disk, b.buffers)
    BY <2>3, SeenSteps
  <2>5. Seen' = SeenIn(b, os)
    BY <2>1, <2>2 DEF Seen
  <2>6. b.disk = disk /\ disk' = disk /\ done' = 0
    BY <1>1, <1>5, <2>2
  <2>7. \A p \in WorkspaceEdit!Paths \ WorkspaceEdit!Open : disk'[p] = Seen'[done'][p]
    BY <2>4, <2>5, <2>6 DEF WorkspaceEdit!Sees
  <2>8. QED BY <2>2, <2>6, <2>7 DEF OnDisk
<1>11. Lasting'
  BY <1>1, <1>5 DEF Lasting
<1>12. QED BY <1>7, <1>8, <1>9, <1>10, <1>11

\* One more operation is done, and the texts on disk are what is meant by now.
LEMMA SeenNext ==
  ASSUME ops \in Seq(WorkspaceEdit!Ops), NEW k \in 1..Len(ops)
  PROVE  Seen[k] = WorkspaceEdit!Does(Seen[k - 1], ops[k], k)
<1>1. Len(ops) \in Nat
  OBVIOUS
<1>2. \A i \in 1..Len(ops) : SeenIn(before, ops)[i] = WorkspaceEdit!Does(SeenIn(before, ops)[i - 1], ops[i], i)
  BY <1>1, SeenSteps
<1>3. QED BY <1>2 DEF Seen

\* What is meant by then has a text for every file.
LEMMA SeenDomain ==
  ASSUME NEW b, NEW os, os \in Seq(WorkspaceEdit!Ops), NEW m \in 0..Len(os)
  PROVE  DOMAIN SeenIn(b, os)[m] = WorkspaceEdit!Paths
<1>1. PICK n \in Nat : n = Len(os)
  OBVIOUS
<1>2. PICK s : s = SeenIn(b, os)
  OBVIOUS
<1>3. /\ s[0] = WorkspaceEdit!Sees(b.disk, b.buffers)
      /\ \A k \in 1..n : s[k] = WorkspaceEdit!Does(s[k - 1], os[k], k)
  BY <1>1, <1>2, SeenSteps
<1> DEFINE G == {k \in Nat : k <= n => DOMAIN s[k] = WorkspaceEdit!Paths}
<1>4. 0 \in G
  BY <1>3 DEF WorkspaceEdit!Sees
<1>5. ASSUME NEW k \in Nat, k \in G PROVE k + 1 \in G
  <2> SUFFICES ASSUME k + 1 <= n PROVE DOMAIN s[k + 1] = WorkspaceEdit!Paths
    OBVIOUS
  <2>1. k + 1 \in 1..n /\ k <= n /\ (k + 1) - 1 = k
    OBVIOUS
  <2>2. s[k + 1] = WorkspaceEdit!Does(s[k], os[k + 1], k + 1)
    BY <1>3, <2>1
  <2>3. os[k + 1] \in WorkspaceEdit!Ops
    BY <1>1, <2>1
  <2>4. DOMAIN s[k] = WorkspaceEdit!Paths
    BY <1>5, <2>1
  <2>5. Current \in WorkspaceEdit!Paths
    BY DEF WorkspaceEdit!Paths
  <2>6. PICK x, op : x = s[k] /\ op = os[k + 1]
    OBVIOUS
  <2>7. DOMAIN WorkspaceEdit!Does(x, op, k + 1) = WorkspaceEdit!Paths
    BY <2>3, <2>4, <2>5, <2>6, DoesElsewhere
  <2>8. QED BY <2>2, <2>6, <2>7
<1> HIDE DEF G
<1>6. m \in G /\ m <= n
  <2>1. m \in Nat /\ m <= n
    BY <1>1
  <2>2. Nat \subseteq G
    BY <1>4, <1>5, Induction
  <2>3. QED BY <2>1, <2>2
<1>7. QED BY <1>2, <1>6 DEF G

LEMMA EditOpenStep ==
  ASSUME EditsInv, WorkspaceEdit!EditOpen PROVE Asked' /\ Known' /\ Ordering' /\ OnDisk' /\ Lasting'
<1>1. ~ran /\ WorkspaceEdit!Applying /\ ops # <<>> /\ ops \in Seq(WorkspaceEdit!Ops) /\ done \in 0..Len(ops)
  BY DEF EditsInv, Asked, BuffersWait, WorkspaceEdit!EditOpen, WorkspaceEdit!Applying
<1>2. PICK k : k = done + 1
  OBVIOUS
<1>3. k \in 1..Len(ops) /\ WorkspaceEdit!Op = ops[k] /\ ops[k] \in WorkspaceEdit!Ops /\ done = k - 1
  BY <1>1, <1>2, OpInRange DEF EditsInv
<1>4. PICK u : u = ops[k].uri
  OBVIOUS
<1>5. PICK w \in BOOLEAN : w = WorkspaceEdit!WriteToDisk(u)
  BY DEF WorkspaceEdit!WriteToDisk
<1>6. PICK c : c = [path |-> u, op |-> k, text |-> documents[u], write |-> w]
  OBVIOUS
<1>7. /\ ops[k].kind = "edit" /\ u \in WorkspaceEdit!Open
      /\ command' = Append(command, c) /\ done' = k
      /\ UNCHANGED <<ops, disk, buffers, documents, told, applied, ran, typed, before>>
  BY <1>2, <1>3, <1>4, <1>5, <1>6 DEF WorkspaceEdit!EditOpen
<1>8. Asked'
  BY <1>1, <1>3, <1>7 DEF EditsInv, Asked, WorkspaceEdit!Applying
<1>9. Known'
  BY <1>7 DEF EditsInv, Known
<1>10. OnDisk'
  <2> SUFFICES ASSUME PlainOps(ops) PROVE OnDisk'
    BY <1>7 DEF OnDisk
  <2>1. Seen' = Seen
    BY <1>7 DEF Seen
  <2>2. PICK x : x = Seen[done]
    OBVIOUS
  <2>3. Seen[k] = WorkspaceEdit!Does(x, ops[k], k)
    BY <1>1, <1>3, <2>2, SeenNext
  <2>4. DOMAIN x = WorkspaceEdit!Paths
    BY <1>1, <2>2, SeenDomain DEF Seen
  <2>5. ASSUME NEW p \in WorkspaceEdit!Paths \ WorkspaceEdit!Open PROVE Seen[k][p] = x[p]
    <3>1. ~WorkspaceEdit!Touches(ops[k], p)
      BY <1>4, <1>7 DEF WorkspaceEdit!Touches
    <3>2. PICK op : op = ops[k]
      OBVIOUS
    <3>3. WorkspaceEdit!Does(x, op, k)[p] = x[p]
      BY <1>3, <2>4, <3>1, <3>2, DoesElsewhere
    <3>4. QED BY <2>3, <3>2, <3>3
  <2>6. \A p \in WorkspaceEdit!Paths \ WorkspaceEdit!Open : disk[p] = Seen[k][p]
    BY <1>1, <2>2, <2>5 DEF EditsInv, OnDisk
  <2>7. \A p \in WorkspaceEdit!Open \ typed : disk[p] = before.disk[p]
    BY <1>1 DEF EditsInv, OnDisk
  <2>8. QED BY <1>7, <2>1, <2>6, <2>7 DEF OnDisk
<1>11. Lasting'
  BY <1>1, <1>7 DEF Lasting
<1>12. Ordering'
  <2>1. PICK S : command \in Seq(S)
    BY <1>1 DEF EditsInv, Ordering
  <2>2. PICK n \in Nat : n = Len(command)
    BY <2>1
  <2>3. PICK cs : cs = command'
    OBVIOUS
  <2>4. cs \in Seq(S \cup {c}) /\ Len(cs) = n + 1 /\ cs[n + 1] = c /\ \A i \in 1..n : cs[i] = command[i]
    <3>1. cs = Append(command, c)
      BY <1>7, <2>3
    <3>2. command \in Seq(S \cup {c}) /\ c \in S \cup {c}
      BY <2>1
    <3>3. QED BY <2>2, <3>1, <3>2
  <2>5. c.path = u /\ c.op = k /\ c.text = documents[u] /\ c.write = w
    BY <1>6
  <2>6. Ordered(c)'
    <3>1. c.op \in 1..done' /\ Edits(ops[c.op], c.path) /\ c.path \in WorkspaceEdit!Open
      BY <1>3, <1>4, <1>7, <2>5 DEF Edits
    <3>2. ASSUME u \notin typed PROVE documents[u] = before.buffers[u]
      BY <1>1, <1>7, <3>2 DEF EditsInv, Known, BuffersWait
    <3>3. ASSUME u \notin typed, PlainOps(ops)
          PROVE  w = (u # Current /\ before.disk[u] = before.buffers[u])
      <4>1. disk[u] = before.disk[u]
        BY <1>1, <1>7, <3>3 DEF EditsInv, OnDisk
      <4>2. QED BY <1>5, <3>2, <3>3, <4>1 DEF WorkspaceEdit!WriteToDisk
    <3>4. QED BY <1>7, <2>5, <3>1, <3>2, <3>3 DEF Ordered
  <2>7. ASSUME NEW i \in 1..n
        PROVE  \E d : d = command[i] /\ d = cs[i] /\ Ordered(d)' /\ d.op # k
    <3>1. PICK d : d = command[i]
      OBVIOUS
    <3>2. Ordered(d)
      BY <1>1, <2>2, <3>1 DEF EditsInv, Ordering
    <3>3. d.op \in 1..done /\ d.op \in 1..k /\ d.op # k
      <4>1. d.op \in 1..done
        BY <3>2 DEF Ordered
      <4>2. done \in Nat /\ k = done + 1
        BY <1>1, <1>2
      <4>3. QED BY ONLY <4>1, <4>2
    <3>4. Ordered(d)'
      BY <1>7, <3>2, <3>3 DEF Ordered
    <3>5. QED BY <2>4, <3>1, <3>3, <3>4
  <2>8. ASSUME NEW i \in 1..n + 1 PROVE i \in 1..n \/ i = n + 1
    OBVIOUS
  <2>9. ASSUME NEW i \in 1..n + 1 PROVE \E d : d = cs[i] /\ Ordered(d)'
    BY <2>4, <2>6, <2>7, <2>8
  <2>10. ASSUME NEW i \in 1..n + 1, NEW j \in 1..n + 1, cs[i].op = cs[j].op PROVE i = j
    <3>1. CASE i \in 1..n /\ j \in 1..n
      BY <1>1, <2>2, <2>4, <2>10, <3>1 DEF EditsInv, Ordering
    <3>2. QED BY <2>4, <2>5, <2>7, <2>8, <2>10, <3>1
  <2>11. ASSUME NEW m \in 1..k, ops[m].kind = "edit", ops[m].uri \in WorkspaceEdit!Open
         PROVE  \E i \in 1..n + 1 : cs[i].op = m
    <3>1. CASE m = k
      BY <2>4, <2>5, <3>1
    <3>2. CASE m # k
      <4>1. m \in 1..done
        BY <1>1, <1>2, <3>2
      <4>2. PICK i \in 1..n : command[i].op = m
        BY <1>1, <2>2, <2>11, <4>1 DEF EditsInv, Ordering
      <4>3. i \in 1..n + 1 /\ cs[i] = command[i]
        BY <2>4
      <4>4. QED BY <4>2, <4>3
    <3>3. QED BY <3>1, <3>2
  <2>12. \A i \in 1..Len(cs) : \E d : d = cs[i] /\ Ordered(d)'
    BY <2>4, <2>9
  <2>13. \A i, j \in 1..Len(cs) : cs[i].op = cs[j].op => i = j
    BY <2>4, <2>10
  <2>14. \A m \in 1..k : ops[m].kind = "edit" /\ ops[m].uri \in WorkspaceEdit!Open =>
           \E i \in 1..Len(cs) : cs[i].op = m
    BY <2>4, <2>11
  <2>15. \A i \in 1..Len(command') : Ordered(command[i])'
    <3> SUFFICES ASSUME NEW i \in 1..Len(command') PROVE Ordered(command[i])'
      OBVIOUS
    <3>1. PICK d : d = command'[i] /\ Ordered(d)'
      BY <2>3, <2>12
    <3>2. QED BY <3>1 DEF Ordered
  <2>16. QED BY <1>7, <2>3, <2>4, <2>13, <2>14, <2>15 DEF Ordering
<1>13. QED BY <1>8, <1>9, <1>10, <1>11, <1>12

LEMMA OnDiskOps ==
  ASSUME EditsInv, WorkspaceEdit!EditFile \/ WorkspaceEdit!Resource, PlainOps(ops), applied' # "no"
  PROVE  \A p \in WorkspaceEdit!Paths \ WorkspaceEdit!Open : disk'[p] = Seen[done + 1][p]
<1>1. /\ ~ran /\ WorkspaceEdit!Applying /\ ops # <<>> /\ ops \in Seq(WorkspaceEdit!Ops)
      /\ done \in 0..Len(ops)
  BY DEF EditsInv, Asked, BuffersWait, WorkspaceEdit!EditFile, WorkspaceEdit!Resource, WorkspaceEdit!Applying
<1>2. PICK k : k = done + 1
  OBVIOUS
<1>3. k \in 1..Len(ops) /\ WorkspaceEdit!Op = ops[k] /\ ops[k] \in WorkspaceEdit!Ops /\ done = k - 1
  BY <1>1, <1>2, OpInRange DEF EditsInv
<1>4. PICK op : op = ops[k]
  OBVIOUS
<1>5. PICK x : x = Seen[done]
  OBVIOUS
<1>6. Seen[k] = WorkspaceEdit!Does(x, op, k)
  BY <1>1, <1>3, <1>4, <1>5, SeenNext
<1>7. DOMAIN x = WorkspaceEdit!Paths
  BY <1>1, <1>5, SeenDomain DEF Seen
<1>8. DOMAIN disk = WorkspaceEdit!Paths
  BY <1>1 DEF EditsInv, ToldOfDisk
<1>9. \A p \in WorkspaceEdit!Paths \ WorkspaceEdit!Open : disk[p] = x[p]
  BY <1>1, <1>5 DEF EditsInv, OnDisk
<1>10. op.uri \in WorkspaceEdit!Paths /\ (op.kind = "rename" => op.to \in WorkspaceEdit!Paths /\ op.to # op.uri)
  BY <1>3, <1>4 DEF WorkspaceEdit!Ops
<1>11. CASE WorkspaceEdit!EditFile
  <2>1. op.kind = "edit" /\ op.uri \notin WorkspaceEdit!Open
        /\ IF WorkspaceEdit!Exists(disk, op.uri)
           THEN disk' = [disk EXCEPT ![op.uri] = WorkspaceEdit!Edited(@, k)]
           ELSE disk' = disk
    BY <1>2, <1>3, <1>4, <1>11 DEF WorkspaceEdit!EditFile
  <2>2. x[op.uri] = disk[op.uri]
    BY <1>9, <1>10, <2>1
  <2>3. IF WorkspaceEdit!Exists(disk, op.uri)
        THEN Seen[k] = [x EXCEPT ![op.uri] = WorkspaceEdit!Edited(@, k)]
        ELSE Seen[k] = x
    BY <1>6, <2>1, <2>2 DEF WorkspaceEdit!Does, WorkspaceEdit!Exists
  <2>4. PICK y : y = Seen[k]
    OBVIOUS
  <2>5. PICK u : u = op.uri
    OBVIOUS
  <2>6. u \in DOMAIN x /\ u \in DOMAIN disk
    BY <1>7, <1>8, <1>10, <2>5
  <2>7. ASSUME NEW p \in WorkspaceEdit!Paths \ WorkspaceEdit!Open PROVE disk'[p] = y[p]
    <3>1. p \in DOMAIN x /\ p \in DOMAIN disk /\ disk[p] = x[p] /\ disk[u] = x[u]
      BY <1>7, <1>8, <1>9, <2>2, <2>5
    <3>2. CASE WorkspaceEdit!Exists(disk, op.uri)
      BY <2>1, <2>3, <2>4, <2>5, <2>6, <3>1, <3>2
    <3>3. CASE ~WorkspaceEdit!Exists(disk, op.uri)
      BY <2>1, <2>3, <2>4, <3>1, <3>3
    <3>4. QED BY <3>2, <3>3
  <2>8. QED BY <1>2, <2>4, <2>7
<1>12. CASE WorkspaceEdit!Resource
  <2>1. op.kind # "edit" /\ disk' = WorkspaceEdit!ResourceOp(disk, op)
    BY <1>3, <1>4, <1>12 DEF WorkspaceEdit!Resource
  <2>2. Seen[k] = WorkspaceEdit!ResourceOp(x, op)
    BY <1>6, <2>1 DEF WorkspaceEdit!Does
  <2>3. \A p \in WorkspaceEdit!Open : ~WorkspaceEdit!Touches(op, p)
    BY <1>3, <1>4, <2>1 DEF PlainOps
  <2>4. x[op.uri] = disk[op.uri] /\ op.uri \notin WorkspaceEdit!Open
    BY <1>9, <1>10, <2>3 DEF WorkspaceEdit!Touches
  <2>5. CASE op.kind = "create" \/ op.kind = "delete"
    BY <1>2, <1>7, <1>8, <1>9, <2>1, <2>2, <2>4, <2>5 DEF WorkspaceEdit!ResourceOp, WorkspaceEdit!Exists
  <2>6. CASE op.kind = "rename"
    <3>1. x[op.to] = disk[op.to]
      BY <1>9, <1>10, <2>3, <2>6 DEF WorkspaceEdit!Touches
    <3>2. disk' = WorkspaceEdit!Renamed(disk, op) /\ Seen[k] = WorkspaceEdit!Renamed(x, op)
      BY <2>1, <2>2, <2>6 DEF WorkspaceEdit!ResourceOp
    <3>3. QED BY <1>2, <1>7, <1>8, <1>9, <2>4, <3>1, <3>2 DEF WorkspaceEdit!Renamed, WorkspaceEdit!Exists
  <2>7. op.kind \in {"create", "delete", "rename"}
    BY <1>3, <1>4, <2>1 DEF WorkspaceEdit!Ops
  <2>8. QED BY <2>5, <2>6, <2>7
<1>13. QED BY <1>11, <1>12

\* What is open in the editor stays as it is on disk.
LEMMA OnDiskOpen ==
  ASSUME EditsInv, WorkspaceEdit!EditFile \/ WorkspaceEdit!Resource, PlainOps(ops),
         NEW p \in WorkspaceEdit!Open
  PROVE  disk'[p] = disk[p]
<1>1. ~ran /\ WorkspaceEdit!Applying
  BY DEF EditsInv, BuffersWait, WorkspaceEdit!EditFile, WorkspaceEdit!Resource, WorkspaceEdit!Applying
<1>2. PICK k \in 1..Len(ops) : WorkspaceEdit!Op = ops[k] /\ ops[k] \in WorkspaceEdit!Ops
  BY <1>1, OpInRange DEF EditsInv
<1>3. PICK op : op = ops[k]
  OBVIOUS
<1>4. p \in DOMAIN disk
  BY <1>1 DEF EditsInv, ToldOfDisk, WorkspaceEdit!Open, WorkspaceEdit!Paths
<1>5. CASE WorkspaceEdit!EditFile
  <2>1. op.uri # p /\ (disk' = disk \/ disk' = [disk EXCEPT ![op.uri] = WorkspaceEdit!Edited(@, done + 1)])
    BY <1>2, <1>3, <1>5 DEF WorkspaceEdit!EditFile
  <2>2. QED BY <1>4, <2>1
<1>6. CASE WorkspaceEdit!Resource
  <2>1. op.kind # "edit" /\ (disk' = disk \/ disk' = WorkspaceEdit!ResourceOp(disk, op))
    BY <1>2, <1>3, <1>6 DEF WorkspaceEdit!Resource
  <2>2. ~WorkspaceEdit!Touches(op, p)
    BY <1>2, <1>3, <2>1 DEF PlainOps
  <2>3. QED BY <1>2, <1>3, <1>4, <2>1, <2>2
              DEF WorkspaceEdit!ResourceOp, WorkspaceEdit!Renamed, WorkspaceEdit!Touches, WorkspaceEdit!Ops
<1>7. QED BY <1>5, <1>6

LEMMA FileStep ==
  ASSUME EditsInv, WorkspaceEdit!EditFile \/ WorkspaceEdit!Resource
  PROVE  Asked' /\ Known' /\ Ordering' /\ OnDisk' /\ Lasting'
<1>1. /\ ~ran /\ WorkspaceEdit!Applying /\ ops # <<>> /\ ops \in Seq(WorkspaceEdit!Ops)
      /\ done \in 0..Len(ops) /\ applied = "none"
  BY DEF EditsInv, Asked, BuffersWait, WorkspaceEdit!EditFile, WorkspaceEdit!Resource, WorkspaceEdit!Applying
<1>2. PICK k \in 1..Len(ops) : k = done + 1 /\ WorkspaceEdit!Op = ops[k]
  BY <1>1, OpInRange DEF EditsInv
<1>3. /\ UNCHANGED <<ops, buffers, documents, command, ran, typed, before>>
      /\ \/ applied' = "none" /\ done' = k
         \/ applied' = "no" /\ done' = done /\ disk' = disk
  BY <1>1, <1>2 DEF WorkspaceEdit!EditFile, WorkspaceEdit!Resource
<1>4. Asked'
  BY <1>1, <1>2, <1>3 DEF EditsInv, Asked
<1>5. Known'
  BY <1>3 DEF EditsInv, Known
<1>6. Lasting'
  BY <1>1, <1>3 DEF Lasting
<1>7. OnDisk'
  <2> SUFFICES ASSUME PlainOps(ops) PROVE OnDisk'
    BY <1>3 DEF OnDisk
  <2>1. Seen' = Seen
    BY <1>3 DEF Seen
  <2>2. CASE applied' = "none" /\ done' = k
    BY <1>1, <1>2, <1>3, <2>1, <2>2, OnDiskOps, OnDiskOpen DEF EditsInv, OnDisk
  <2>3. CASE done' = done /\ disk' = disk
    BY <1>1, <1>3, <2>1, <2>3 DEF EditsInv, OnDisk
  <2>4. QED BY <1>3, <2>2, <2>3
<1>8. Ordering'
  <2>1. CASE done' = done
    BY <1>1, <1>3, <2>1 DEF EditsInv, Ordering, Ordered
  <2>2. CASE done' = k
    <3>1. \A m \in 1..done : m \in 1..k
      BY <1>1, <1>2
    <3>2. \A m \in 1..k : m \in 1..done \/ m = k
      BY <1>1, <1>2
    <3>3. ~(ops[k].kind = "edit" /\ ops[k].uri \in WorkspaceEdit!Open)
      BY <1>2 DEF WorkspaceEdit!EditFile, WorkspaceEdit!Resource
    <3>4. ASSUME NEW c, Ordered(c) PROVE Ordered(c)'
      BY <1>3, <2>2, <3>1, <3>4 DEF Ordered
    <3>5. \A i \in 1..Len(command') : Ordered(command[i])'
      <4> SUFFICES ASSUME NEW i \in 1..Len(command') PROVE Ordered(command[i])'
        OBVIOUS
      <4>1. PICK d : d = command[i]
        OBVIOUS
      <4>2. Ordered(d)
        BY <1>1, <1>3, <4>1 DEF EditsInv, Ordering
      <4>3. d = command'[i] /\ Ordered(d)'
        BY <1>3, <3>4, <4>1, <4>2
      <4>4. QED BY <4>3 DEF Ordered
    <3>6. QED BY <1>1, <1>3, <2>2, <3>2, <3>3, <3>5 DEF EditsInv, Ordering
  <2>3. QED BY <1>3, <2>1, <2>2
<1>9. QED BY <1>4, <1>5, <1>6, <1>7, <1>8

\* The user types or saves, or textDocument/didChange comes.
LEMMA UserStep ==
  ASSUME EditsInv, NEW p \in WorkspaceEdit!Open,
         \/ WorkspaceEdit!DidChange(p)
         \/ ops # <<>> /\ (WorkspaceEdit!Type(p) \/ WorkspaceEdit!Save(p))
  PROVE  Asked' /\ Known' /\ Ordering' /\ OnDisk' /\ Lasting'
<1>1. UNCHANGED <<ops, done, command, told, applied, ran, before>>
  BY DEF WorkspaceEdit!DidChange, WorkspaceEdit!Type, WorkspaceEdit!Save
<1>2. \/ typed' = typed /\ UNCHANGED <<disk, buffers>>
      \/ ops # <<>> /\ typed = {} /\ typed' = {p}
  BY DEF WorkspaceEdit!DidChange, WorkspaceEdit!Type, WorkspaceEdit!Save
<1>3. ASSUME NEW q, q \notin typed'
      PROVE  q \notin typed /\ disk'[q] = disk[q] /\ buffers'[q] = buffers[q]
  <2>1. CASE WorkspaceEdit!DidChange(p)
    BY <1>3, <2>1 DEF WorkspaceEdit!DidChange
  <2>2. CASE WorkspaceEdit!Type(p)
    BY <1>3, <2>2 DEF WorkspaceEdit!Type
  <2>3. CASE WorkspaceEdit!Save(p)
    BY <1>3, <2>3 DEF WorkspaceEdit!Save
  <2>4. QED BY <2>1, <2>2, <2>3
<1>4. Asked'
  BY <1>1, <1>2 DEF EditsInv, Asked
<1>5. Known'
  <2> SUFFICES ASSUME ~ran PROVE Known'
    BY <1>1 DEF Known
  <2>1. \/ documents' = documents
        \/ documents' = [documents EXCEPT ![p] = buffers[p]] /\ buffers' = buffers /\ typed' = typed
    BY DEF WorkspaceEdit!DidChange, WorkspaceEdit!Type, WorkspaceEdit!Save
  <2>2. DOMAIN documents' = WorkspaceEdit!Open
    BY <2>1 DEF EditsInv, Known
  <2>3. ASSUME NEW q \in WorkspaceEdit!Open \ typed' PROVE documents'[q] = buffers'[q]
    BY <1>3, <2>1, <2>3 DEF EditsInv, Known
  <2>4. QED BY <2>2, <2>3 DEF Known
<1>6. Ordering'
  <2> SUFFICES ASSUME ~ran PROVE Ordering'
    BY <1>1 DEF Ordering
  <2>1. ASSUME NEW c, Ordered(c) PROVE Ordered(c)'
    BY <1>1, <1>3, <2>1 DEF Ordered
  <2>2. \A i \in 1..Len(command') : Ordered(command[i])'
    <3> SUFFICES ASSUME NEW i \in 1..Len(command') PROVE Ordered(command[i])'
      OBVIOUS
    <3>1. PICK d : d = command[i]
      OBVIOUS
    <3>2. Ordered(d)
      BY <1>1, <3>1 DEF EditsInv, Ordering
    <3>3. d = command'[i] /\ Ordered(d)'
      BY <1>1, <2>1, <3>1, <3>2
    <3>4. QED BY <3>3 DEF Ordered
  <2>3. QED BY <1>1, <2>2 DEF EditsInv, Ordering
<1>7. OnDisk'
  <2> SUFFICES ASSUME ops # <<>>, ~ran, PlainOps(ops) PROVE OnDisk'
    BY <1>1 DEF OnDisk
  <2>1. Seen' = Seen
    BY <1>1 DEF Seen
  <2>2. ASSUME NEW q \in WorkspaceEdit!Paths \ WorkspaceEdit!Open PROVE disk'[q] = Seen[done][q]
    <3>1. disk' = disk \/ \E t : disk' = [disk EXCEPT ![p] = t]
      BY DEF WorkspaceEdit!DidChange, WorkspaceEdit!Type, WorkspaceEdit!Save
    <3>2. q # p
      BY <2>2
    <3>3. q \in DOMAIN disk
      BY <2>2 DEF EditsInv, ToldOfDisk
    <3>4. disk'[q] = disk[q]
      BY <3>1, <3>2, <3>3
    <3>5. QED BY <2>2, <3>4 DEF EditsInv, OnDisk
  <2>3. \A q \in WorkspaceEdit!Open \ typed' : disk'[q] = before.disk[q]
    BY <1>3 DEF EditsInv, OnDisk
  <2>4. QED BY <1>1, <2>1, <2>2, <2>3 DEF OnDisk
<1>8. Lasting'
  <2> SUFFICES ASSUME ran, PlainOps(ops) PROVE Lasting'
    BY <1>1 DEF Lasting
  <2>1. Seen' = Seen
    BY <1>1 DEF Seen
  <2>2. ASSUME NEW q \in WorkspaceEdit!Paths \ typed' PROVE AsMeant(q)'
    <3>1. AsMeant(q) /\ disk'[q] = disk[q] /\ buffers'[q] = buffers[q]
      BY <1>3, <2>2 DEF EditsInv, Lasting
    <3>2. WorkspaceEdit!Sees(disk, buffers)[q]' = WorkspaceEdit!Sees(disk, buffers)[q]
      BY <2>2, <3>1 DEF WorkspaceEdit!Sees
    <3>3. QED BY <1>1, <2>1, <3>1, <3>2 DEF AsMeant, OnlyEdited
  <2>3. QED BY <2>2 DEF Lasting
<1>9. QED BY <1>4, <1>5, <1>6, <1>7, <1>8

LEMMA ReplyStep ==
  ASSUME EditsInv, WorkspaceEdit!Reply PROVE Asked' /\ Known' /\ Ordering' /\ OnDisk' /\ Lasting'
<1>1. /\ UNCHANGED <<ops, done, disk, buffers, documents, command, told, ran, typed, before>>
      /\ ops # <<>> /\ done = Len(ops) /\ applied' = "yes"
  BY DEF WorkspaceEdit!Reply
<1>2. ~ran
  BY DEF EditsInv, BuffersWait, WorkspaceEdit!Reply
<1>3. Asked'
  BY <1>1 DEF EditsInv, Asked
<1>4. Known'
  BY <1>1 DEF EditsInv, Known
<1>5. Ordering'
  BY <1>1 DEF EditsInv, Ordering, Ordered
<1>6. OnDisk'
  BY <1>1 DEF EditsInv, OnDisk, Seen
<1>7. Lasting'
  BY <1>1, <1>2 DEF Lasting
<1>8. QED BY <1>3, <1>4, <1>5, <1>6, <1>7

\* The editor runs the command.
LEMMA RunStep ==
  ASSUME EditsInv, WorkspaceEdit!Run PROVE Asked' /\ Known' /\ Ordering' /\ OnDisk' /\ Lasting'
<1>1. /\ applied = "yes" /\ ~ran /\ ran'
      /\ UNCHANGED <<ops, done, documents, command, told, applied, typed, before>>
  BY DEF WorkspaceEdit!Run
<1>2. ops # <<>> /\ ops \in Seq(WorkspaceEdit!Ops) /\ done = Len(ops) /\ done \in Nat
  BY <1>1 DEF EditsInv, Asked
<1>3. Asked'
  BY <1>1, <1>2 DEF EditsInv, Asked
<1>4. Known' /\ Ordering' /\ OnDisk'
  BY <1>1 DEF Known, Ordering, OnDisk
<1>5. PICK n \in Nat : n = Len(command)
  BY <1>1 DEF EditsInv, Ordering
<1>6. \A i \in 1..n : Ordered(command[i])
  BY <1>1, <1>5 DEF EditsInv, Ordering
<1>7. \A i \in 1..n : command[i].path \in WorkspaceEdit!Open
  BY <1>6 DEF Ordered
<1>8. DOMAIN buffers = WorkspaceEdit!Open /\ DOMAIN disk = WorkspaceEdit!Paths
  BY <1>1 DEF EditsInv, BuffersWait, ToldOfDisk
<1>9. ASSUME PlainOps(ops), NEW p \in WorkspaceEdit!Paths, p \notin typed PROVE AsMeant(p)'
  <2>1. Seen' = Seen
    BY <1>1 DEF Seen
  <2>2. ASSUME NEW i \in 1..n, NEW j \in 1..n, command[i].path = p, command[j].path = p PROVE i = j
    <3>1. PICK c, d : c = command[i] /\ d = command[j]
      OBVIOUS
    <3>2. /\ c.op \in 1..done /\ Edits(ops[c.op], p) /\ p \in WorkspaceEdit!Open
          /\ d.op \in 1..done /\ Edits(ops[d.op], p)
      BY <1>6, <2>2, <3>1 DEF Ordered
    <3>3. c.op = d.op
      BY <1>2, <1>9, <3>2 DEF PlainOps, Edits
    <3>4. QED BY <1>1, <1>5, <3>1, <3>3 DEF EditsInv, Ordering
  <2>3. /\ DOMAIN buffers' = WorkspaceEdit!Open /\ DOMAIN disk' = WorkspaceEdit!Paths
        /\ (\A k \in 1..n : command[k].path # p) => buffers'[p] = buffers[p] /\ disk'[p] = disk[p]
        /\ \A i \in 1..n : command[i].path = p /\ command[i].text = buffers[p] =>
             /\ buffers'[p] = WorkspaceEdit!Edited(buffers[p], command[i].op)
             /\ disk'[p] = IF command[i].write THEN buffers'[p] ELSE disk[p]
    <3>1. \A i, j \in 1..n : command[i].path = p /\ command[j].path = p => i = j
      BY <2>2
    <3>2. QED BY ONLY <1>5, <1>7, <1>8, <1>9, <3>1, RunLeaves, WorkspaceEdit!Run
  <2>4. WorkspaceEdit!Sees(disk, buffers)'[p] = IF p \in WorkspaceEdit!Open THEN buffers'[p] ELSE disk'[p]
    BY <1>9 DEF WorkspaceEdit!Sees
  <2>5. CASE p \notin WorkspaceEdit!Open
    <3>1. disk'[p] = disk[p]
      BY <1>7, <2>3, <2>5
    <3>2. disk[p] = Seen[Len(ops)][p]
      BY <1>1, <1>2, <1>9, <2>5 DEF EditsInv, OnDisk
    <3>3. told[p] # WorkspaceEdit!NoFile /\ OnlyEdited(p) => told[p] = disk[p]
      BY <1>1, <1>9 DEF EditsInv, ToldOfDisk
    <3>4. QED BY <1>1, <2>1, <2>4, <2>5, <3>1, <3>2, <3>3 DEF AsMeant, OnlyEdited
  <2>6. CASE p \in WorkspaceEdit!Open
    <3>1. buffers[p] = before.buffers[p] /\ disk[p] = before.disk[p] /\ told[p] = WorkspaceEdit!NoFile
      BY <1>1, <1>2, <1>9, <2>6 DEF EditsInv, BuffersWait, OnDisk, ToldOfDisk
    <3>2. PICK m \in Nat : m = Len(ops)
      BY <1>2
    <3>3. PICK b, os : b = before /\ os = ops
      OBVIOUS
    <3>4. b.buffers[p] # WorkspaceEdit!NoFile
      BY <2>6, <3>3 DEF EditsInv, Asked
    <3>5. /\ (\A j \in 1..m : ~Edits(os[j], p)) => SeenIn(b, os)[m][p] = b.buffers[p]
          /\ \A j \in 1..m : Edits(os[j], p) =>
               SeenIn(b, os)[m][p] = WorkspaceEdit!Edited(b.buffers[p], j)
      <4>1. m \in 0..Len(os)
        BY <3>2, <3>3
      <4>2. os \in Seq(WorkspaceEdit!Ops)
        BY <1>2, <3>3
      <4>3. PlainOps(os)
        BY <1>9, <3>3
      <4>4. QED BY <2>6, <3>4, <4>1, <4>2, <4>3, SeenOpen
    <3>6. CASE \A k \in 1..n : command[k].path # p
      <4>1. ASSUME NEW j \in 1..m, Edits(ops[j], p) PROVE FALSE
        <5>1. PICK i \in 1..n : command[i].op = j
          BY <1>1, <1>2, <1>5, <2>6, <3>2, <4>1 DEF EditsInv, Ordering, Edits
        <5>2. Edits(ops[j], command[i].path)
          BY <1>6, <5>1 DEF Ordered
        <5>3. QED BY <3>6, <4>1, <5>2 DEF Edits
      <4>2. Seen[Len(ops)][p] = before.buffers[p]
        BY <3>2, <3>3, <3>5, <4>1 DEF Seen
      <4>3. QED BY <1>1, <2>1, <2>3, <2>4, <2>6, <3>1, <3>6, <4>2 DEF AsMeant
    <3>7. ASSUME NEW i \in 1..n, command[i].path = p PROVE AsMeant(p)'
      <4>1. PICK c : c = command[i]
        OBVIOUS
      <4>2. /\ c.op \in 1..m /\ Edits(ops[c.op], p) /\ c.text = buffers[p]
            /\ c.write = (p # Current /\ before.disk[p] = before.buffers[p])
        BY <1>2, <1>6, <1>9, <3>1, <3>2, <3>7, <4>1 DEF Ordered
      <4>3. Seen[Len(ops)][p] = WorkspaceEdit!Edited(before.buffers[p], c.op)
        BY <3>2, <3>3, <3>5, <4>2 DEF Seen
      <4>4. /\ buffers'[p] = WorkspaceEdit!Edited(buffers[p], c.op)
            /\ disk'[p] = IF c.write THEN buffers'[p] ELSE disk[p]
        BY <2>3, <3>7, <4>1, <4>2
      <4>5. QED BY <1>1, <2>1, <2>4, <2>6, <3>1, <4>2, <4>3, <4>4 DEF AsMeant
    <3>8. QED BY <3>6, <3>7
  <2>7. QED BY <2>5, <2>6
<1>10. Lasting'
  <2> SUFFICES ASSUME PlainOps(ops), NEW p \in WorkspaceEdit!Paths \ typed PROVE AsMeant(p)'
    BY <1>1 DEF Lasting
  <2>1. QED BY <1>9
<1>11. QED BY <1>3, <1>4, <1>10

LEMMA EditsStep == EditsInv /\ [WorkspaceEdit!Next]_ofWorkspaceEdits => EditsInv'
<1> SUFFICES ASSUME EditsInv, [WorkspaceEdit!Next]_ofWorkspaceEdits PROVE EditsInv'
  OBVIOUS
<1>1. BuffersWait' /\ ToldOfDisk'
  BY BuffersStep, ToldStep DEF EditsInv
<1>2. CASE UNCHANGED ofWorkspaceEdits \/ UNCHANGED WorkspaceEdit!vars
  <2>1. UNCHANGED <<ops, done, disk, buffers, documents, command, told, applied, ran, typed, before>>
    BY <1>2 DEF ofWorkspaceEdits, WorkspaceEdit!vars
  <2>2. Asked' /\ Known' /\ Ordering' /\ OnDisk'
    BY <2>1 DEF EditsInv, Asked, Known, Ordering, Ordered, OnDisk, Seen
  <2>3. Lasting'
    BY <2>1 DEF EditsInv, Lasting, AsMeant, Seen, OnlyEdited
  <2>4. QED BY <1>1, <2>2, <2>3 DEF EditsInv
<1>3. CASE WorkspaceEdit!Ask
  BY <1>1, <1>3, AskStep DEF EditsInv
<1>4. CASE WorkspaceEdit!EditOpen
  BY <1>1, <1>4, EditOpenStep DEF EditsInv
<1>5. CASE WorkspaceEdit!EditFile \/ WorkspaceEdit!Resource
  BY <1>1, <1>5, FileStep DEF EditsInv
<1>6. CASE WorkspaceEdit!Reply
  BY <1>1, <1>6, ReplyStep DEF EditsInv
<1>7. CASE WorkspaceEdit!Run
  BY <1>1, <1>7, RunStep DEF EditsInv
<1>8. ASSUME NEW p \in WorkspaceEdit!Open,
             \/ WorkspaceEdit!DidChange(p)
             \/ ops # <<>> /\ (WorkspaceEdit!Type(p) \/ WorkspaceEdit!Save(p))
      PROVE  EditsInv'
  BY <1>1, <1>8, UserStep DEF EditsInv
<1>9. QED BY <1>2, <1>3, <1>4, <1>5, <1>6, <1>7, <1>8 DEF WorkspaceEdit!Next

-----------------------------------------------------------------------------
(***************************************************************************)
(* The theorems.                                                           *)
(***************************************************************************)

LEMMA EditsInvariant == Spec => [](part = "workspace edits" => EditsInv)
<1> DEFINE I == part = "workspace edits" => EditsInv
<1>1. Init => I
  BY EditsInit DEF Init
<1>2. I /\ [Next]_vars => I'
  <2> SUFFICES ASSUME I, [Next]_vars, part' = "workspace edits" PROVE EditsInv'
    OBVIOUS
  <2>1. part = "workspace edits" /\ EditsInv
    BY DEF Next, vars
  <2>2. [WorkspaceEdit!Next]_ofWorkspaceEdits
    BY <2>1 DEF Next, vars
  <2>3. QED BY <2>1, <2>2, EditsStep
<1>3. QED BY <1>1, <1>2, PTL DEF Spec

\* Until the editor runs the command for a workspace edit, its buffers are as they were
\* when the edit came, but for what the user types;
\* what servers were told of a file that was edited on disk is what the file contains,
\* unless another operation is about it (workspace.rs).
THEOREM NothingBeforeItsTime ==
  Spec => [](part = "workspace edits" =>
               /\ ~ran => \A p \in WorkspaceEdit!Open \ typed : buffers[p] = before.buffers[p]
               /\ ~ran => \A p \in WorkspaceEdit!Paths :
                    told[p] # WorkspaceEdit!NoFile /\ OnlyEdited(p) => told[p] = disk[p])
<1>1. (part = "workspace edits" => EditsInv) =>
        (part = "workspace edits" =>
           /\ ~ran => \A p \in WorkspaceEdit!Open \ typed : buffers[p] = before.buffers[p]
           /\ ~ran => \A p \in WorkspaceEdit!Paths :
                told[p] # WorkspaceEdit!NoFile /\ OnlyEdited(p) => told[p] = disk[p])
  BY DEF EditsInv, BuffersWait, ToldOfDisk
<1>2. QED BY <1>1, EditsInvariant, PTL

\* A workspace edit that is reported as applied leaves every text as if its operations had
\* been made one after the other, although edits of buffers are put off until the editor
\* runs them and everything else happens at once; hidden buffers are on disk afterwards if
\* they were before, and unsaved text is not; a failed one leaves files that are not open
\* as the operations before the failing one left them (workspace.rs, text_edit.rs).
THEOREM WorkspaceEditsApplied == Spec => []AppliedAsMeant
<1>1. (part = "workspace edits" => EditsInv) => AppliedAsMeant
  <2> SUFFICES ASSUME part = "workspace edits", EditsInv,
                      NEW p \in WorkspaceEdit!Paths \ typed
               PROVE  /\ ran /\ WorkspaceEdit!Plain =>
                           /\ WorkspaceEdit!Sees(disk, buffers)[p] = WorkspaceEdit!MeantBy(Len(ops))[p]
                           /\ p \in WorkspaceEdit!Open =>
                                disk[p] = IF p # Current /\ before.disk[p] = before.buffers[p]
                                          THEN buffers[p] ELSE before.disk[p]
                           /\ told[p] # WorkspaceEdit!NoFile
                              /\ (\A op \in WorkspaceEdit!Range(ops) :
                                    WorkspaceEdit!Touches(op, p) => op.kind = "edit") => told[p] = disk[p]
                      /\ applied = "no" /\ WorkspaceEdit!Plain /\ p \notin WorkspaceEdit!Open =>
                           disk[p] = WorkspaceEdit!MeantBy(done)[p]
    BY DEF AppliedAsMeant, WorkspaceEdit!AppliedAsMeant
  <2>1. ASSUME applied = "no", WorkspaceEdit!Plain, p \notin WorkspaceEdit!Open
        PROVE  disk[p] = Seen[done][p]
    <3>1. ~ran /\ ops # <<>> /\ ops \in Seq(WorkspaceEdit!Ops)
      BY <2>1 DEF EditsInv, Asked, BuffersWait
    <3>2. PlainOps(ops)
      BY <2>1, <3>1, PlainIsPlainOps
    <3>3. QED BY <2>1, <3>1, <3>2 DEF EditsInv, OnDisk
  <2>2. ASSUME ran, WorkspaceEdit!Plain PROVE AsMeant(p) /\ ops \in Seq(WorkspaceEdit!Ops)
    <3>1. ops \in Seq(WorkspaceEdit!Ops)
      BY <2>2 DEF EditsInv, Asked
    <3>2. PlainOps(ops)
      BY <2>2, <3>1, PlainIsPlainOps
    <3>3. QED BY <2>2, <3>1, <3>2 DEF EditsInv, Lasting
  <2>3. ASSUME ran, WorkspaceEdit!Plain,
               \A op \in WorkspaceEdit!Range(ops) : WorkspaceEdit!Touches(op, p) => op.kind = "edit"
        PROVE  OnlyEdited(p)
    <3>1. ops \in Seq(WorkspaceEdit!Ops)
      BY <2>2, <2>3
    <3>2. DOMAIN ops = 1..Len(ops)
      BY ONLY <3>1
    <3>3. QED BY <2>3, <3>2 DEF WorkspaceEdit!Range, OnlyEdited
  <2>4. QED BY <2>1, <2>2, <2>3, MeantIsSeen DEF AsMeant
<1>2. QED BY <1>1, EditsInvariant, PTL

=============================================================================
