------------------------- MODULE CodeActionsProofs -------------------------
(***************************************************************************)
(* Proofs about CodeActions, for any servers and whatever they answer:     *)
(* servers are asked about current ranges, twice at most, and what a       *)
(* synchronous request does is done to the text that it was about.         *)
(***************************************************************************)
EXTENDS CodeActions, FiniteSetTheorems, TLAPS

All == UNION {Actions[s] : s \in Servers}
Doable == All \cup {Resolved(a) : a \in All}

Outcomes ==
  {"none", "open", "menu", "dropped", "stale", "done", "error", "indicator"}

Calls ==
  [way : {"none", "menu", "sync", "hook"}, filter : {"none", "kinds", "regex"}, version : Nat,
   start : {"inside", "line"}, first : Servers \cup {First}, round : Nat,
   waiting : SUBSET Servers, results : [Servers -> [answer : {"error", "null", "list"}, actions : SUBSET All]],
   outcome : Outcomes, pick : SUBSET All]

Whats == {"edit", "command", "resolve"}
Requests == [what : Whats, action : Doable, sync : BOOLEAN]

Typed ==
  /\ able \subseteq Servers
  /\ version \in Nat
  /\ call \in Calls
  /\ toServer \in Seq(Requests)
  /\ \A n \in 1..Len(toServer) : toServer[n].what = "resolve" => toServer[n].action \in All
  /\ resolving \subseteq All
  /\ made \in Seq([what : Whats, server : {First} \cup {a.server : a \in Doable}, version : Nat])

\* Whole lines are asked about at most once, after a range within lines.
AskedWell ==
  /\ RangesAreCurrent /\ AskedAgainOnce
  /\ call.round <= IF call.start = "line" THEN 2 ELSE 1

\* Nothing is under way before an action is picked, and none is while answers are missing.
PickedLate ==
  /\ call.waiting # {} => call.outcome = "open"
  /\ call.outcome \in {"none", "open", "menu"} => call.pick = {}
  /\ call.pick = {} => toServer = <<>> /\ resolving = {} /\ made = <<>>

\* From a synchronous request to the end of the edit it leads to, the document stays
\* what it was.
SyncHolds ==
  call.way = "sync" =>
    /\ call.outcome # "menu"
    /\ call.outcome = "open" => call.version = version
    /\ \A a \in call.pick : a.edit =>
         /\ resolving = {}
         /\ toServer # <<>> => call.version = version
         /\ \A n \in 1..Len(toServer) : toServer[n].sync /\ toServer[n].what # "resolve"
         /\ \A n \in 1..Len(made) : made[n].version = call.version

Inv == Typed /\ AskedWell /\ PickedLate /\ SyncHolds

-----------------------------------------------------------------------------

LEMMA InvInit == Init => Inv
<1> SUFFICES ASSUME Init PROVE Inv
  OBVIOUS
<1> USE DEF Init, Idle, Failure
<1>1. Typed
  <2>1. call \in Calls
    <3>1. [s \in Servers |-> Failure] \in [Servers -> [answer : {"error", "null", "list"}, actions : SUBSET All]]
      OBVIOUS
    <3> QED BY <3>1 DEF Calls, Outcomes
  <2>2. toServer \in Seq(Requests) /\ Len(toServer) = 0
    OBVIOUS
  <2>3. made \in Seq([what : Whats, server : {First} \cup {a.server : a \in Doable}, version : Nat])
    OBVIOUS
  <2>4. able \subseteq Servers /\ version \in Nat /\ resolving \subseteq All
    OBVIOUS
  <2> QED BY <2>1, <2>2, <2>3, <2>4 DEF Typed
<1>2. AskedWell
  BY DEF AskedWell, RangesAreCurrent, AskedAgainOnce
<1>3. PickedLate /\ SyncHolds
  BY DEF PickedLate, SyncHolds
<1> QED BY <1>1, <1>2, <1>3 DEF Inv

\* The commands for an action, and when one of them is a request to resolve it.
LEMMA CommandsTyped ==
  ASSUME NEW a, NEW mayResolve \in BOOLEAN
  PROVE  /\ Commands(a, mayResolve) \in Seq(Whats)
         /\ \A n \in 1..Len(Commands(a, mayResolve)) :
              Commands(a, mayResolve)[n] = "resolve" => mayResolve /\ ~a.edit
<1> DEFINE command == IF a.command THEN <<"command">> ELSE <<>>
           Others == {"edit", "command"}
<1>1. command \in Seq(Others) /\ <<"command">> \in Seq(Others) /\ <<"edit">> \in Seq(Others)
  <2>1. <<>> \in Seq(Others) /\ <<"command">> \in Seq(Others) /\ <<"edit">> \in Seq(Others)
    OBVIOUS
  <2>2. command = <<"command">> \/ command = <<>>
    BY Zenon
  <2> QED BY <2>1, <2>2
<1>2. <<"edit">> \o command \in Seq(Others)
  BY <1>1
<1>3. \/ Commands(a, mayResolve) \in Seq(Others)
      \/ mayResolve /\ ~a.edit /\ Commands(a, mayResolve) = <<"resolve">>
  <2>1. \/ Commands(a, mayResolve) = <<"command">>
        \/ Commands(a, mayResolve) = <<"edit">> \o command
        \/ mayResolve /\ ~a.edit /\ Commands(a, mayResolve) = <<"resolve">>
        \/ Commands(a, mayResolve) = command
    BY Zenon DEF Commands
  <2> QED BY <1>1, <1>2, <2>1
<1>4. CASE Commands(a, mayResolve) \in Seq(Others)
  BY <1>4 DEF Whats
<1>5. CASE mayResolve /\ ~a.edit /\ Commands(a, mayResolve) = <<"resolve">>
  <2>1. <<"resolve">> \in Seq(Whats)
    BY DEF Whats
  <2> QED BY <1>5, <2>1
<1> QED BY <1>3, <1>4, <1>5

\* What Do leaves in the queue of requests.
LEMMA DoTyped ==
  ASSUME Typed, NEW a \in Doable, NEW sync \in BOOLEAN, NEW mayResolve \in BOOLEAN,
         mayResolve => a \in All, Do(a, sync, mayResolve)
  PROVE  /\ toServer' \in Seq(Requests)
         /\ \A n \in 1..Len(toServer') : toServer'[n].what = "resolve" => toServer'[n].action \in All
         /\ toServer = <<>> /\ a.edit =>
              \A n \in 1..Len(toServer') :
                toServer'[n].sync = sync /\ toServer'[n].what # "resolve"
<1> DEFINE commands == Commands(a, mayResolve)
           more == [n \in DOMAIN commands |->
                      [what |-> commands[n], action |-> a,
                       sync |-> sync /\ commands[n] # "resolve"]]
<1>1. /\ commands \in Seq(Whats)
      /\ \A n \in 1..Len(commands) : commands[n] = "resolve" => mayResolve /\ ~a.edit
  BY CommandsTyped
<1>2. toServer' = toServer \o more
  BY DEF Do
<1> HIDE DEF commands
<1>3. \A n \in 1..Len(commands) : more[n] \in Requests
  BY <1>1 DEF Requests
<1>4. more \in Seq(Requests) /\ Len(more) = Len(commands)
  <2>1. Len(commands) \in Nat /\ DOMAIN commands = 1..Len(commands)
    BY <1>1
  <2>2. more \in [1..Len(commands) -> Requests]
    BY <1>3, <2>1
  <2> QED BY <2>1, <2>2
<1>5. \A n \in 1..Len(more) :
         /\ more[n].what = "resolve" => more[n].action \in All
         /\ a.edit => more[n].sync = sync /\ more[n].what # "resolve"
  BY <1>1, <1>4
<1> HIDE DEF more
<1>6. toServer \in Seq(Requests) /\ toServer \o more \in Seq(Requests)
  BY <1>4 DEF Typed
<1>7. \A n \in 1..Len(toServer \o more) :
         \/ n \in 1..Len(toServer) /\ (toServer \o more)[n] = toServer[n]
         \/ n - Len(toServer) \in 1..Len(more) /\ (toServer \o more)[n] = more[n - Len(toServer)]
  BY <1>4, <1>6
<1>8. \A n \in 1..Len(toServer') : toServer'[n].what = "resolve" => toServer'[n].action \in All
  BY <1>2, <1>5, <1>7 DEF Typed
<1>9. ASSUME toServer = <<>>, a.edit, NEW n \in 1..Len(toServer')
      PROVE  toServer'[n].sync = sync /\ toServer'[n].what # "resolve"
  <2>1. Len(toServer) = 0
    BY <1>9
  <2> QED BY <1>2, <1>5, <1>7, <1>9, <2>1
<1> QED BY <1>2, <1>6, <1>8, <1>9

LEMMA OfferedTyped ==
  ASSUME able \subseteq Servers, NEW c \in Calls
  PROVE  Offered(c) \subseteq All
BY DEF Offered, Calls

-----------------------------------------------------------------------------

LEMMA RequestStep ==
  ASSUME Inv, NEW w \in Ways, NEW start \in {"inside", "line"}, NEW first \in able,
         Request(w, start, first)
  PROVE  Inv'
<1>1. /\ able' = able /\ version' = version /\ toServer' = toServer
      /\ resolving' = resolving /\ made' = made
  BY DEF Request
<1>2. /\ call' = [Idle EXCEPT !.way = w.way, !.filter = w.filter, !.version = version,
                             !.start = start, !.first = first, !.round = 1, !.waiting = able,
                             !.outcome = "open"]
      /\ asked' = asked \cup {[round |-> call'.round, of |-> call'.version, sentAt |-> version]}
  BY DEF Request, Ask
<1>3. /\ w.way \in {"menu", "sync", "hook"} /\ w.filter \in {"none", "kinds", "regex"}
      /\ Idle \in Calls /\ Idle.pick = {} /\ Idle.outcome = "none"
      /\ call = Idle /\ able \subseteq Servers /\ version \in Nat
  BY DEF Ways, Request, Inv, Typed, Idle
<1>4. /\ call' \in Calls /\ call'.version = version /\ call'.round = 1 /\ call'.outcome = "open"
      /\ call'.pick = {} /\ call'.start = start
  BY <1>2, <1>3 DEF Calls, Outcomes
<1>5. toServer = <<>> /\ resolving = {} /\ made = <<>>
  BY <1>3 DEF Inv, PickedLate
<1>6. Typed'
  BY <1>1, <1>4 DEF Inv, Typed
<1>7. AskedWell'
  BY <1>2, <1>4 DEF Inv, AskedWell, RangesAreCurrent, AskedAgainOnce
<1>8. PickedLate'
  BY <1>1, <1>4, <1>5 DEF PickedLate
<1>9. SyncHolds'
  BY <1>1, <1>4 DEF SyncHolds
<1> QED BY <1>6, <1>7, <1>8, <1>9 DEF Inv

\* The user cannot type while it matters.
LEMMA TypeStep == Inv /\ Type => Inv'
<1> SUFFICES ASSUME Inv, Type PROVE Inv'
  OBVIOUS
<1>1. /\ version' = version + 1 /\ ~Blocked
      /\ UNCHANGED <<able, call, asked, toServer, resolving, made>>
  BY DEF Type
<1>2. Typed'
  BY <1>1 DEF Inv, Typed
<1>3. AskedWell' /\ PickedLate'
  BY <1>1 DEF Inv, AskedWell, RangesAreCurrent, AskedAgainOnce, PickedLate
<1>4. SyncHolds'
  <2> SUFFICES ASSUME call.way = "sync", NEW a \in call.pick, a.edit PROVE toServer = <<>>
    BY <1>1 DEF Blocked, Inv, SyncHolds
  <2>1. \A n \in 1..Len(toServer) : toServer[n].sync
    BY DEF Inv, SyncHolds
  <2>2. toServer \in Seq(Requests)
    BY DEF Inv, Typed
  <2>3. \A n \in DOMAIN toServer : ~toServer[n].sync
    BY <1>1 DEF Blocked
  <2> QED BY <2>1, <2>2, <2>3
<1> QED BY <1>2, <1>3, <1>4 DEF Inv

\* All answers to a call are in.
LEMMA EditorStep ==
  ASSUME Inv, call.waiting # {}, NEW c \in Calls, c.waiting = {},
         c.way = call.way, c.version = call.version, c.start = call.start,
         c.round = call.round, c.outcome = call.outcome, c.pick = call.pick,
         EditorCodeActions(c), UNCHANGED <<able, version, resolving, made>>
  PROVE  Inv'
<1>1. /\ c.outcome = "open" /\ c.pick = {}
      /\ toServer = <<>> /\ resolving = {} /\ made = <<>>
  BY DEF Inv, PickedLate
<1>2. able' = able /\ version' = version /\ resolving' = resolving /\ made' = made
  OBVIOUS
<1>3. Typed /\ AskedWell /\ able \subseteq Servers
  BY DEF Inv, Typed
<1>4. ASSUME NEW outcome \in Outcomes \ {"none", "open", "menu"}, End(c, outcome, {}),
             UNCHANGED <<asked, toServer>>
      PROVE  Inv'
  <2>1. /\ call' \in Calls /\ call'.outcome = outcome /\ call'.pick = {} /\ call'.waiting = {}
        /\ call'.way = c.way /\ call'.version = c.version /\ call'.start = c.start
        /\ call'.round = c.round
    BY <1>4 DEF End, Calls
  <2>2. Typed'
    BY <1>2, <1>3, <1>4, <2>1 DEF Typed
  <2>3. AskedWell'
    BY <1>3, <1>4, <2>1 DEF AskedWell, RangesAreCurrent, AskedAgainOnce
  <2>4. PickedLate' /\ SyncHolds'
    BY <1>1, <1>2, <1>4, <2>1 DEF PickedLate, SyncHolds
  <2> QED BY <2>2, <2>3, <2>4 DEF Inv
<1>5. ASSUME End(c, "menu", {}), c.way # "sync", UNCHANGED <<asked, toServer>>
      PROVE  Inv'
  <2>1. /\ call' \in Calls /\ call'.outcome = "menu" /\ call'.pick = {} /\ call'.waiting = {}
        /\ call'.way = c.way /\ call'.start = c.start /\ call'.round = c.round
    BY <1>5 DEF End, Calls, Outcomes
  <2>2. Typed'
    BY <1>2, <1>3, <1>5, <2>1 DEF Typed
  <2>3. AskedWell'
    BY <1>3, <1>5, <2>1 DEF AskedWell, RangesAreCurrent, AskedAgainOnce
  <2>4. PickedLate' /\ SyncHolds'
    BY <1>1, <1>2, <1>5, <2>1 DEF PickedLate, SyncHolds
  <2> QED BY <2>2, <2>3, <2>4 DEF Inv
<1>6. ASSUME AskAgain(c), Fresh(c), UNCHANGED toServer,
             Ask([c EXCEPT !.start = "line", !.round = @ + 1, !.waiting = able])
      PROVE  Inv'
  <2>1. /\ call' \in Calls /\ call'.outcome = "open" /\ call'.pick = {}
        /\ call'.way = c.way /\ call'.version = c.version /\ call'.start = "line"
        /\ call'.round = c.round + 1
    <3>1. call' = [c EXCEPT !.start = "line", !.round = @ + 1, !.waiting = able]
      BY <1>6 DEF Ask
    <3>2. c.round \in Nat /\ c.round + 1 \in Nat
      BY DEF Calls
    <3> QED BY <1>1, <1>3, <3>1, <3>2 DEF Calls
  <2>2. c.round <= 1 /\ c.round \in Nat /\ c.version = version
    BY <1>3, <1>6 DEF AskAgain, Fresh, AskedWell, Calls
  <2>3. asked' = asked \cup {[round |-> call'.round, of |-> call'.version, sentAt |-> version]}
    BY <1>6 DEF Ask
  <2>4. Typed'
    BY <1>2, <1>3, <1>6, <2>1 DEF Typed
  <2>5. AskedWell'
    <3>1. call'.round <= 2 /\ call'.version = version /\ call'.start = "line"
      BY <2>1, <2>2
    <3>2. \A r \in asked' : r.of = r.sentAt /\ r.round <= 2
      BY <1>3, <2>3, <3>1 DEF AskedWell, RangesAreCurrent, AskedAgainOnce
    <3> QED BY <3>1, <3>2 DEF AskedWell, RangesAreCurrent, AskedAgainOnce
  <2>6. PickedLate' /\ SyncHolds'
    BY <1>1, <1>2, <1>6, <2>1, <2>2 DEF PickedLate, SyncHolds
  <2> QED BY <2>4, <2>5, <2>6 DEF Inv
<1>7. ASSUME Cardinality(Wanted(c)) = 1, End(c, "done", Wanted(c)), UNCHANGED asked,
             \A a \in Wanted(c) : Do(a, c.way = "sync", MayResolve(a)), NEW x \in Wanted(c)
      PROVE  Inv'
  <2>1. Wanted(c) \subseteq All
    BY <1>3, OfferedTyped DEF Wanted
  <2>2. /\ call' \in Calls /\ call'.outcome = "done" /\ call'.pick = Wanted(c)
        /\ call'.waiting = {} /\ call'.way = c.way /\ call'.version = c.version
        /\ call'.start = c.start /\ call'.round = c.round
    BY <1>7, <2>1 DEF End, Calls, Outcomes
  <2>3. ASSUME NEW a \in Wanted(c)
        PROVE  /\ toServer' \in Seq(Requests)
               /\ \A n \in 1..Len(toServer') :
                    toServer'[n].what = "resolve" => toServer'[n].action \in All
               /\ a.edit => \A n \in 1..Len(toServer') :
                    toServer'[n].sync = (c.way = "sync") /\ toServer'[n].what # "resolve"
    <3>1. a \in All /\ a \in Doable /\ MayResolve(a) \in BOOLEAN /\ Do(a, c.way = "sync", MayResolve(a))
      BY <1>7, <2>1 DEF Doable, MayResolve
    <3> QED BY <1>1, <1>3, <3>1, DoTyped
  <2>4. Typed'
    BY <1>2, <1>3, <1>7, <2>2, <2>3 DEF Typed
  <2>5. AskedWell'
    BY <1>3, <1>7, <2>2 DEF AskedWell, RangesAreCurrent, AskedAgainOnce
  <2>6. PickedLate'
    BY <1>7, <2>2 DEF PickedLate
  <2>7. SyncHolds'
    <3>1. c.way = "sync" => call.version = version
      BY <1>1 DEF Inv, SyncHolds
    <3>2. Len(made') = 0 /\ resolving' = {}
      BY <1>1, <1>2
    <3>3. c.version = call.version /\ c.way = call.way
      OBVIOUS
    <3>4. ASSUME c.way = "sync", NEW a \in Wanted(c), a.edit
          PROVE  \A n \in 1..Len(toServer') : toServer'[n].sync /\ toServer'[n].what # "resolve"
      BY <2>3, <3>4
    <3> QED BY <1>2, <2>2, <3>1, <3>2, <3>3, <3>4 DEF SyncHolds
  <2> QED BY <2>4, <2>5, <2>6, <2>7 DEF Inv
<1>8. CASE Cardinality(Wanted(c)) = 1 /\ Single(c) /\ End(c, "done", Wanted(c)) /\ UNCHANGED asked
            /\ \A a \in Wanted(c) : Do(a, c.way = "sync", MayResolve(a))
  <2>1. PICK x : x \in Wanted(c)
    <3>1. Cardinality({}) = 0
      BY FS_EmptySet
    <3> QED BY <1>8, <3>1
  <2> QED BY <1>7, <1>8, <2>1
<1> QED
  <2>1. CASE Succeeded(c) = {}
    BY <1>4, <2>1 DEF EditorCodeActions, Outcomes, AskAgain
  <2>2. CASE Succeeded(c) # {} /\ AskAgain(c)
    BY <1>4, <1>6, <2>2 DEF EditorCodeActions, Outcomes
  <2>3. CASE Succeeded(c) # {} /\ ~AskAgain(c) /\ Single(c)
    BY <1>4, <1>8, <2>3 DEF EditorCodeActions, Outcomes
  <2>4. CASE Succeeded(c) # {} /\ ~AskAgain(c) /\ ~Single(c)
    BY <1>4, <1>5, <2>4 DEF EditorCodeActions, Outcomes, Single
  <2> QED BY <2>1, <2>2, <2>3, <2>4

LEMMA AnswerStep ==
  ASSUME Inv, NEW s \in call.waiting, NEW answer \in Answers(call, s), Answer(s, answer)
  PROVE  Inv'
<1> DEFINE c == [call EXCEPT !.waiting = @ \ {s}, !.results[s] = answer]
<1>1. call \in Calls /\ s \in Servers
  BY DEF Inv, Typed, Calls
<1>2. answer \in [answer : {"error", "null", "list"}, actions : SUBSET All]
  BY <1>1 DEF Answers, Failure, Null, List, All
<1>3. /\ c \in Calls
      /\ c.way = call.way /\ c.version = call.version /\ c.start = call.start
      /\ c.round = call.round /\ c.outcome = call.outcome /\ c.pick = call.pick
  BY <1>1, <1>2 DEF Calls
<1>4. UNCHANGED <<able, version, resolving, made>>
  BY DEF Answer
<1>5. CASE c.waiting = {}
  <2>1. EditorCodeActions(c)
    BY <1>5 DEF Answer
  <2> HIDE DEF c
  <2> QED BY <1>3, <1>4, <1>5, <2>1, EditorStep
<1>6. CASE c.waiting # {}
  <2>1. call' = c /\ UNCHANGED <<asked, toServer>>
    BY <1>6 DEF Answer
  <2> HIDE DEF c
  <2>2. Typed'
    BY <1>3, <1>4, <2>1 DEF Inv, Typed
  <2>3. AskedWell' /\ PickedLate'
    BY <1>3, <1>4, <2>1 DEF Inv, AskedWell, RangesAreCurrent, AskedAgainOnce, PickedLate
  <2>4. SyncHolds'
    BY <1>3, <1>4, <2>1 DEF Inv, SyncHolds
  <2> QED BY <2>2, <2>3, <2>4 DEF Inv
<1> QED BY <1>5, <1>6

\* A menu is never one of a synchronous request.
LEMMA ChooseStep ==
  ASSUME Inv, NEW a \in Offered(call), Choose(a)
  PROVE  Inv'
<1>1. /\ call \in Calls /\ call.outcome = "menu" /\ call.pick = {} /\ call.way # "sync"
      /\ toServer = <<>> /\ resolving = {} /\ made = <<>>
  BY DEF Inv, Typed, PickedLate, SyncHolds, Choose
<1>2. /\ UNCHANGED <<able, version, asked, resolving, made>>
      /\ End(call, "done", {a}) /\ Do(a, FALSE, MayResolve(a))
  BY DEF Choose
<1>3. a \in All /\ a \in Doable /\ MayResolve(a) \in BOOLEAN /\ Typed
  BY <1>1, OfferedTyped DEF Inv, Typed, Doable, MayResolve
<1>4. /\ call' \in Calls /\ call'.outcome = "done" /\ call'.pick = {a}
      /\ call'.waiting = call.waiting /\ call'.way = call.way /\ call'.start = call.start
      /\ call'.round = call.round
  BY <1>1, <1>2, <1>3 DEF End, Calls, Outcomes
<1>5. /\ toServer' \in Seq(Requests)
      /\ \A n \in 1..Len(toServer') : toServer'[n].what = "resolve" => toServer'[n].action \in All
  BY <1>2, <1>3, DoTyped
<1>6. call.waiting = {}
  BY <1>1 DEF Inv, PickedLate
<1>7. Typed'
  BY <1>2, <1>3, <1>4, <1>5 DEF Typed
<1>8. AskedWell'
  BY <1>2, <1>4 DEF Inv, AskedWell, RangesAreCurrent, AskedAgainOnce
<1>9. PickedLate' /\ SyncHolds'
  BY <1>1, <1>4, <1>6 DEF PickedLate, SyncHolds
<1> QED BY <1>7, <1>8, <1>9 DEF Inv

\* What is left of the queue when its head was taken.
LEMMA TailTyped ==
  ASSUME Typed, toServer # <<>>, toServer' = Tail(toServer)
  PROVE  /\ Len(toServer) \in Nat \ {0} /\ Head(toServer) = toServer[1]
         /\ toServer[1] \in Requests
         /\ toServer' \in Seq(Requests)
         /\ \A n \in 1..Len(toServer') :
              n + 1 \in 1..Len(toServer) /\ toServer'[n] = toServer[n + 1]
BY DEF Typed

LEMMA PerformStep == Inv /\ Perform => Inv'
<1> SUFFICES ASSUME Inv, Perform PROVE Inv'
  OBVIOUS
<1> DEFINE entry == [what |-> Head(toServer).what,
                     server |-> IF Head(toServer).what = "edit" THEN First
                                ELSE Head(toServer).action.server,
                     version |-> version]
<1>1. /\ UNCHANGED <<able, version, call, asked, resolving>>
      /\ toServer # <<>> /\ toServer' = Tail(toServer) /\ made' = Append(made, entry)
  BY DEF Perform
<1>2. Typed
  BY DEF Inv
<1>3. /\ Len(toServer) \in Nat \ {0} /\ Head(toServer) = toServer[1]
      /\ toServer[1] \in Requests /\ toServer' \in Seq(Requests)
      /\ \A n \in 1..Len(toServer') :
           n + 1 \in 1..Len(toServer) /\ toServer'[n] = toServer[n + 1]
  BY <1>1, <1>2, TailTyped
<1>4. /\ entry \in [what : Whats, server : {First} \cup {a.server : a \in Doable}, version : Nat]
      /\ entry.version = version
  BY <1>2, <1>3 DEF Typed, Requests
<1> HIDE DEF entry
<1>5. /\ made' \in Seq([what : Whats, server : {First} \cup {a.server : a \in Doable}, version : Nat])
      /\ \A n \in 1..Len(made') : (n \in 1..Len(made) /\ made'[n] = made[n]) \/ made'[n] = entry
  BY <1>1, <1>2, <1>4 DEF Typed
<1>6. Typed'
  BY <1>1, <1>2, <1>3, <1>5 DEF Typed
<1>7. AskedWell'
  BY <1>1 DEF Inv, AskedWell, RangesAreCurrent, AskedAgainOnce
<1>8. PickedLate'
  BY <1>1 DEF Inv, PickedLate
<1>9. SyncHolds'
  <2> SUFFICES ASSUME call.way = "sync"
      PROVE  \A a \in call.pick : a.edit =>
               /\ call.version = version
               /\ \A n \in 1..Len(toServer') : toServer'[n].sync /\ toServer'[n].what # "resolve"
               /\ \A n \in 1..Len(made') : made'[n].version = call.version
    BY <1>1 DEF Inv, SyncHolds
  <2> TAKE a \in call.pick
  <2> HAVE a.edit
  <2>1. /\ call.version = version
        /\ \A n \in 1..Len(toServer) : toServer[n].sync /\ toServer[n].what # "resolve"
        /\ \A n \in 1..Len(made) : made[n].version = call.version
    BY <1>1 DEF Inv, SyncHolds
  <2> QED BY <1>3, <1>4, <1>5, <2>1
<1> QED BY <1>6, <1>7, <1>8, <1>9 DEF Inv

LEMMA ResolveStep == Inv /\ Resolve => Inv'
<1> SUFFICES ASSUME Inv, Resolve PROVE Inv'
  OBVIOUS
<1>1. /\ UNCHANGED <<able, version, call, asked, made>>
      /\ toServer # <<>> /\ toServer' = Tail(toServer) /\ Head(toServer).what = "resolve"
      /\ resolving' = resolving \cup {Head(toServer).action}
  BY DEF Resolve
<1>2. Typed
  BY DEF Inv
<1>3. /\ Len(toServer) \in Nat \ {0} /\ Head(toServer) = toServer[1]
      /\ toServer' \in Seq(Requests)
      /\ \A n \in 1..Len(toServer') :
           n + 1 \in 1..Len(toServer) /\ toServer'[n] = toServer[n + 1]
  BY <1>1, <1>2, TailTyped
<1>4. Typed'
  BY <1>1, <1>2, <1>3 DEF Typed
<1>5. AskedWell' /\ PickedLate'
  BY <1>1 DEF Inv, AskedWell, RangesAreCurrent, AskedAgainOnce, PickedLate
<1>6. SyncHolds'
  <2>1. toServer[1].what = "resolve" /\ 1 \in 1..Len(toServer)
    BY <1>1, <1>3
  <2>2. call.way = "sync" => \A a \in call.pick : ~a.edit
    BY <2>1 DEF Inv, SyncHolds
  <2> QED BY <1>1, <2>2 DEF Inv, SyncHolds
<1> QED BY <1>4, <1>5, <1>6 DEF Inv

LEMMA ResolveAnswerStep ==
  ASSUME Inv, NEW a \in resolving, ResolveAnswer(a)
  PROVE  Inv'
<1>1. UNCHANGED <<able, version, call, asked, made>> /\ resolving' = resolving \ {a}
  BY DEF ResolveAnswer
<1>2. Typed /\ a \in All /\ Resolved(a) \in Doable /\ call.pick # {}
  BY DEF Inv, Typed, Doable, PickedLate
<1>3. /\ toServer' \in Seq(Requests)
      /\ \A n \in 1..Len(toServer') : toServer'[n].what = "resolve" => toServer'[n].action \in All
  <2>1. CASE \E s \in AskedToResolve : Resolves(s, a)
    <3>1. Do(Resolved(a), FALSE, FALSE)
      BY <2>1 DEF ResolveAnswer
    <3> QED BY <1>2, <3>1, DoTyped
  <2>2. CASE ~\E s \in AskedToResolve : Resolves(s, a)
    <3>1. toServer' = toServer
      BY <2>2 DEF ResolveAnswer
    <3> QED BY <1>2, <3>1 DEF Typed
  <2> QED BY <2>1, <2>2
<1>4. Typed'
  BY <1>1, <1>2, <1>3 DEF Typed
<1>5. AskedWell' /\ PickedLate'
  BY <1>1, <1>2 DEF Inv, AskedWell, RangesAreCurrent, AskedAgainOnce, PickedLate
<1>6. SyncHolds'
  <2>1. call.way = "sync" => \A b \in call.pick : ~b.edit
    BY DEF Inv, SyncHolds
  <2> QED BY <1>1, <2>1 DEF Inv, SyncHolds
<1> QED BY <1>4, <1>5, <1>6 DEF Inv

-----------------------------------------------------------------------------

LEMMA InvStep == Inv /\ [Next]_vars => Inv'
<1> SUFFICES ASSUME Inv, [Next]_vars PROVE Inv'
  OBVIOUS
<1>1. CASE \E w \in Ways, start \in {"inside", "line"}, first \in able : Request(w, start, first)
  BY <1>1, RequestStep
<1>2. CASE \E s \in call.waiting : \E answer \in Answers(call, s) : Answer(s, answer)
  BY <1>2, AnswerStep
<1>3. CASE \E a \in Offered(call) : Choose(a)
  BY <1>3, ChooseStep
<1>4. CASE \E a \in resolving : ResolveAnswer(a)
  BY <1>4, ResolveAnswerStep
<1>5. CASE UNCHANGED vars
  BY <1>5 DEF vars, Inv, Typed, AskedWell, RangesAreCurrent, AskedAgainOnce, PickedLate, SyncHolds
<1> QED BY <1>1, <1>2, <1>3, <1>4, <1>5, TypeStep, PerformStep, ResolveStep DEF Next

LEMMA InvSynchronous == Inv => SyncIsCurrent
<1> SUFFICES ASSUME Inv, call.way = "sync", NEW a \in call.pick, NEW n \in DOMAIN made, a.edit
             PROVE  made[n].version = call.version
  BY DEF SyncIsCurrent
<1>1. n \in 1..Len(made)
  BY DEF Inv, Typed
<1> QED BY <1>1 DEF Inv, SyncHolds

\* Whatever servers there are and whatever they answer, a request for code actions is
\* about the text that the servers were told of, and is repeated once at most
\* (code_action.rs 115-165).
THEOREM CodeActionsAskWell == Spec => [](RangesAreCurrent /\ AskedAgainOnce)
<1>1. Inv => RangesAreCurrent /\ AskedAgainOnce
  BY DEF Inv, AskedWell
<1> QED BY <1>1, InvInit, InvStep, PTL DEF Spec

\* The edit of a synchronous request is made in the text that the request was about:
\* until it is made the editor waits (code_action.rs 228-256, lsp.kak 617-627).
THEOREM SynchronousIsCurrent == Spec => []SyncIsCurrent
<1> QED BY InvInit, InvStep, InvSynchronous, PTL DEF Spec

-----------------------------------------------------------------------------
(***************************************************************************)
(* What comes of the answers, if the servers offer what the protocol has.  *)
(***************************************************************************)

ActionsOffered == \A s \in Servers : Actions[s] \subseteq Offers(s)

\* Before a request is repeated, the first server has only been asked for kinds.
KindsInv ==
  /\ \A s \in Servers : call.results[s].actions \subseteq Actions[s]
  /\ call.filter = "kinds" =>
       /\ call.first \in able /\ call.round >= 1
       /\ call.round = 1 => \A a \in call.results[call.first].actions : a.kind

\* What a request of the editor does.
Effect(r) == [what |-> r.what, server |-> IF r.what = "edit" THEN First ELSE r.action.server]

\* Resolving is what is left to do.
ToResolve(a) == a.form = "action" /\ ~a.edit /\ MayResolve(a) /\ made = <<>>

\* What was done and what is under way is, in this order, what the action means.
InProgress(a) ==
  /\ resolving = {}
  /\ Len(made) + Len(toServer) = Len(Meaning(a))
  /\ \A n \in 1..Len(made) : [what |-> made[n].what, server |-> made[n].server] = Meaning(a)[n]
  /\ \A n \in 1..Len(toServer) :
       toServer[n].what # "resolve" /\ Effect(toServer[n]) = Meaning(a)[Len(made) + n]

Doing(a) ==
  \/ InProgress(a)
  \/ ToResolve(a) /\ resolving = {a} /\ toServer = <<>>
  \/ ToResolve(a) /\ resolving = {} /\ Len(toServer) = 1
       /\ toServer[1].what = "resolve" /\ toServer[1].action = a

DoneInv == \A a \in call.pick : Doing(a)

LEMMA ShortSequences ==
  ASSUME NEW x, NEW y
  PROVE  /\ <<x>> \o <<y>> = <<x, y>> /\ <<x>> \o <<>> = <<x>>
         /\ <<>> \o <<y>> = <<y>> /\ <<>> \o <<>> = <<>>
<1> DEFINE S == {x, y}
<1>1. <<>> \in Seq(S) /\ <<x>> \in Seq(S) /\ <<y>> \in Seq(S) /\ <<x, y>> \in Seq(S)
  OBVIOUS
<1> HIDE DEF S
<1>2. ASSUME NEW s \in Seq(S), NEW t \in Seq(S), Len(s) = Len(t),
             \A i \in 1..Len(s) : s[i] = t[i]
      PROVE  s = t
  BY <1>2
<1>3. ASSUME NEW s \in Seq(S), NEW t \in Seq(S)
      PROVE  /\ s \o t \in Seq(S) /\ Len(s \o t) = Len(s) + Len(t)
             /\ \A i \in 1..Len(s) + Len(t) :
                  (s \o t)[i] = IF i <= Len(s) THEN s[i] ELSE t[i - Len(s)]
  OBVIOUS
<1>4. <<x>> \o <<y>> = <<x, y>>
  <2>1. PICK s \in Seq(S) : s = <<x>> \o <<y>>
    BY <1>1, <1>3
  <2>2. Len(s) = 2 /\ s[1] = x /\ s[2] = y
    BY <1>1, <1>3, <2>1
  <2>3. \A i \in 1..2 : s[i] = <<x, y>>[i]
    BY <2>2
  <2>4. QED BY <1>1, <1>2, <2>1, <2>2, <2>3
<1>5. ASSUME NEW s \in Seq(S) PROVE s \o <<>> = s /\ <<>> \o s = s
  <2>1. PICK l \in Seq(S) : l = s \o <<>>
    BY <1>1, <1>3
  <2>2. PICK r \in Seq(S) : r = <<>> \o s
    BY <1>1, <1>3
  <2>3. Len(l) = Len(s) /\ \A i \in 1..Len(s) : l[i] = s[i]
    BY <1>1, <1>3, <2>1
  <2>4. Len(r) = Len(s) /\ \A i \in 1..Len(s) : r[i] = s[i]
    BY <1>1, <1>3, <2>2
  <2>5. QED BY <1>2, <2>1, <2>2, <2>3, <2>4
<1>6. QED BY <1>1, <1>4, <1>5

\* How an action is done, in short.
LEMMA MeaningOfAction ==
  ASSUME NEW s, NEW a \in Offers(s)
  PROVE  /\ a.server = s
         /\ LET edit == a.form = "action" /\ (a.edit \/ (MayResolve(a) /\ a.latent)) IN
            /\ edit /\ a.command =>
                 Meaning(a) = <<[what |-> "edit", server |-> First], [what |-> "command", server |-> s]>>
            /\ edit /\ ~a.command => Meaning(a) = <<[what |-> "edit", server |-> First]>>
            /\ ~edit /\ a.command => Meaning(a) = <<[what |-> "command", server |-> s]>>
            /\ ~edit /\ ~a.command => Meaning(a) = <<>>
<1>1. a.server = s
  BY DEF Offers
<1>2. PICK x : x = [what |-> "edit", server |-> First]
  OBVIOUS
<1>3. PICK y : y = [what |-> "command", server |-> s]
  OBVIOUS
<1>4. <<x>> \o <<y>> = <<x, y>> /\ <<x>> \o <<>> = <<x>> /\ <<>> \o <<y>> = <<y>> /\ <<>> \o <<>> = <<>>
  BY ShortSequences
<1>5. QED BY <1>1, <1>2, <1>3, <1>4 DEF Meaning

LEMMA CommandsOfAction ==
  ASSUME NEW s, NEW a \in Offers(s), NEW mayResolve \in BOOLEAN
  PROVE  /\ a.form = "action" /\ a.edit /\ a.command =>
              Commands(a, mayResolve) = <<"edit", "command">>
         /\ a.form = "action" /\ a.edit /\ ~a.command => Commands(a, mayResolve) = <<"edit">>
         /\ a.form = "action" /\ ~a.edit /\ mayResolve => Commands(a, mayResolve) = <<"resolve">>
         /\ a.form = "action" /\ ~a.edit /\ ~mayResolve /\ a.command =>
              Commands(a, mayResolve) = <<"command">>
         /\ a.form = "action" /\ ~a.edit /\ ~mayResolve /\ ~a.command =>
              Commands(a, mayResolve) = <<>>
         /\ a.form = "command" => a.command /\ Commands(a, mayResolve) = <<"command">>
<1>1. /\ <<"edit">> \o <<"command">> = <<"edit", "command">>
      /\ <<"edit">> \o <<>> = <<"edit">>
  BY ShortSequences
<1>2. a.form = "command" => a.command
  BY DEF Offers
<1>3. QED BY <1>1, <1>2 DEF Commands

\* What a step may do to the answers that are in.
LEMMA AnswersKept ==
  ASSUME NEW c \in Calls, EditorCodeActions(c)
  PROVE  /\ call'.filter = c.filter /\ call'.first = c.first /\ call'.results = c.results
         /\ call'.round = c.round \/ (call'.round = c.round + 1 /\ call'.pick = c.pick)
<1>1. \A outcome, pick : End(c, outcome, pick) =>
        /\ call'.filter = c.filter /\ call'.first = c.first /\ call'.results = c.results
        /\ call'.round = c.round
  BY DEF End, Calls
<1>2. Ask([c EXCEPT !.start = "line", !.round = @ + 1, !.waiting = able]) =>
        /\ call'.filter = c.filter /\ call'.first = c.first /\ call'.results = c.results
        /\ call'.round = c.round + 1 /\ call'.pick = c.pick
  BY DEF Ask, Calls
<1>3. QED BY <1>1, <1>2 DEF EditorCodeActions

LEMMA KindsInit == Init => KindsInv
BY DEF Init, Idle, Failure, KindsInv

LEMMA KindsAnswer ==
  ASSUME Inv, KindsInv, NEW s \in call.waiting, NEW answer \in Answers(call, s), Answer(s, answer)
  PROVE  KindsInv'
<1>1. PICK c : c = [call EXCEPT !.waiting = @ \ {s}, !.results[s] = answer]
  OBVIOUS
<1>2. call \in Calls /\ s \in Servers /\ able' = able
  BY DEF Inv, Typed, Calls, Answer
<1>3. answer \in [answer : {"error", "null", "list"}, actions : SUBSET Actions[s]]
  BY <1>2 DEF Answers, Failure, Null, List
<1>4. /\ c \in Calls
      /\ c.filter = call.filter /\ c.first = call.first /\ c.round = call.round
      /\ c.results = [call.results EXCEPT ![s] = answer]
  <2>1. Actions[s] \subseteq All
    BY <1>2 DEF All
  <2>2. QED BY <1>1, <1>2, <1>3, <2>1 DEF Calls
<1>5. call.results \in [Servers -> [answer : {"error", "null", "list"}, actions : SUBSET All]]
  BY <1>2 DEF Calls
<1>6. \A t \in Servers : c.results[t] = IF t = s THEN answer ELSE call.results[t]
  BY <1>2, <1>4, <1>5
<1>7. \A t \in Servers : c.results[t].actions \subseteq Actions[t]
  BY <1>3, <1>6 DEF KindsInv
<1>8. c.filter = "kinds" =>
        /\ c.first \in able /\ c.round >= 1
        /\ c.round = 1 => \A a \in c.results[c.first].actions : a.kind
  <2> SUFFICES ASSUME c.filter = "kinds"
      PROVE  /\ c.first \in able /\ c.round >= 1
             /\ c.round = 1 => \A a \in c.results[c.first].actions : a.kind
    OBVIOUS
  <2>1. c.first \in able /\ c.first \in Servers /\ c.round >= 1
    BY <1>4 DEF KindsInv, Inv, Typed
  <2>2. ASSUME c.round = 1, NEW a \in c.results[c.first].actions PROVE a.kind
    <3>1. CASE c.first = s
      <4>1. Only(call, s) = "kinds"
        BY <1>4, <2>2, <3>1 DEF Only
      <4>2. a \in answer.actions
        BY <1>6, <2>1, <2>2, <3>1
      <4>3. QED BY <4>1, <4>2 DEF Answers, Failure, Null, List
    <3>2. CASE c.first # s
      BY <1>4, <1>6, <2>1, <2>2, <3>2 DEF KindsInv
    <3>3. QED BY <3>1, <3>2
  <2>3. QED BY <2>1, <2>2
<1>9. /\ call'.filter = c.filter /\ call'.first = c.first /\ call'.results = c.results
      /\ call'.round = c.round \/ call'.round = c.round + 1
  <2>1. call' = c \/ EditorCodeActions(c)
    BY <1>1 DEF Answer
  <2>2. QED BY <1>4, <2>1, AnswersKept
<1>10. c.round \in Nat
  BY <1>4 DEF Calls
<1>11. QED BY <1>2, <1>7, <1>8, <1>9, <1>10 DEF KindsInv

LEMMA KindsStep == ASSUME Inv, KindsInv, [Next]_vars PROVE KindsInv'
<1>1. CASE UNCHANGED <<call, able>>
  BY <1>1 DEF KindsInv
<1>2. CASE \E w \in Ways, start \in {"inside", "line"}, first \in able : Request(w, start, first)
  <2>1. PICK w \in Ways, start \in {"inside", "line"}, first \in able : Request(w, start, first)
    BY <1>2
  <2>2. /\ call'.first = first /\ call'.round = 1 /\ able' = able
        /\ call'.results = [s \in Servers |-> Failure]
    BY <2>1 DEF Request, Ask, Idle
  <2>3. able \subseteq Servers
    BY DEF Inv, Typed
  <2>4. QED BY <2>2, <2>3 DEF KindsInv, Failure
<1>3. CASE \E a \in Offered(call) : Choose(a)
  BY <1>3 DEF Choose, End, KindsInv, Inv, Typed, Calls
<1>4. CASE \E s \in call.waiting : \E answer \in Answers(call, s) : Answer(s, answer)
  BY <1>4, KindsAnswer
<1>5. QED BY <1>1, <1>2, <1>3, <1>4 DEF Next, Type, Perform, Resolve, ResolveAnswer, vars

LEMMA InvKinds == ASSUME ActionsOffered, Inv, KindsInv PROVE KindsAsked
<1> SUFFICES ASSUME call.filter = "kinds", call.round = 1
             PROVE  \E s \in able : \A a \in Offered(call) : a.server = s => a.kind
  BY DEF KindsAsked
<1>1. call.first \in able /\ \A a \in call.results[call.first].actions : a.kind
  BY DEF KindsInv
<1>2. ASSUME NEW a \in Offered(call), a.server = call.first PROVE a.kind
  <2>1. PICK s \in able : a \in call.results[s].actions
    BY DEF Offered
  <2>2. s \in Servers /\ a \in Actions[s]
    BY <2>1 DEF Inv, Typed, KindsInv
  <2>3. a.server = s
    BY <2>2 DEF ActionsOffered, Offers
  <2>4. QED BY <1>1, <1>2, <2>1, <2>3
<1>3. QED BY <1>1, <1>2

\* The queue after an action is begun.
LEMMA QueueOfAction ==
  ASSUME toServer = <<>>, NEW s, NEW a \in Offers(s), NEW sync \in BOOLEAN,
         NEW mayResolve \in BOOLEAN, Do(a, sync, mayResolve)
  PROVE  /\ Len(toServer') = Len(Commands(a, mayResolve))
         /\ \A n \in 1..Len(Commands(a, mayResolve)) :
              toServer'[n].what = Commands(a, mayResolve)[n] /\ toServer'[n].action = a
<1>1. PICK commands \in Seq(Whats) : commands = Commands(a, mayResolve)
  BY CommandsTyped
<1>2. PICK more : more = [n \in DOMAIN commands |->
                            [what |-> commands[n], action |-> a,
                             sync |-> sync /\ commands[n] # "resolve"]]
  OBVIOUS
<1>3. toServer' = <<>> \o more
  BY <1>1, <1>2 DEF Do
<1>4. PICK R : R = {more[n] : n \in DOMAIN commands}
  OBVIOUS
<1>5. DOMAIN commands = 1..Len(commands) /\ Len(commands) \in Nat
  OBVIOUS
<1>6. more \in [1..Len(commands) -> R]
  BY <1>2, <1>4, <1>5
<1>7. more \in Seq(R) /\ Len(more) = Len(commands)
  BY <1>5, <1>6
<1>8. Len(toServer') = Len(more) /\ \A n \in 1..Len(more) : toServer'[n] = more[n]
  BY <1>3, <1>7
<1>9. \A n \in 1..Len(commands) : more[n].what = commands[n] /\ more[n].action = a
  BY <1>2, <1>5
<1>10. QED BY <1>1, <1>7, <1>8, <1>9

\* It is what the action means, or what the action that was resolved to it means.
LEMMA QueueAsMeant ==
  ASSUME toServer = <<>>, NEW s, NEW a \in Offers(s), NEW b \in Offers(s), NEW sync \in BOOLEAN,
         NEW mayResolve \in BOOLEAN, Do(a, sync, mayResolve),
         a.form = b.form, a.command = b.command,
         a.form = "action" =>
           /\ ~mayResolve \/ a.edit
           /\ a.edit <=> (b.edit \/ (MayResolve(b) /\ b.latent))
  PROVE  /\ Len(toServer') = Len(Meaning(b))
         /\ \A n \in 1..Len(toServer') :
              toServer'[n].what # "resolve" /\ Effect(toServer'[n]) = Meaning(b)[n]
<1> DEFINE E == [what |-> "edit", server |-> First]
           C == [what |-> "command", server |-> s]
<1>1. /\ a.form \in {"action", "command"} /\ a.server = s
      /\ a.edit \in BOOLEAN /\ a.command \in BOOLEAN
  BY DEF Offers
<1>2. \/ Commands(a, mayResolve) = <<"edit", "command">> /\ Meaning(b) = <<E, C>>
      \/ Commands(a, mayResolve) = <<"edit">> /\ Meaning(b) = <<E>>
      \/ Commands(a, mayResolve) = <<"command">> /\ Meaning(b) = <<C>>
      \/ Commands(a, mayResolve) = <<>> /\ Meaning(b) = <<>>
  BY <1>1, CommandsOfAction, MeaningOfAction
<1>3. PICK commands, meaning : commands = Commands(a, mayResolve) /\ meaning = Meaning(b)
  OBVIOUS
<1>4. /\ Len(toServer') = Len(commands)
      /\ \A n \in 1..Len(commands) : toServer'[n].what = commands[n] /\ toServer'[n].action = a
  BY <1>3, QueueOfAction
<1>5. /\ Len(meaning) = Len(commands)
      /\ \A n \in 1..Len(commands) :
           \/ commands[n] = "edit" /\ meaning[n] = E
           \/ commands[n] = "command" /\ meaning[n] = C
  <2>1. \/ commands = <<"edit", "command">> /\ meaning = <<E, C>>
        \/ commands = <<"edit">> /\ meaning = <<E>>
        \/ commands = <<"command">> /\ meaning = <<C>>
        \/ commands = <<>> /\ meaning = <<>>
    BY <1>2, <1>3
  <2> HIDE DEF E, C
  <2>2. QED BY <2>1
<1>6. ASSUME NEW n \in 1..Len(commands)
      PROVE  toServer'[n].what # "resolve" /\ Effect(toServer'[n]) = meaning[n]
  BY <1>1, <1>4, <1>5 DEF Effect
<1>7. QED BY <1>3, <1>4, <1>5, <1>6

LEMMA DoBegins ==
  ASSUME ActionsOffered, NEW a \in All, NEW sync \in BOOLEAN, Do(a, sync, MayResolve(a)),
         toServer = <<>>, resolving = {}, made = <<>>, UNCHANGED <<resolving, made>>
  PROVE  Doing(a)'
<1>1. PICK s \in Servers : a \in Offers(s)
  BY DEF All, ActionsOffered
<1>2. MayResolve(a) \in BOOLEAN /\ a.form \in {"action", "command"} /\ a.edit \in BOOLEAN
  BY <1>1 DEF MayResolve, Offers
<1>3. CASE a.form = "action" /\ ~a.edit /\ MayResolve(a)
  <2>1. Commands(a, MayResolve(a)) = <<"resolve">>
    BY <1>1, <1>2, <1>3, CommandsOfAction
  <2>2. Len(toServer') = 1 /\ toServer'[1].what = "resolve" /\ toServer'[1].action = a
    <3>1. PICK commands : commands = Commands(a, MayResolve(a))
      OBVIOUS
    <3>2. Len(toServer') = Len(commands)
          /\ \A n \in 1..Len(commands) : toServer'[n].what = commands[n] /\ toServer'[n].action = a
      BY <1>1, <1>2, <3>1, QueueOfAction
    <3>3. Len(commands) = 1 /\ commands[1] = "resolve" /\ 1 \in 1..1
      BY <2>1, <3>1
    <3>4. QED BY <3>2, <3>3
  <2>3. QED BY <1>3, <2>2 DEF Doing, ToResolve, MayResolve
<1>4. CASE ~(a.form = "action" /\ ~a.edit /\ MayResolve(a))
  <2>1. /\ Len(toServer') = Len(Meaning(a))
        /\ \A n \in 1..Len(toServer') :
             toServer'[n].what # "resolve" /\ Effect(toServer'[n]) = Meaning(a)[n]
    BY <1>1, <1>2, <1>4, QueueAsMeant
  <2>2. /\ made' = <<>> /\ Len(made') = 0 /\ resolving' = {} /\ Len(toServer') \in Nat
        /\ Meaning(a)' = Meaning(a)
    <3>1. Len(Meaning(a)) \in Nat
      BY <1>1, MeaningOfAction, <1>2
    <3>2. QED BY <2>1, <3>1 DEF Meaning, MayResolve
  <2>3. \A n \in 1..Len(toServer') : Len(made') + n = n
    BY <2>2
  <2>4. InProgress(a)'
    BY <2>1, <2>2, <2>3 DEF InProgress, Effect
  <2>5. QED BY <2>4 DEF Doing
<1>5. QED BY <1>3, <1>4

LEMMA DoneAnswer ==
  ASSUME ActionsOffered, Inv, NEW s \in call.waiting, NEW answer \in Answers(call, s),
         Answer(s, answer)
  PROVE  DoneInv'
<1>1. PICK c : c = [call EXCEPT !.waiting = @ \ {s}, !.results[s] = answer]
  OBVIOUS
<1>2. call \in Calls /\ s \in Servers /\ able' = able /\ able \subseteq Servers
  BY DEF Inv, Typed, Calls, Answer
<1>3. answer \in [answer : {"error", "null", "list"}, actions : SUBSET All]
  BY <1>2 DEF Answers, Failure, Null, List, All
<1>4. c \in Calls /\ c.pick = call.pick
  BY <1>1, <1>2, <1>3 DEF Calls
<1>5. /\ call.pick = {} /\ toServer = <<>> /\ resolving = {} /\ made = <<>>
      /\ UNCHANGED <<resolving, made>>
  BY DEF Inv, PickedLate, Answer
<1>6. call' = c \/ EditorCodeActions(c)
  BY <1>1 DEF Answer
<1>7. CASE call'.pick = {}
  BY <1>7 DEF DoneInv
<1>8. CASE End(c, "done", Wanted(c)) /\ \A a \in Wanted(c) : Do(a, c.way = "sync", MayResolve(a))
  <2>1. call'.pick = Wanted(c) /\ Wanted(c) \subseteq All
    BY <1>2, <1>4, <1>8, OfferedTyped DEF End, Calls, Wanted
  <2>2. ASSUME NEW a \in Wanted(c) PROVE Doing(a)'
    BY <1>5, <1>8, <2>1, DoBegins
  <2>3. QED BY <2>1, <2>2 DEF DoneInv
<1>9. QED
  <2>1. \A outcome : End(c, outcome, {}) => call'.pick = {}
    BY <1>4 DEF End, Calls
  <2>2. Ask([c EXCEPT !.start = "line", !.round = @ + 1, !.waiting = able]) => call'.pick = {}
    BY <1>4, <1>5 DEF Ask, Calls
  <2>3. CASE call' = c
    BY <1>4, <1>5, <1>7, <2>3
  <2>4. CASE EditorCodeActions(c)
    BY <1>7, <1>8, <2>1, <2>2, <2>4 DEF EditorCodeActions
  <2>5. QED BY <1>6, <2>3, <2>4

LEMMA DonePerform == ASSUME ActionsOffered, Inv, DoneInv, Perform PROVE DoneInv'
<1>1. /\ toServer # <<>> /\ toServer' = Tail(toServer) /\ Head(toServer).what # "resolve"
      /\ UNCHANGED <<call, resolving>>
  BY DEF Perform
<1>2. /\ Len(toServer) \in Nat \ {0} /\ Head(toServer) = toServer[1]
      /\ toServer' \in Seq(Requests)
      /\ \A n \in 1..Len(toServer') :
           n + 1 \in 1..Len(toServer) /\ toServer'[n] = toServer[n + 1]
  BY <1>1, TailTyped DEF Inv
<1>3. PICK x : x = [what |-> toServer[1].what, server |-> Effect(toServer[1]).server,
                    version |-> version]
  OBVIOUS
<1>4. made' = Append(made, x)
  BY <1>2, <1>3 DEF Perform, Effect
<1>5. /\ Len(made) \in Nat /\ Len(made') = Len(made) + 1
      /\ made'[Len(made) + 1] = x
      /\ \A n \in 1..Len(made) : made'[n] = made[n]
  <2>1. PICK S : made \in Seq(S)
    BY DEF Inv, Typed
  <2>2. made \in Seq(S \cup {x})
    BY <2>1
  <2>3. QED BY <1>4, <2>2
<1>6. ASSUME NEW a \in call.pick PROVE Doing(a)'
  <2>1. InProgress(a)
    BY <1>1, <1>2 DEF DoneInv, Doing
  <2>2. PICK meaning : meaning = Meaning(a)
    OBVIOUS
  <2>3. PICK m \in Nat : m = Len(made)
    BY <1>5
  <2>4. PICK t \in Nat \ {0} : t = Len(toServer)
    BY <1>2
  <2>5. Len(toServer') = t - 1 /\ Len(made') = m + 1
    BY <1>1, <1>5, <2>3, <2>4 DEF Inv, Typed
  <2>6. /\ m + t = Len(meaning) /\ resolving = {}
        /\ \A n \in 1..m : [what |-> made[n].what, server |-> made[n].server] = meaning[n]
        /\ \A n \in 1..t :
             toServer[n].what # "resolve" /\ Effect(toServer[n]) = meaning[m + n]
    BY <2>1, <2>2, <2>3, <2>4 DEF InProgress
  <2>7. (m + 1) + (t - 1) = Len(meaning)
    BY ONLY <2>6, m \in Nat, t \in Nat \ {0}
  <2>8. ASSUME NEW n \in 1..(m + 1)
        PROVE  [what |-> made'[n].what, server |-> made'[n].server] = meaning[n]
    <3>1. CASE n \in 1..m
      BY <1>5, <2>3, <2>6, <3>1
    <3>2. CASE n = m + 1
      <4>1. 1 \in 1..t
        OBVIOUS
      <4>2. Effect(toServer[1]) = meaning[m + 1]
        BY <2>6, <4>1
      <4>3. [what |-> x.what, server |-> x.server] = Effect(toServer[1])
        BY <1>3 DEF Effect
      <4>4. QED BY <1>5, <2>3, <3>2, <4>2, <4>3
    <3>3. n \in 1..m \/ n = m + 1
      BY ONLY m \in Nat, n \in 1..(m + 1)
    <3>4. QED BY <3>1, <3>2, <3>3
  <2>9. ASSUME NEW n \in 1..(t - 1)
        PROVE  toServer'[n].what # "resolve" /\ Effect(toServer'[n]) = meaning[(m + 1) + n]
    <3>1. n + 1 \in 1..t /\ m + (n + 1) = (m + 1) + n
      BY ONLY m \in Nat, t \in Nat \ {0}, n \in 1..(t - 1)
    <3>2. toServer'[n] = toServer[n + 1]
      BY <1>2, <2>5
    <3>3. toServer[n + 1].what # "resolve" /\ Effect(toServer[n + 1]) = meaning[m + (n + 1)]
      BY <2>6, <3>1
    <3>4. QED BY <3>1, <3>2, <3>3
  <2>10. meaning = Meaning(a)'
    BY <2>2 DEF Meaning, MayResolve
  <2>11. InProgress(a)'
    BY <1>1, <2>5, <2>6, <2>7, <2>8, <2>9, <2>10 DEF InProgress, Effect
  <2>12. QED BY <2>11 DEF Doing
<1>7. QED BY <1>1, <1>6 DEF DoneInv

LEMMA DoneResolve == ASSUME Inv, DoneInv, Resolve PROVE DoneInv'
<1>1. /\ toServer # <<>> /\ toServer' = Tail(toServer) /\ Head(toServer).what = "resolve"
      /\ resolving' = resolving \cup {Head(toServer).action} /\ UNCHANGED <<call, made>>
  BY DEF Resolve
<1>2. Len(toServer) \in Nat \ {0} /\ Head(toServer) = toServer[1] /\ toServer' \in Seq(Requests)
  BY <1>1, TailTyped DEF Inv
<1>3. 1 \in 1..Len(toServer)
  BY <1>2
<1>4. ASSUME NEW a \in call.pick PROVE Doing(a)'
  <2>1. /\ ToResolve(a) /\ resolving = {} /\ Len(toServer) = 1
        /\ toServer[1].what = "resolve" /\ toServer[1].action = a
    BY <1>1, <1>2, <1>3 DEF DoneInv, Doing, InProgress
  <2>2. toServer \in Seq(Requests)
    BY DEF Inv, Typed
  <2>3. Len(toServer') = 0 /\ toServer' = <<>>
    BY <1>1, <1>2, <2>1, <2>2
  <2>4. ToResolve(a)' /\ resolving' = {a}
    BY <1>1, <1>2, <2>1 DEF ToResolve, MayResolve
  <2>5. QED BY <2>3, <2>4 DEF Doing
<1>5. QED BY <1>1, <1>4 DEF DoneInv

LEMMA DoneResolveAnswer ==
  ASSUME ActionsOffered, Inv, DoneInv, NEW b \in resolving, ResolveAnswer(b) PROVE DoneInv'
<1>1. resolving' = resolving \ {b} /\ UNCHANGED <<call, made>>
  BY DEF ResolveAnswer
<1>2. ASSUME NEW a \in call.pick PROVE Doing(a)'
  <2>1. ToResolve(a) /\ resolving = {a} /\ toServer = <<>> /\ b = a
    BY DEF DoneInv, Doing, InProgress
  <2>2. PICK s \in Servers : a \in Offers(s)
    BY DEF All, ActionsOffered, Inv, Typed, Calls
  <2>3. Do(Resolved(a), FALSE, FALSE)
    BY <2>1, <2>2 DEF ResolveAnswer, AskedToResolve, Resolves, Offers
  <2>4. /\ Resolved(a) \in Offers(s) /\ Resolved(a).form = a.form
        /\ Resolved(a).command = a.command /\ Resolved(a).edit = a.latent
    BY <2>2 DEF Resolved, Offers
  <2>5. a.form = "action" /\ ~a.edit /\ MayResolve(a) /\ made = <<>>
    BY <2>1 DEF ToResolve
  <2>6. PICK d : d = Resolved(a)
    OBVIOUS
  <2>7. /\ Len(toServer') = Len(Meaning(a))
        /\ \A n \in 1..Len(toServer') :
             toServer'[n].what # "resolve" /\ Effect(toServer'[n]) = Meaning(a)[n]
    BY <2>1, <2>2, <2>3, <2>4, <2>5, <2>6, QueueAsMeant
  <2>8. /\ Len(made') = 0 /\ resolving' = {} /\ Len(toServer') \in Nat
        /\ Meaning(a)' = Meaning(a)
    <3>1. Len(Meaning(a)) \in Nat
      <4>1. a.edit \in BOOLEAN /\ a.command \in BOOLEAN
        BY <2>2 DEF Offers
      <4>2. QED BY <2>2, <4>1, MeaningOfAction
    <3>2. QED BY <1>1, <2>1, <2>5, <2>7, <3>1 DEF Meaning, MayResolve
  <2>9. \A n \in 1..Len(toServer') : Len(made') + n = n
    BY <2>8
  <2>10. made' = <<>>
    BY <1>1, <2>5
  <2>11. InProgress(a)'
    BY <2>7, <2>8, <2>9, <2>10 DEF InProgress, Effect
  <2>12. QED BY <2>11 DEF Doing
<1>3. QED BY <1>1, <1>2 DEF DoneInv

LEMMA DoneStep == ASSUME ActionsOffered, Inv, DoneInv, [Next]_vars PROVE DoneInv'
<1>1. CASE UNCHANGED <<call, toServer, resolving, made>>
  BY <1>1 DEF DoneInv, Doing, InProgress, ToResolve, MayResolve, Meaning, Effect
<1>2. CASE \E w \in Ways, start \in {"inside", "line"}, first \in able : Request(w, start, first)
  BY <1>2 DEF Request, Ask, Idle, DoneInv
<1>3. CASE \E a \in Offered(call) : Choose(a)
  <2>1. PICK a \in Offered(call) : Choose(a)
    BY <1>3
  <2>2. call \in Calls /\ a \in All /\ call'.pick = {a}
    BY <2>1, OfferedTyped DEF Inv, Typed, Choose, End, Calls
  <2>3. Doing(a)'
    BY <2>1, <2>2, DoBegins DEF Choose, Inv, PickedLate
  <2>4. QED BY <2>2, <2>3 DEF DoneInv
<1>4. CASE \E s \in call.waiting : \E answer \in Answers(call, s) : Answer(s, answer)
  BY <1>4, DoneAnswer
<1>5. CASE \E a \in resolving : ResolveAnswer(a)
  BY <1>5, DoneResolveAnswer
<1>6. QED BY <1>1, <1>2, <1>3, <1>4, <1>5, DonePerform, DoneResolve DEF Next, Type, vars

LEMMA InvDone == ASSUME ActionsOffered, Inv, DoneInv PROVE ActionIsDone
<1> DEFINE did == [n \in DOMAIN made |-> [what |-> made[n].what, server |-> made[n].server]]
<1>1. DOMAIN made = 1..Len(made) /\ Len(made) \in Nat
  BY DEF Inv, Typed
<1>2. ASSUME call.pick = {} PROVE did = <<>>
  <2>1. Len(made) = 0
    BY <1>2 DEF Inv, PickedLate
  <2>2. QED BY <1>1, <2>1
<1>3. ASSUME toServer = <<>>, resolving = {}, NEW a \in call.pick PROVE did = Meaning(a)
  <2>1. InProgress(a)
    BY <1>3 DEF DoneInv, Doing
  <2>2. /\ Len(made) = Len(Meaning(a))
        /\ \A n \in 1..Len(made) :
             [what |-> made[n].what, server |-> made[n].server] = Meaning(a)[n]
    BY <1>1, <1>3, <2>1 DEF InProgress
  <2>3. PICK s \in Servers : a \in Offers(s)
    BY DEF All, ActionsOffered, Inv, Typed, Calls
  <2>4. PICK M : Meaning(a) \in Seq(M)
    <3>1. a.edit \in BOOLEAN /\ a.command \in BOOLEAN
      BY <2>3 DEF Offers
    <3>2. PICK x, y : Meaning(a) \in {<<>>, <<x>>, <<y>>, <<x, y>>}
      BY <2>3, <3>1, MeaningOfAction
    <3>3. PICK M : M = {x, y}
      OBVIOUS
    <3>4. x \in M /\ y \in M
      BY <3>3
    <3>5. <<>> \in Seq(M) /\ <<x>> \in Seq(M) /\ <<y>> \in Seq(M) /\ <<x, y>> \in Seq(M)
      BY <3>4
    <3>6. Meaning(a) \in Seq(M)
      BY <3>2, <3>5
    <3>7. QED BY <3>6
  <2>5. did = [n \in 1..Len(made) |-> Meaning(a)[n]]
    BY <1>1, <2>2
  <2>6. PICK meaning \in Seq(M) : meaning = Meaning(a)
    BY <2>4
  <2>7. meaning = [n \in 1..Len(meaning) |-> meaning[n]]
    OBVIOUS
  <2>8. QED BY <2>2, <2>5, <2>6, <2>7
<1>4. QED BY <1>2, <1>3 DEF ActionIsDone

\* The action of a call is done once and as a whole, by the server that offered it, and
\* what of a filter by kinds is left is kept (code_action.rs 168-240, 343-440).
THEOREM CodeActionsDone == ASSUME ActionsOffered PROVE Spec => [](KindsAsked /\ ActionIsDone)
<1> DEFINE All3 == Inv /\ KindsInv /\ DoneInv
<1>1. Init => All3
  BY InvInit, KindsInit DEF Init, Idle, DoneInv
<1>2. All3 /\ [Next]_vars => All3'
  BY InvStep, KindsStep, DoneStep
<1>3. All3 => KindsAsked /\ ActionIsDone
  BY InvKinds, InvDone
<1>4. QED BY <1>1, <1>2, <1>3, PTL DEF Spec

=============================================================================
