--------------------------- MODULE RequestsProofs ---------------------------
(***************************************************************************)
(* Proofs about Requests, for any servers, kinds of requests and bounds.   *)
(***************************************************************************)
EXTENDS Requests, FiniteSetTheorems, TLAPS

\* What the type invariant needs beside itself: the numbers kept in the maps
\* belong to calls and requests that were made, and no request was sent twice.
Known ==
  /\ ~IdleLoop => sending.batch \in DOMAIN calls
  /\ \A id \in DOMAIN waitlist : waitlist[id].batch \in DOMAIN calls
  /\ \A id \in DOMAIN waitlist : \E s \in Server : id \in inFlight[s]
  /\ \A s \in Server : inFlight[s] \subseteq DOMAIN waitlist
  /\ \A s, t \in Server : s # t => inFlight[s] \cap inFlight[t] = {}

TypeInv == TypeOK /\ Known

\* The operation lists of a call are sequences of servers.
LEMMA OpListsType ==
  ASSUME NEW k \in Key, NEW ops \in OpLists(k)
  PROVE  ops \in Seq(Server)
<1>1. CASE k \in RangeKey
  <2>1. PICK n \in 1..MaxSelections, s \in Server : ops \in [1..n -> {s}]
    BY <1>1 DEF OpLists
  <2>2. ops \in [1..n -> Server]
    BY <2>1
  <2>3. QED BY <2>2
<1>2. CASE k \notin RangeKey
  <2>1. PICK n \in 0..Cardinality(Server) : ops \in [1..n -> Server]
    BY <1>2 DEF OpLists
  <2>2. QED BY <2>1
<1>3. QED BY <1>1, <1>2

\* The size of a batch is a number for each server.
LEMMA TallyType ==
  ASSUME NEW ops \in Seq(Server)
  PROVE  Tally(ops) \in Count
<1>1. ASSUME NEW s \in Server
      PROVE  Cardinality({i \in DOMAIN ops : ops[i] = s}) \in Nat
  <2>1. DOMAIN ops = 1..Len(ops) /\ Len(ops) \in Nat
    OBVIOUS
  <2>2. IsFiniteSet(1..Len(ops))
    BY <2>1, FS_Interval
  <2>3. IsFiniteSet({i \in DOMAIN ops : ops[i] = s})
    BY <2>1, <2>2, FS_Subset
  <2>4. QED BY <2>3, FS_CardinalityType
<1>2. QED BY <1>1 DEF Tally, Count

LEMMA CallTypes ==
  ASSUME TypeInv, NEW k \in Key, NEW ops \in OpLists(k), BatchCall(k, ops)
  PROVE  TypeInv'
<1>1. ops \in Seq(Server) /\ Tally(ops) \in Count
  BY OpListsType, TallyType
<1>2. Nothing \in Count
  BY DEF Nothing, Count
<1> USE DEF TypeInv, TypeOK, Known, BatchCall, IdleLoop
<1>3. TypeOK'
  <2>1. batchCount' \in Nat /\ requestCounter' \in Nat
    OBVIOUS
  <2>2. DOMAIN batches' \subseteq 0..batchCount' - 1 /\ DOMAIN batchSizes' = DOMAIN batches'
    OBVIOUS
  <2>3. \A b \in DOMAIN batches' : batches'[b] \in Count /\ batchSizes'[b] \in Count
    BY <1>1, <1>2
  <2>4. sending' \in [batch : Nat, key : Key, ops : Seq(Server)]
    BY <1>1
  <2>5. DOMAIN calls' = 0..batchCount' - 1
    OBVIOUS
  <2>6. \A b \in DOMAIN calls' : calls'[b] \in Call
    BY <1>1, <1>2 DEF Call
  <2>7. QED BY <2>1, <2>2, <2>3, <2>4, <2>5, <2>6
<1>4. Known'
  OBVIOUS
<1>5. QED BY <1>3, <1>4

\* A slot stays a slot as requests enter and leave it.
LEMMA SlotTypes ==
  ASSUME NEW slot \in Slot, NEW id \in Nat
  PROVE  /\ AddOutstanding(slot, id) \in Slot
         /\ RemoveOutstanding(slot, id) \in Slot
         /\ Displaced(slot) \in Nat \cup {NoId}
BY DEF Slot, AddOutstanding, RemoveOutstanding, Displaced, Id

LEMMA SendTypes ==
  ASSUME TypeInv, SendRequest
  PROVE  TypeInv'
<1> DEFINE s == Head(sending.ops)
           id == requestCounter
           slot == outstanding[SlotOf(s, sending.key)]
           victim == Displaced(slot)
           grown == [i \in DOMAIN waitlist \cup {id} |->
                       IF i = id THEN [key |-> sending.key, batch |-> sending.batch,
                                       canceled |-> FALSE]
                       ELSE waitlist[i]]
<1> USE DEF TypeInv, TypeOK, Known, IdleLoop
<1>a. /\ sending.ops \in Seq(Server) /\ sending.ops # <<>>
      /\ sending.key \in Key /\ sending.batch \in DOMAIN calls /\ sending.batch \in Nat
  BY DEF SendRequest
<1>1. s \in Server /\ Tail(sending.ops) \in Seq(Server) /\ id \in Nat
  BY <1>a
<1>2. slot \in Slot
  BY <1>1 DEF SlotOf
<1>3. /\ sending' = [sending EXCEPT !.ops = Tail(@)]
      /\ requestCounter' = id + 1
      /\ waitlist' = Cancel(grown, victim)
      /\ outstanding' = [outstanding EXCEPT ![SlotOf(s, sending.key)] = AddOutstanding(slot, id)]
      /\ inFlight' = [inFlight EXCEPT ![s] = @ \cup {id}]
      /\ calls' = IF victim \in DOMAIN waitlist
                  THEN [calls EXCEPT ![waitlist[victim].batch].superseded = TRUE]
                  ELSE calls
      /\ UNCHANGED <<batchCount, batchSizes, batches>>
  BY DEF SendRequest
<1>4. /\ DOMAIN grown = DOMAIN waitlist \cup {id}
      /\ \A i \in DOMAIN grown : grown[i] \in Entry /\ grown[i].batch \in DOMAIN calls
  BY <1>a DEF Entry
<1> HIDE DEF s, id, slot, victim, grown
<1>5. /\ DOMAIN waitlist' = DOMAIN waitlist \cup {id}
      /\ \A i \in DOMAIN waitlist' : waitlist'[i] \in Entry /\ waitlist'[i].batch \in DOMAIN calls
  <2>1. \A e \in Entry : /\ [e EXCEPT !.canceled = TRUE] \in Entry
                         /\ [e EXCEPT !.canceled = TRUE].batch = e.batch
    BY DEF Entry
  <2> HIDE DEF TypeInv, TypeOK, Known
  <2>2. QED BY <1>3, <1>4, <2>1 DEF Cancel
<1>6. /\ DOMAIN calls' = DOMAIN calls
      /\ \A b \in DOMAIN calls' : calls'[b] \in Call
  <2>1. \A c \in Call : [c EXCEPT !.superseded = TRUE] \in Call
    BY DEF Call
  <2>2. \A b \in DOMAIN calls : calls[b] \in Call
    OBVIOUS
  <2> HIDE DEF TypeInv, TypeOK, Known
  <2>3. QED BY <1>3, <2>1, <2>2
<1>7. outstanding' \in [Server \X Key -> Slot]
  BY <1>1, <1>2, <1>3, SlotTypes DEF SlotOf
<1>8. sending' \in [batch : Nat, key : Key, ops : Seq(Server)] /\ sending'.batch = sending.batch
  BY <1>1, <1>3
<1>9. inFlight' \in [Server -> SUBSET Nat]
  BY <1>1, <1>3
<1>10. TypeOK'
  <2>1. DOMAIN waitlist' \subseteq 0..requestCounter' - 1
    <3>1. DOMAIN waitlist \subseteq 0..id - 1 /\ id \in Nat
      BY <1>1 DEF id
    <3> HIDE DEF TypeInv, TypeOK, Known
    <3>2. QED BY <1>3, <1>5, <3>1
  <2>2. batchCount' \in Nat /\ requestCounter' \in Nat
    BY <1>1, <1>3
  <2>3. QED BY <1>3, <1>5, <1>6, <1>7, <1>8, <1>9, <2>1, <2>2
<1>11. Known'
  <2>1. id \notin DOMAIN waitlist
    BY DEF id
  <2>2. /\ \A i \in DOMAIN waitlist : \E t \in Server : i \in inFlight[t]
        /\ \A t \in Server : inFlight[t] \subseteq DOMAIN waitlist
        /\ \A t, u \in Server : t # u => inFlight[t] \cap inFlight[u] = {}
        /\ inFlight \in [Server -> SUBSET Nat]
    OBVIOUS
  <2>3. ~IdleLoop' => sending'.batch \in DOMAIN calls'
    BY <1>a, <1>6, <1>8
  <2> HIDE DEF TypeInv, TypeOK, Known
  <2>4. \A t \in Server : inFlight'[t] = IF t = s THEN inFlight[t] \cup {id} ELSE inFlight[t]
    BY <1>1, <1>3, <2>2
  <2>5. /\ \A i \in DOMAIN waitlist' : \E t \in Server : i \in inFlight'[t]
        /\ \A t \in Server : inFlight'[t] \subseteq DOMAIN waitlist'
    BY <1>1, <1>5, <2>2, <2>4
  <2>6. \A t, u \in Server : t # u => inFlight'[t] \cap inFlight'[u] = {}
    <3>1. \A t \in Server : id \notin inFlight[t]
      BY <2>1, <2>2
    <3>2. SUFFICES ASSUME NEW t \in Server, NEW u \in Server, t # u,
                          NEW i \in inFlight'[t], i \in inFlight'[u]
                   PROVE  FALSE
      OBVIOUS
    <3>3. i \in inFlight[t] \cup {id} /\ i \in inFlight[u] \cup {id}
      BY <2>4, <3>2
    <3>4. CASE i = id
      BY <2>4, <3>1, <3>2, <3>4
    <3>5. CASE i # id
      BY <2>2, <3>2, <3>3, <3>5
    <3>6. QED BY <3>4, <3>5
  <2>7. QED BY <1>5, <1>6, <2>3, <2>5, <2>6 DEF Known
<1>12. QED BY <1>10, <1>11

\* What an answer does to the requests, whatever becomes of its batch.
RequestsTyped ==
  /\ batchCount \in Nat /\ requestCounter \in Nat
  /\ DOMAIN waitlist \subseteq 0..requestCounter - 1
  /\ \A id \in DOMAIN waitlist : waitlist[id] \in Entry
  /\ outstanding \in [Server \X Key -> Slot]
  /\ sending \in [batch : Nat, key : Key, ops : Seq(Server)]
  /\ inFlight \in [Server -> SUBSET Nat]
  /\ \A id \in DOMAIN waitlist : \E s \in Server : id \in inFlight[s]
  /\ \A s \in Server : inFlight[s] \subseteq DOMAIN waitlist
  /\ \A s, t \in Server : s # t => inFlight[s] \cap inFlight[t] = {}

\* What it does to the calls.
CallsTyped ==
  /\ DOMAIN batches \subseteq 0..batchCount - 1
  /\ DOMAIN batchSizes = DOMAIN batches
  /\ \A b \in DOMAIN batches : batches[b] \in Count /\ batchSizes[b] \in Count
  /\ DOMAIN calls = 0..batchCount - 1
  /\ \A b \in DOMAIN calls : calls[b] \in Call

LEMMA TakeTypes ==
  ASSUME TypeInv, NEW s \in Server, NEW id, TakeAnswer(s, id)
  PROVE  /\ RequestsTyped'
         /\ id \in DOMAIN waitlist /\ waitlist[id] \in Entry
         /\ waitlist' = [i \in DOMAIN waitlist \ {id} |-> waitlist[i]]
         /\ batchCount' = batchCount /\ sending' = sending
<1> USE DEF TypeInv, TypeOK, Known
<1>1. /\ id \in inFlight[s] /\ id \in DOMAIN waitlist /\ waitlist[id] \in Entry /\ id \in Nat
  BY DEF TakeAnswer
<1>2. /\ waitlist' = [i \in DOMAIN waitlist \ {id} |-> waitlist[i]]
      /\ inFlight' = [inFlight EXCEPT ![s] = @ \ {id}]
      /\ UNCHANGED <<batchCount, requestCounter, sending>>
  BY DEF TakeAnswer, Without
<1>3. outstanding' \in [Server \X Key -> Slot]
  <2>1. waitlist[id].key \in Key /\ outstanding[<<s, waitlist[id].key>>] \in Slot
    BY <1>1 DEF Entry
  <2>2. RemoveOutstanding(outstanding[<<s, waitlist[id].key>>], id) \in Slot
    BY <1>1, <2>1, SlotTypes
  <2>3. QED BY <2>1, <2>2 DEF TakeAnswer, SlotOf
<1>4. \A t \in Server : inFlight'[t] = IF t = s THEN inFlight[t] \ {id} ELSE inFlight[t]
  BY <1>2
<1>5. \A t \in Server : t # s => id \notin inFlight[t]
  BY <1>1
<1>6. /\ DOMAIN waitlist' = DOMAIN waitlist \ {id}
      /\ \A i \in DOMAIN waitlist' : waitlist'[i] = waitlist[i]
  BY <1>2
<1>7. RequestsTyped'
  <2>1. \A i \in DOMAIN waitlist' : \E t \in Server : i \in inFlight'[t]
    BY <1>4, <1>6
  <2>2. ASSUME NEW t \in Server
        PROVE  inFlight'[t] \subseteq DOMAIN waitlist'
    <3>1. inFlight[t] \subseteq DOMAIN waitlist
      BY DEF TypeInv, Known
    <3>2. id \notin inFlight'[t] /\ inFlight'[t] \subseteq inFlight[t]
      BY <1>4, <1>5
    <3>3. QED BY <1>6, <3>1, <3>2
  <2>3. \A t, u \in Server : t # u => inFlight'[t] \cap inFlight'[u] = {}
    <3>1. \A t \in Server : inFlight'[t] \subseteq inFlight[t]
      BY <1>4
    <3>2. \A t, u \in Server : t # u => inFlight[t] \cap inFlight[u] = {}
      BY DEF TypeInv, Known
    <3>3. QED BY <3>1, <3>2
  <2>4. /\ batchCount' \in Nat /\ requestCounter' \in Nat
        /\ DOMAIN waitlist' \subseteq 0..requestCounter' - 1
        /\ \A i \in DOMAIN waitlist' : waitlist'[i] \in Entry
        /\ sending' \in [batch : Nat, key : Key, ops : Seq(Server)]
        /\ inFlight' \in [Server -> SUBSET Nat]
    BY <1>2, <1>6
  <2>5. QED BY <1>3, <2>1, <2>2, <2>3, <2>4 DEF RequestsTyped
<1>8. QED BY <1>1, <1>2, <1>7

LEMMA BatchTypes ==
  ASSUME TypeInv, batchCount' = batchCount, NEW b \in DOMAIN batches,
         NEW got \in Count, NEW size \in Count, NEW failed \in SUBSET Server,
         NEW outcome \in {"callback", "dropped"},
         EndBatch(b, outcome, got, failed) \/ ContinueBatch(b, got, size, failed)
  PROVE  CallsTyped' /\ DOMAIN calls' = DOMAIN calls
<1> USE DEF TypeInv, TypeOK, CallsTyped
<1>1. b \in DOMAIN calls
  OBVIOUS
<1>2. ASSUME NEW o \in {"callback", "dropped"}, EndBatch(b, o, got, failed)
      PROVE  CallsTyped' /\ DOMAIN calls' = DOMAIN calls
  <2>1. [calls[b] EXCEPT !.outcome = o, !.results = got, !.failed = failed] \in Call
    BY <1>1 DEF Call
  <2>2. QED BY <1>1, <1>2, <2>1 DEF EndBatch, Without
<1>3. ASSUME ContinueBatch(b, got, size, failed), ~Complete(got, size)
      PROVE  CallsTyped' /\ DOMAIN calls' = DOMAIN calls
  <2>1. [calls[b] EXCEPT !.failed = failed] \in Call
    BY <1>1 DEF Call
  <2>2. QED BY <1>1, <1>3, <2>1 DEF ContinueBatch
<1>4. QED BY <1>2, <1>3 DEF ContinueBatch

LEMMA AnswerTypes ==
  ASSUME TypeInv, NEW s \in Server, NEW id,
         IgnoredAnswer(s, id) \/ Success(s, id) \/ Failure(s, id)
  PROVE  TypeInv'
<1>1. TakeAnswer(s, id)
  BY DEF IgnoredAnswer, Success, Failure
<1>2. /\ RequestsTyped'
      /\ id \in DOMAIN waitlist /\ waitlist[id] \in Entry
      /\ waitlist' = [i \in DOMAIN waitlist \ {id} |-> waitlist[i]]
      /\ batchCount' = batchCount /\ sending' = sending
  BY <1>1, TakeTypes
<1> DEFINE b == waitlist[id].batch
<1>3. CallsTyped' /\ DOMAIN calls' = DOMAIN calls
  <2>1. CASE IgnoredAnswer(s, id)
    BY <1>2, <2>1 DEF IgnoredAnswer, CallsTyped, TypeInv, TypeOK
  <2>2. CASE Success(s, id)
    <3>1. /\ b \in DOMAIN batches
          /\ ContinueBatch(b, [batches[b] EXCEPT ![s] = @ + 1], batchSizes[b], calls[b].failed)
      BY <2>2 DEF Success
    <3>2. /\ [batches[b] EXCEPT ![s] = @ + 1] \in Count /\ batchSizes[b] \in Count
          /\ calls[b].failed \in SUBSET Server
      <4>1. b \in DOMAIN batches /\ b \in DOMAIN calls
        BY <3>1 DEF TypeInv, TypeOK
      <4>2. batches[b] \in Count /\ batchSizes[b] \in Count /\ calls[b] \in Call
        BY <4>1 DEF TypeInv, TypeOK
      <4> HIDE DEF b
      <4>3. [batches[b] EXCEPT ![s] = @ + 1] \in Count
        BY <4>2 DEF Count
      <4>4. calls[b].failed \in SUBSET Server
        BY <4>2 DEF Call
      <4>5. QED BY <4>2, <4>3, <4>4
    <3>3. QED BY <1>2, <3>1, <3>2, BatchTypes
  <2>3. CASE Failure(s, id)
    <3> DEFINE size == StopExpecting(batchSizes[b], s)
               got == FilterResults(batches[b], s)
               failed == calls[b].failed \cup {s}
    <3>1. /\ b \in DOMAIN batches
          /\ \/ ContinueBatch(b, got, size, failed)
             \/ EndBatch(b, "dropped", Nothing, failed)
      BY <2>3 DEF Failure
    <3>2. /\ got \in Count /\ size \in Count /\ Nothing \in Count
          /\ failed \in SUBSET Server
      BY <3>1 DEF TypeInv, TypeOK, Count, Call, StopExpecting, FilterResults, Nothing
    <3> HIDE DEF got, size, failed, b
    <3>3. QED BY <1>2, <3>1, <3>2, BatchTypes
  <2>4. QED BY <2>1, <2>2, <2>3
<1>4. TypeOK'
  BY <1>2, <1>3 DEF RequestsTyped, CallsTyped, TypeOK
<1>5. Known'
  <2>1. \A i \in DOMAIN waitlist' : waitlist'[i].batch \in DOMAIN calls'
    BY <1>2, <1>3 DEF TypeInv, Known
  <2>2. ~IdleLoop' => sending'.batch \in DOMAIN calls'
    BY <1>2, <1>3 DEF TypeInv, Known, IdleLoop
  <2>3. QED BY <1>2, <2>1, <2>2 DEF RequestsTyped, Known
<1>6. QED BY <1>4, <1>5 DEF TypeInv

LEMMA InitTypes == Init => TypeInv
<1> SUFFICES ASSUME Init PROVE TypeInv
  OBVIOUS
<1>1. (CHOOSE k \in Key : TRUE) \in Key
  BY RequestsAssumption
<1>2. Vacant \in Slot
  BY DEF Vacant, Slot
<1>3. TypeOK
  BY <1>1, <1>2 DEF Init, TypeOK
<1>4. Known
  BY DEF Init, Known, IdleLoop
<1>5. QED BY <1>3, <1>4 DEF TypeInv

\* A step preserves the typing.
LEMMA StepTypes == TypeInv /\ [Next]_vars => TypeInv'
<1> SUFFICES ASSUME TypeInv, [Next]_vars PROVE TypeInv'
  OBVIOUS
<1>1. ASSUME NEW k \in Key, NEW ops \in OpLists(k), BatchCall(k, ops)
      PROVE  TypeInv'
  BY <1>1, CallTypes
<1>2. CASE SendRequest
  BY <1>2, SendTypes
<1>3. ASSUME NEW s \in Server, NEW id \in RequestIds,
             IgnoredAnswer(s, id) \/ Success(s, id) \/ Failure(s, id)
      PROVE  TypeInv'
  BY <1>3, AnswerTypes
<1>4. CASE UNCHANGED vars
  BY <1>4 DEF vars, TypeInv, TypeOK, Known, IdleLoop
<1>5. QED BY <1>1, <1>2, <1>3, <1>4 DEF Next, Quiescent

\* The variables keep their types, and the maps of requests and batches only
\* ever hold numbers that Context has given out (context.rs 424-434).
THEOREM TypeCorrect == Spec => []TypeOK
<1>1. TypeInv => TypeOK
  BY DEF TypeInv
<1>2. QED BY <1>1, InitTypes, StepTypes, PTL DEF Spec

-----------------------------------------------------------------------------
(***************************************************************************)
(* The slots name exactly the live requests.  TypeInv /\ SlotsLive is      *)
(* inductive: a request enters and leaves its slot in the step in which it *)
(* becomes live and ceases to be.                                          *)
(***************************************************************************)

SlotLive(s, k) ==
  LET slot == outstanding[<<s, k>>] IN
  /\ Live(s, k) = {slot.oldest, slot.youngest} \ {NoId}
  /\ slot.youngest # NoId => slot.oldest # NoId /\ slot.oldest < slot.youngest

SlotsLive == \A s \in Server, k \in Key : SlotLive(s, k)

\* A slot follows its live requests when a request is added to it and the one it
\* displaces is canceled.
LEMMA AddToSlot ==
  ASSUME NEW slot \in Slot, NEW live, NEW id \in Nat,
         live = {slot.oldest, slot.youngest} \ {NoId},
         slot.youngest # NoId => slot.oldest # NoId /\ slot.oldest < slot.youngest,
         \A i \in live : i < id
  PROVE  LET new == AddOutstanding(slot, id) IN
         /\ (live \ {Displaced(slot)}) \cup {id} = {new.oldest, new.youngest} \ {NoId}
         /\ new.youngest # NoId => new.oldest # NoId /\ new.oldest < new.youngest
         /\ Displaced(slot) # NoId => Displaced(slot) \in live
<1> USE DEF Slot, AddOutstanding, Displaced, Id, NoId
<1>1. CASE slot.oldest = NoId
  BY <1>1
<1>2. CASE slot.oldest # NoId
  BY <1>2
<1>3. QED BY <1>1, <1>2

\* And when one of them is answered.
LEMMA RemoveFromSlot ==
  ASSUME NEW slot \in Slot, NEW live, NEW id \in live,
         live = {slot.oldest, slot.youngest} \ {NoId},
         slot.youngest # NoId => slot.oldest # NoId /\ slot.oldest < slot.youngest
  PROVE  LET new == RemoveOutstanding(slot, id) IN
         /\ live \ {id} = {new.oldest, new.youngest} \ {NoId}
         /\ new.youngest # NoId => new.oldest # NoId /\ new.oldest < new.youngest
BY DEF Slot, RemoveOutstanding, Id, NoId

LEMMA SendSlots ==
  ASSUME TypeInv, SlotsLive, SendRequest
  PROVE  SlotsLive'
<1> DEFINE s == Head(sending.ops)
           key == sending.key
           id == requestCounter
           slot == outstanding[<<s, key>>]
           victim == Displaced(slot)
<1>1. /\ s \in Server /\ key \in Key /\ id \in Nat /\ id \notin DOMAIN waitlist
      /\ \A i \in DOMAIN waitlist : i < id
      /\ NoId \notin DOMAIN waitlist
  <2>1. sending.ops \in Seq(Server) /\ sending.ops # <<>>
    BY DEF SendRequest, IdleLoop, TypeInv, TypeOK
  <2>2. QED BY <2>1 DEF TypeInv, TypeOK, NoId
<1>2. /\ outstanding' = [outstanding EXCEPT ![<<s, key>>] = AddOutstanding(slot, id)]
      /\ inFlight' = [inFlight EXCEPT ![s] = @ \cup {id}]
      /\ DOMAIN waitlist' = DOMAIN waitlist \cup {id}
      /\ id # victim => waitlist'[id].key = key /\ waitlist'[id].canceled = FALSE
      /\ \A i \in DOMAIN waitlist :
           i # id => waitlist'[i] = IF i = victim THEN [waitlist[i] EXCEPT !.canceled = TRUE]
                                    ELSE waitlist[i]
  BY DEF SendRequest, SlotOf, Cancel
<1>3. /\ slot \in Slot
      /\ \A t \in Server, k \in Key : Live(t, k) \subseteq DOMAIN waitlist
      /\ \A i \in DOMAIN waitlist : waitlist[i] \in Entry
      /\ outstanding \in [Server \X Key -> Slot]
      /\ inFlight \in [Server -> SUBSET Nat]
      /\ \A t \in Server : inFlight[t] \subseteq DOMAIN waitlist
  BY <1>1 DEF TypeInv, TypeOK, Known, Live
<1>4. SlotLive(s, key)
  BY <1>1 DEF SlotsLive
<1> DEFINE new == AddOutstanding(slot, id)
<1>5. /\ (Live(s, key) \ {victim}) \cup {id} = {new.oldest, new.youngest} \ {NoId}
      /\ new.youngest # NoId => new.oldest # NoId /\ new.oldest < new.youngest
      /\ victim # NoId => victim \in Live(s, key)
      /\ new \in Slot
  BY <1>1, <1>3, <1>4, AddToSlot, SlotTypes DEF SlotLive
<1>6. id # victim
  BY <1>1, <1>3, <1>5 DEF NoId
<1> HIDE DEF s, key, id, slot, victim, new
<1>7. \A e \in Entry : /\ [e EXCEPT !.canceled = TRUE].canceled = TRUE
                       /\ [e EXCEPT !.canceled = TRUE].key = e.key
  BY DEF Entry
<1>8. ASSUME NEW t \in Server, NEW k \in Key
      PROVE  Live(t, k)' = (Live(t, k) \ {victim}) \cup (IF t = s /\ k = key THEN {id} ELSE {})
  <2>1. inFlight'[t] = IF t = s THEN inFlight[t] \cup {id} ELSE inFlight[t]
    BY <1>1, <1>2, <1>3
  <2>2. \A i \in inFlight[t] : /\ i \in DOMAIN waitlist /\ i # id
                               /\ waitlist'[i].key = waitlist[i].key
                               /\ waitlist'[i].canceled = (waitlist[i].canceled \/ i = victim)
    <3> SUFFICES ASSUME NEW i \in inFlight[t]
                 PROVE  /\ i \in DOMAIN waitlist /\ i # id
                        /\ waitlist'[i].key = waitlist[i].key
                        /\ waitlist'[i].canceled = (waitlist[i].canceled \/ i = victim)
      OBVIOUS
    <3>1. i \in DOMAIN waitlist /\ i # id /\ waitlist[i] \in Entry /\ waitlist[i].canceled \in BOOLEAN
      BY <1>1, <1>3 DEF Entry
    <3>2. CASE i = victim
      BY <1>2, <1>7, <3>1, <3>2
    <3>3. CASE i # victim
      BY <1>2, <3>1, <3>3
    <3>4. QED BY <3>1, <3>2, <3>3
  <2>3. waitlist'[id].key = key /\ waitlist'[id].canceled = FALSE
    BY <1>2, <1>6
  <2>4. QED BY <1>6, <2>1, <2>2, <2>3 DEF Live
<1>9. ASSUME NEW t \in Server, NEW k \in Key
      PROVE  SlotLive(t, k)'
  <2>1. CASE t = s /\ k = key
    <3>1. outstanding'[<<t, k>>] = new
      BY <1>1, <1>2, <1>3, <2>1 DEF new
    <3>2. Live(t, k)' = (Live(s, key) \ {victim}) \cup {id}
      BY <1>8, <2>1
    <3>3. QED BY <1>5, <3>1, <3>2 DEF SlotLive
  <2>2. CASE ~(t = s /\ k = key)
    <3>1. outstanding'[<<t, k>>] = outstanding[<<t, k>>]
      BY <1>1, <1>2, <1>3, <2>2
    <3>2. victim \notin Live(t, k)
      <4>1. NoId \notin Live(t, k)
        BY <1>1, <1>3
      <4>2. \A i : i \in Live(t, k) /\ i \in Live(s, key) => t = s /\ k = key
        BY <1>1 DEF Live, TypeInv, Known
      <4>3. QED BY <1>5, <2>2, <4>1, <4>2
    <3>3. Live(t, k)' = Live(t, k)
      BY <1>8, <2>2, <3>2
    <3>4. SlotLive(t, k)
      BY DEF SlotsLive
    <3>5. QED BY <3>1, <3>3, <3>4 DEF SlotLive
  <2>3. QED BY <2>1, <2>2
<1>10. QED BY <1>9 DEF SlotsLive

LEMMA AnswerSlots ==
  ASSUME TypeInv, SlotsLive, NEW s \in Server, NEW id, TakeAnswer(s, id)
  PROVE  SlotsLive'
<1> DEFINE key == waitlist[id].key
           slot == outstanding[<<s, key>>]
<1>1. /\ id \in inFlight[s] /\ id \in DOMAIN waitlist /\ waitlist[id] \in Entry
      /\ id \in Nat /\ key \in Key /\ waitlist[id].canceled \in BOOLEAN
      /\ \A t \in Server : t # s => id \notin inFlight[t]
  BY DEF TakeAnswer, TypeInv, TypeOK, Known, Entry
<1>2. /\ DOMAIN waitlist' = DOMAIN waitlist \ {id}
      /\ \A i \in DOMAIN waitlist' : waitlist'[i] = waitlist[i]
      /\ \A t \in Server : inFlight'[t] = IF t = s THEN inFlight[t] \ {id} ELSE inFlight[t]
      /\ \A t \in Server : inFlight[t] \subseteq DOMAIN waitlist
      /\ outstanding \in [Server \X Key -> Slot]
  BY DEF TakeAnswer, Without, TypeInv, TypeOK, Known
<1>3. outstanding' = IF waitlist[id].canceled THEN outstanding
                     ELSE [outstanding EXCEPT ![<<s, key>>] = RemoveOutstanding(@, id)]
  BY DEF TakeAnswer, SlotOf
<1> HIDE DEF key, slot
<1>4. ASSUME NEW t \in Server, NEW k \in Key
      PROVE  Live(t, k)' = Live(t, k) \ {id}
  <2>1. inFlight'[t] = inFlight[t] \ {id}
    BY <1>1, <1>2
  <2>2. \A i \in inFlight'[t] : waitlist'[i] = waitlist[i]
    BY <1>2, <2>1
  <2>3. QED BY <2>1, <2>2 DEF Live
<1>5. ASSUME NEW t \in Server, NEW k \in Key
      PROVE  SlotLive(t, k)'
  <2>1. SlotLive(t, k)
    BY DEF SlotsLive
  <2>2. CASE id \notin Live(t, k)
    <3>1. outstanding'[<<t, k>>] = outstanding[<<t, k>>]
      BY <1>1, <1>2, <1>3, <2>2 DEF Live, key
    <3>2. QED BY <1>4, <2>1, <2>2, <3>1 DEF SlotLive
  <2>3. CASE id \in Live(t, k)
    <3>1. t = s /\ k = key /\ ~waitlist[id].canceled
      BY <1>1, <2>3 DEF Live, key
    <3>2. outstanding'[<<t, k>>] = RemoveOutstanding(outstanding[<<t, k>>], id)
      BY <1>1, <1>2, <1>3, <3>1
    <3>3. outstanding[<<t, k>>] \in Slot
      BY <1>2
    <3>4. QED BY <1>4, <2>1, <2>3, <3>2, <3>3, RemoveFromSlot DEF SlotLive
  <2>4. QED BY <2>2, <2>3
<1>6. QED BY <1>5 DEF SlotsLive

LEMMA StepSlots == TypeInv /\ SlotsLive /\ [Next]_vars => SlotsLive'
<1> SUFFICES ASSUME TypeInv, SlotsLive, [Next]_vars PROVE SlotsLive'
  OBVIOUS
<1>1. ASSUME UNCHANGED <<waitlist, inFlight, outstanding>>
      PROVE  SlotsLive'
  BY <1>1 DEF SlotsLive, SlotLive, Live
<1>2. ASSUME NEW k \in Key, NEW ops \in OpLists(k), BatchCall(k, ops)
      PROVE  SlotsLive'
  BY <1>1, <1>2 DEF BatchCall
<1>3. CASE SendRequest
  BY <1>3, SendSlots
<1>4. ASSUME NEW s \in Server, NEW id \in RequestIds,
             IgnoredAnswer(s, id) \/ Success(s, id) \/ Failure(s, id)
      PROVE  SlotsLive'
  BY <1>4, AnswerSlots DEF IgnoredAnswer, Success, Failure
<1>5. CASE UNCHANGED vars
  BY <1>1, <1>5 DEF vars
<1>6. QED BY <1>2, <1>3, <1>4, <1>5 DEF Next, Quiescent

LEMMA InitSlots == Init => SlotsLive
<1> SUFFICES ASSUME Init PROVE SlotsLive
  OBVIOUS
<1>1. ASSUME NEW s \in Server, NEW k \in Key
      PROVE  SlotLive(s, k)
  BY DEF Init, SlotLive, Live, Vacant, NoId
<1>2. QED BY <1>1 DEF SlotsLive

LEMMA InductiveInvariant == Spec => [](TypeInv /\ SlotsLive)
BY InitTypes, InitSlots, StepTypes, StepSlots, PTL DEF Spec

\* For any servers and kinds of requests, outstanding_requests names exactly the
\* requests whose answers are still wanted, at most two of a kind, and the
\* waitlist holds exactly the requests in flight (context.rs 437-500).
THEOREM OutstandingCorrect == Spec => []OutstandingIsLive
<1>1. TypeInv /\ SlotsLive => OutstandingIsLive
  <2> SUFFICES ASSUME TypeInv, SlotsLive PROVE OutstandingIsLive
    OBVIOUS
  <2>1. DOMAIN waitlist = UNION {inFlight[s] : s \in Server}
    <3>1. \A id \in DOMAIN waitlist : \E s \in Server : id \in inFlight[s]
      BY DEF TypeInv, Known
    <3>2. \A s \in Server : \A id \in inFlight[s] : id \in DOMAIN waitlist
      BY DEF TypeInv, Known
    <3>3. QED BY <3>1, <3>2
  <2>2. ASSUME NEW s \in Server, NEW k \in Key
        PROVE  SlotLive(s, k)
    BY DEF SlotsLive
  <2>3. QED BY <2>1, <2>2 DEF OutstandingIsLive, SlotLive
<1>2. QED BY <1>1, InductiveInvariant, PTL

\* A step takes the oldest request of a kind out of its place only by answering it.
LEMMA OldestStep ==
  ASSUME TypeInv, SlotsLive, [Next]_vars,
         NEW s \in Server, NEW k \in Key,
         outstanding[<<s, k>>].oldest # NoId,
         outstanding'[<<s, k>>].oldest # outstanding[<<s, k>>].oldest
  PROVE  /\ outstanding[<<s, k>>].oldest \in inFlight[s]
         /\ outstanding[<<s, k>>].oldest \notin inFlight'[s]
<1> DEFINE id == outstanding[<<s, k>>].oldest
<1>1. id \in inFlight[s] /\ outstanding \in [Server \X Key -> Slot]
  BY DEF SlotsLive, SlotLive, Live, TypeInv, TypeOK
<1>2. CASE SendRequest
  <2>1. \E t, j : outstanding' = [outstanding EXCEPT ![<<t, sending.key>>] =
                                   AddOutstanding(outstanding[<<t, sending.key>>], j)]
    BY <1>2 DEF SendRequest, SlotOf
  <2>2. PICK t, j : outstanding' = [outstanding EXCEPT ![<<t, sending.key>>] =
                                      AddOutstanding(outstanding[<<t, sending.key>>], j)]
    BY <2>1
  <2>3. /\ <<s, k>> \in Server \X Key /\ outstanding[<<s, k>>] \in Slot
        /\ outstanding[<<s, k>>].oldest # NoId
    BY <1>1
  <2>4. AddOutstanding(outstanding[<<s, k>>], j).oldest = outstanding[<<s, k>>].oldest
    BY <2>3 DEF AddOutstanding, Slot
  <2>5. outstanding'[<<s, k>>].oldest = outstanding[<<s, k>>].oldest
    <3>1. CASE <<s, k>> = <<t, sending.key>>
      BY <1>1, <2>2, <2>3, <2>4, <3>1
    <3>2. CASE <<s, k>> # <<t, sending.key>>
      BY <1>1, <2>2, <2>3, <3>2
    <3>3. QED BY <3>1, <3>2
  <2>6. QED BY <2>5
<1>3. ASSUME NEW t \in Server, NEW j, TakeAnswer(t, j)
      PROVE  id \notin inFlight'[s]
  <2>1. /\ j \in inFlight[t] /\ inFlight' = [inFlight EXCEPT ![t] = @ \ {j}]
        /\ outstanding' = IF waitlist[j].canceled THEN outstanding
                          ELSE [outstanding EXCEPT ![<<t, waitlist[j].key>>] = RemoveOutstanding(@, j)]
    BY <1>3 DEF TakeAnswer, SlotOf
  <2>2. t = s /\ outstanding'[<<s, k>>] = RemoveOutstanding(outstanding[<<s, k>>], j)
    BY <1>1, <2>1
  <2>3. j = id
    BY <1>1, <2>2 DEF RemoveOutstanding, Slot
  <2>4. QED BY <2>1, <2>2, <2>3 DEF TypeInv, TypeOK
<1>4. CASE UNCHANGED outstanding
  BY <1>4
<1>5. QED BY <1>1, <1>2, <1>3, <1>4
          DEF Next, vars, Quiescent, BatchCall, IgnoredAnswer, Success, Failure

\* Whatever is sent after it, the oldest request of a kind keeps its place until
\* it is answered, so a client that repeats itself is not starved.
THEOREM OldestIsKept == Spec => OldestSurvives
<1>1. TypeInv /\ SlotsLive /\ [Next]_vars =>
        [\A s \in Server, k \in Key :
           LET id == outstanding[<<s, k>>].oldest IN
           id # NoId /\ outstanding'[<<s, k>>].oldest # id =>
             id \in inFlight[s] /\ id \notin inFlight'[s]]_vars
  BY OldestStep
<1>2. QED BY <1>1, InductiveInvariant, PTL DEF Spec, OldestSurvives

-----------------------------------------------------------------------------
(***************************************************************************)
(* Sums.  Complete compares two sums over the servers; SumFunction is a    *)
(* fold, that is, a function defined by recursion over the subsets of its  *)
(* domain.  That recursion has a solution, and what follows of it is       *)
(* proved by induction over finite sets (a minimal counterexample of the   *)
(* well-founded strict inclusion).                                         *)
(***************************************************************************)

\* Induction over the subsets of a finite set.
LEMMA SubsetInduction ==
  ASSUME NEW S, IsFiniteSet(S), NEW G,
         \A T \in SUBSET S : (\A U \in SUBSET T : U # T => U \in G) => T \in G
  PROVE  \A T \in SUBSET S : T \in G
<1> DEFINE Bad == {T \in SUBSET S : T \notin G}
<1> SUFFICES ASSUME Bad # {} PROVE FALSE
  OBVIOUS
<1>1. IsWellFoundedOn(StrictSubsetOrdering(S), FiniteSubsetsOf(S))
  BY FS_StrictSubsetOrderingWellFounded
<1>2. Bad \subseteq FiniteSubsetsOf(S)
  BY FS_Subset DEF FiniteSubsetsOf
<1> HIDE DEF Bad
<1>3. PICK T \in Bad : \A U \in Bad : <<U, T>> \notin StrictSubsetOrdering(S)
  BY <1>1, <1>2, WFMin
<1>4. T \in SUBSET S /\ T \notin G
  BY DEF Bad
<1>5. ASSUME NEW U \in SUBSET T, U # T
      PROVE  U \in G
  BY <1>3, <1>4, <1>5 DEF Bad, StrictSubsetOrdering
<1>6. QED BY <1>4, <1>5

\* The fold that SumFunctionOnSet is: the sum over s picks an element of s and
\* adds its value to the sum over the others.
Picked(s) == CHOOSE x \in s : TRUE
Adding(f, it, s) == IF s = {} THEN 0 ELSE f[Picked(s)] + it[s \ {Picked(s)}]
Sums(f, g, S) == g = [s \in SUBSET S |-> Adding(f, g, s)]
SumsOf(f, S) == CHOOSE g : Sums(f, g, S)

LEMMA SumUnfolds ==
  ASSUME NEW f, NEW S
  PROVE  SumFunctionOnSet(f, S) = SumsOf(f, S)[S]
BY DEF SumFunctionOnSet, FoldFunctionOnSet, MapThenFoldSet, SumsOf, Sums, Adding, Picked

LEMMA PickedIn ==
  ASSUME NEW s, s # {}
  PROVE  Picked(s) \in s
BY DEF Picked

\* Two such folds agree where both are defined.
LEMMA SumsAgree ==
  ASSUME NEW f, NEW g, NEW h, NEW S, NEW T, NEW U \in SUBSET S, U \in SUBSET T,
         IsFiniteSet(S), Sums(f, g, S), Sums(f, h, T)
  PROVE  g[U] = h[U]
<1> DEFINE G == {V \in SUBSET S : V \in SUBSET T => g[V] = h[V]}
<1>1. ASSUME NEW V \in SUBSET S, \A W \in SUBSET V : W # V => W \in G
      PROVE  V \in G
  <2> SUFFICES ASSUME V \in SUBSET T PROVE g[V] = h[V]
    OBVIOUS
  <2>1. g[V] = Adding(f, g, V) /\ h[V] = Adding(f, h, V)
    BY DEF Sums
  <2>2. CASE V = {}
    BY <2>1, <2>2 DEF Adding
  <2>3. CASE V # {}
    <3>1. V \ {Picked(V)} \in G /\ V \ {Picked(V)} \in SUBSET T
      BY <1>1, <2>3, PickedIn
    <3>2. g[V \ {Picked(V)}] = h[V \ {Picked(V)}]
      BY <3>1
    <3>3. QED BY <2>1, <2>3, <3>2 DEF Adding
  <2>4. QED BY <2>2, <2>3
<1> HIDE DEF G
<1>2. \A V \in SUBSET S : V \in G
  BY <1>1, SubsetInduction
<1>3. QED BY <1>2 DEF G

\* And there is one, so that the definition of the fold may be unfolded.
LEMMA SumsExist ==
  ASSUME NEW f, NEW S, IsFiniteSet(S)
  PROVE  Sums(f, SumsOf(f, S), S)
<1> DEFINE G == {T \in SUBSET S : Sums(f, SumsOf(f, T), T)}
<1>1. ASSUME NEW T \in SUBSET S, \A U \in SUBSET T : U # T => U \in G
      PROVE  T \in G
  <2> DEFINE g == [s \in SUBSET T |-> IF s = {} THEN 0
                     ELSE f[Picked(s)] + SumsOf(f, s \ {Picked(s)})[s \ {Picked(s)}]]
  <2>1. ASSUME NEW s \in SUBSET T PROVE g[s] = Adding(f, g, s)
    <3>1. CASE s = {}
      BY <3>1 DEF Adding
    <3>2. CASE s # {}
      <4> DEFINE u == s \ {Picked(s)}
      <4>1. u \in SUBSET T /\ u # T /\ IsFiniteSet(u)
        BY <3>2, PickedIn, FS_Subset
      <4>2. Sums(f, SumsOf(f, u), u)
        BY <1>1, <4>1
      <4>3. SumsOf(f, u)[u] = Adding(f, SumsOf(f, u), u)
        <5> HIDE DEF u
        <5>1. QED BY <4>2 DEF Sums
      <4>4. g[u] = SumsOf(f, u)[u]
        <5>1. CASE u = {}
          BY <4>3, <5>1 DEF Adding
        <5>2. CASE u # {}
          <6> DEFINE v == u \ {Picked(u)}
          <6>1. v \in SUBSET T /\ v # T /\ v \in SUBSET u
            BY <4>1, <5>2, PickedIn
          <6>2. Sums(f, SumsOf(f, v), v)
            BY <1>1, <6>1
          <6> HIDE DEF u, v, g
          <6>3. SumsOf(f, u)[v] = SumsOf(f, v)[v]
            BY <4>1, <4>2, <6>1, <6>2, SumsAgree
          <6>4. g[u] = f[Picked(u)] + SumsOf(f, v)[v]
            BY <4>1, <5>2 DEF g, v
          <6>5. QED BY <4>3, <5>2, <6>3, <6>4 DEF Adding, v
        <5>3. QED BY <5>1, <5>2
      <4>5. g[s] = f[Picked(s)] + SumsOf(f, u)[u]
        BY <3>2
      <4> HIDE DEF g
      <4>6. QED BY <3>2, <4>4, <4>5 DEF Adding
    <3>3. QED BY <3>1, <3>2
  <2>2. Sums(f, g, T)
    <3>1. g = [s \in SUBSET T |-> g[s]]
      OBVIOUS
    <3> HIDE DEF g
    <3>2. QED BY <2>1, <3>1 DEF Sums
  <2> HIDE DEF g
  <2>3. QED BY <2>2 DEF SumsOf
<1> HIDE DEF G
<1>2. S \in G
  BY <1>1, SubsetInduction
<1>3. QED BY <1>2 DEF G

\* The sum over a nonempty set, one element apart.
LEMMA SumStep ==
  ASSUME NEW f, NEW S, IsFiniteSet(S)
  PROVE  SumFunctionOnSet(f, S) =
           IF S = {} THEN 0
           ELSE f[Picked(S)] + SumFunctionOnSet(f, S \ {Picked(S)})
<1> DEFINE T == S \ {Picked(S)}
<1>1. Sums(f, SumsOf(f, S), S) /\ Sums(f, SumsOf(f, T), T)
  BY SumsExist, FS_Subset
<1>2. SumsOf(f, S)[S] = Adding(f, SumsOf(f, S), S)
  BY <1>1 DEF Sums
<1>3. SumsOf(f, S)[T] = SumsOf(f, T)[T]
  <2> HIDE DEF T
  <2>1. T \in SUBSET S /\ T \in SUBSET T
    BY DEF T
  <2>2. QED BY <1>1, <2>1, SumsAgree
<1>4. QED BY <1>2, <1>3, SumUnfolds DEF Adding

\* Of two functions into the naturals, one nowhere above the other, the sums
\* compare likewise, and are equal only if the functions are.
LEMMA SumCompares ==
  ASSUME NEW S, IsFiniteSet(S), NEW f \in [S -> Nat], NEW g \in [S -> Nat],
         \A x \in S : f[x] <= g[x]
  PROVE  SumFunction(f) >= SumFunction(g) <=> f = g
<1> DEFINE F(T) == SumFunctionOnSet(f, T)
           H(T) == SumFunctionOnSet(g, T)
           G == {T \in SUBSET S : /\ F(T) \in Nat /\ H(T) \in Nat /\ F(T) <= H(T)
                                  /\ F(T) >= H(T) => \A x \in T : f[x] = g[x]}
<1>1. ASSUME NEW T \in SUBSET S, \A U \in SUBSET T : U # T => U \in G
      PROVE  T \in G
  <2>1. IsFiniteSet(T)
    BY FS_Subset
  <2>2. CASE T = {}
    <3>1. F(T) = 0 /\ H(T) = 0
      BY <2>1, <2>2, SumStep
    <3>2. QED BY <2>2, <3>1
  <2>3. CASE T # {}
    <3> DEFINE p == Picked(T)
               U == T \ {p}
    <3>1. p \in T /\ p \in S /\ U \in G
      BY <1>1, <2>3, PickedIn
    <3>2. F(T) = f[p] + F(U) /\ H(T) = g[p] + H(U)
      BY <2>1, <2>3, SumStep
    <3>3. /\ F(U) \in Nat /\ H(U) \in Nat /\ F(U) <= H(U)
          /\ F(U) >= H(U) => \A x \in U : f[x] = g[x]
      BY <3>1
    <3>4. f[p] \in Nat /\ g[p] \in Nat /\ f[p] <= g[p]
      BY <3>1
    <3> HIDE DEF F, H, p
    <3>5. /\ F(T) \in Nat /\ H(T) \in Nat /\ F(T) <= H(T)
          /\ F(T) >= H(T) => f[p] = g[p] /\ F(U) >= H(U)
      BY <3>2, <3>3, <3>4
    <3>6. F(T) >= H(T) => \A x \in T : f[x] = g[x]
      BY <3>3, <3>5
    <3>7. QED BY <3>5, <3>6
  <2>4. QED BY <2>2, <2>3
<1>2. S \in G
  <2> HIDE DEF G
  <2>1. QED BY <1>1, SubsetInduction
<1>3. SumFunction(f) = F(S) /\ SumFunction(g) = H(S)
  BY DEF SumFunction
<1>4. f = g => F(S) = H(S)
  OBVIOUS
<1>5. F(S) \in Nat /\ H(S) \in Nat /\ (F(S) >= H(S) => \A x \in S : f[x] = g[x])
  BY <1>2
<1> HIDE DEF F, H, G
<1>6. QED BY <1>3, <1>4, <1>5

-----------------------------------------------------------------------------
(***************************************************************************)
(* Calls.  What has arrived of a server and what is still to come make up  *)
(* what is expected of it; an answer to a canceled request is the only one *)
(* that gets lost, and then the call is superseded.                        *)
(***************************************************************************)

\* The requests of a call that a server has and has not answered yet, and the
\* places of those that batch_call has still to send.
Requested(b, s) == {id \in inFlight[s] : waitlist[id].batch = b}
Unsent(b, s) == {i \in DOMAIN sending.ops : sending.batch = b /\ sending.ops[i] = s}
ToCome(b, s) == Cardinality(Requested(b, s)) + Cardinality(Unsent(b, s))

\* What a callback is promised: everything from the servers that have not failed.
Expected(c) == [s \in Server |-> IF s \in c.failed THEN 0 ELSE c.asked[s]]

\* A call asks each server once, or one server for several ranges.
AskedOnce(c) ==
  /\ c.key \notin RangeKey => \A s \in Server : c.asked[s] <= 1
  /\ \A s, t \in Server : s # t /\ c.asked[s] > 1 => c.asked[t] = 0

\* The answers to an open call add up, and some are missing.
AddsUp(b) ==
  /\ batchSizes[b] = Expected(calls[b])
  /\ calls[b].asked = Nothing \/ batches[b] # batchSizes[b]
  /\ \A s \in Server : batches[b][s] + ToCome(b, s) <= batchSizes[b][s]
  /\ ~calls[b].superseded => \A s \in Server : batches[b][s] + ToCome(b, s) = batchSizes[b][s]

Faithful(c) ==
  /\ c.outcome = "callback" => c.results = Expected(c)
  /\ c.outcome = "dropped" => {s \in Server : c.asked[s] > 0} \subseteq c.failed

CallInv(b) ==
  /\ calls[b].outcome = "open" <=> b \in DOMAIN batches
  /\ calls[b].outcome = "open" => AddsUp(b)
  /\ AskedOnce(calls[b])
  /\ Faithful(calls[b])

WaitlistInv ==
  \A id \in DOMAIN waitlist :
    LET c == calls[waitlist[id].batch] IN
    c.key = waitlist[id].key /\ (waitlist[id].canceled => c.superseded)

SendingInv ==
  ~IdleLoop => /\ sending.batch = batchCount - 1
               /\ calls[sending.batch].key = sending.key
               /\ calls[sending.batch].outcome = "open"

CallsInv == (\A b \in DOMAIN calls : CallInv(b)) /\ WaitlistInv /\ SendingInv

LEMMA SmallCounts ==
  ASSUME NEW n \in Nat, NEW i
  PROVE  /\ IsFiniteSet(1..n) /\ Cardinality({}) = 0
         /\ IsFiniteSet({i}) /\ Cardinality({i}) = 1
<1>1. IsFiniteSet(1..n)
  BY FS_Interval
<1>2. Cardinality({}) = 0
  BY FS_EmptySet
<1>3. IsFiniteSet({i}) /\ Cardinality({i}) = 1
  BY FS_Singleton
<1>4. QED BY <1>1, <1>2, <1>3

LEMMA ToComeFinite ==
  ASSUME TypeInv, NEW b, NEW s \in Server
  PROVE  IsFiniteSet(Requested(b, s)) /\ IsFiniteSet(Unsent(b, s))
<1>1. requestCounter \in Nat /\ inFlight[s] \subseteq 0..requestCounter - 1
  BY DEF TypeInv, TypeOK, Known
<1>2. IsFiniteSet(0..requestCounter - 1)
  BY <1>1, FS_Interval
<1>3. IsFiniteSet(Requested(b, s))
  BY <1>1, <1>2, FS_Subset DEF Requested
<1>4. sending.ops \in Seq(Server)
  BY DEF TypeInv, TypeOK
<1>5. DOMAIN sending.ops = 1..Len(sending.ops) /\ Len(sending.ops) \in Nat
  BY <1>4
<1>6. IsFiniteSet(Unsent(b, s))
  <2>1. IsFiniteSet(1..Len(sending.ops))
    BY <1>5, SmallCounts
  <2>2. Unsent(b, s) \in SUBSET (1..Len(sending.ops))
    BY <1>5 DEF Unsent
  <2>3. QED BY <2>1, <2>2, FS_Subset
<1>7. QED BY <1>3, <1>6

LEMMA ToComeType ==
  ASSUME TypeInv, NEW b, NEW s \in Server
  PROVE  /\ Cardinality(Requested(b, s)) \in Nat /\ Cardinality(Unsent(b, s)) \in Nat
         /\ ToCome(b, s) \in Nat
         /\ IdleLoop => Unsent(b, s) = {} /\ ToCome(b, s) = Cardinality(Requested(b, s))
<1>1. Cardinality(Requested(b, s)) \in Nat /\ Cardinality(Unsent(b, s)) \in Nat
  BY ToComeFinite, FS_CardinalityType
<1>2. IdleLoop => Unsent(b, s) = {}
  BY DEF IdleLoop, Unsent
<1>3. QED BY <1>1, <1>2, FS_EmptySet DEF ToCome

\* The shapes of OpLists: a server is asked once, or alone.
LEMMA TallyShape ==
  ASSUME NEW k \in Key, NEW ops \in OpLists(k)
  PROVE  /\ k \notin RangeKey => \A s \in Server : Tally(ops)[s] <= 1
         /\ \A s, t \in Server : s # t /\ Tally(ops)[s] > 1 => Tally(ops)[t] = 0
<1>1. ops \in Seq(Server) /\ Tally(ops) \in Count
  BY OpListsType, TallyType
<1>2. CASE k \notin RangeKey
  <2>1. IsInjective(ops)
    BY <1>2 DEF OpLists
  <2>2. ASSUME NEW s \in Server
        PROVE  Tally(ops)[s] <= 1
    <3> DEFINE I == {i \in DOMAIN ops : ops[i] = s}
    <3>1. I = {} \/ \E i : I = {i}
      BY <2>1 DEF IsInjective
    <3>2. Cardinality(I) <= 1
      <4> HIDE DEF I
      <4>1. CASE I = {}
        <5>1. 0 \in Nat
          OBVIOUS
        <5>2. Cardinality({}) = 0
          BY <5>1, SmallCounts
        <5>3. QED BY <4>1, <5>2
      <4>2. ASSUME NEW i, I = {i} PROVE Cardinality(I) = 1
        <5>1. 0 \in Nat
          OBVIOUS
        <5>2. Cardinality({i}) = 1
          BY <5>1, SmallCounts
        <5>3. QED BY <4>2, <5>2
      <4>3. QED BY <3>1, <4>1, <4>2
    <3>3. QED BY <3>2 DEF Tally
  <2>3. QED BY <1>1, <2>2 DEF Count
<1>3. CASE k \in RangeKey
  <2>1. PICK n \in 1..MaxSelections, r \in Server : ops \in [1..n -> {r}]
    BY <1>3 DEF OpLists
  <2>2. ASSUME NEW t \in Server, t # r
        PROVE  Tally(ops)[t] = 0
    <3>1. {i \in DOMAIN ops : ops[i] = t} = {}
      BY <2>1, <2>2
    <3>2. QED BY <3>1, FS_EmptySet DEF Tally
  <2>3. QED BY <1>3, <2>2
<1>4. QED BY <1>2, <1>3

\* Sending the first of the operations leaves one less for its server.
LEMMA TallyTail ==
  ASSUME NEW ops \in Seq(Server), ops # <<>>, NEW s \in Server
  PROVE  LET before == {i \in DOMAIN ops : ops[i] = s}
             after == {i \in DOMAIN Tail(ops) : Tail(ops)[i] = s}
         IN  Cardinality(after) = IF s = Head(ops) THEN Cardinality(before) - 1
                                                   ELSE Cardinality(before)
<1> DEFINE before == {i \in DOMAIN ops : ops[i] = s}
           after == {i \in DOMAIN Tail(ops) : Tail(ops)[i] = s}
           f == [i \in after |-> i + 1]
<1>1. /\ DOMAIN ops = 1..Len(ops) /\ Len(ops) \in Nat \ {0} /\ Head(ops) = ops[1]
      /\ DOMAIN Tail(ops) = 1..Len(ops) - 1
      /\ \A i \in 1..Len(ops) - 1 : Tail(ops)[i] = ops[i + 1]
  OBVIOUS
<1>2. IsFiniteSet(before) /\ IsFiniteSet(after)
  <2>1. IsFiniteSet(1..Len(ops)) /\ IsFiniteSet(1..Len(ops) - 1)
    BY <1>1, FS_Interval
  <2>2. before \in SUBSET (1..Len(ops)) /\ after \in SUBSET (1..Len(ops) - 1)
    BY <1>1
  <2> HIDE DEF before, after
  <2>3. QED BY <2>1, <2>2, FS_Subset
<1>3. f \in Bijection(after, before \ {1})
  <2>1. f \in [after -> before \ {1}]
    BY <1>1
  <2>2. \A i, j \in after : f[i] = f[j] => i = j
    BY <1>1
  <2>3. \A j \in before \ {1} : \E i \in after : f[i] = j
    <3> SUFFICES ASSUME NEW j \in before \ {1} PROVE \E i \in after : f[i] = j
      OBVIOUS
    <3>1. j - 1 \in after /\ f[j - 1] = j
      BY <1>1
    <3>2. QED BY <3>1
  <2> HIDE DEF f, before, after
  <2>4. QED BY <2>1, <2>2, <2>3 DEF Bijection, Injection, Surjection, IsInjective
<1>4. Cardinality(after) = Cardinality(before \ {1})
  <2> HIDE DEF f, before, after
  <2>1. ExistsBijection(after, before \ {1})
    BY <1>3 DEF ExistsBijection
  <2>2. QED BY <1>2, <2>1, FS_Bijection
<1>5. 1 \in before <=> s = Head(ops)
  BY <1>1
<1>6. QED BY <1>2, <1>4, <1>5, FS_RemoveElement

\* A call whose batch, and what is to come of it, a step leaves alone.
Untouched(b) ==
  /\ b \in DOMAIN calls /\ b \in DOMAIN calls'
  /\ b \in DOMAIN batches' <=> b \in DOMAIN batches
  /\ b \in DOMAIN batches => batches'[b] = batches[b] /\ batchSizes'[b] = batchSizes[b]
  /\ calls'[b] = calls[b] \/ calls'[b] = [calls[b] EXCEPT !.superseded = TRUE]
  /\ b \in DOMAIN batches =>
       \A s \in Server : \/ ToCome(b, s)' = ToCome(b, s)
                         \/ /\ calls'[b].superseded
                            /\ ToCome(b, s)' \in Nat /\ ToCome(b, s)' <= ToCome(b, s)

LEMMA UntouchedCall ==
  ASSUME TypeInv, TypeInv', NEW b, Untouched(b), CallInv(b)
  PROVE  CallInv(b)'
<1> USE DEF Untouched
<1>1. calls[b] \in Call /\ calls'[b] \in Call
  BY DEF TypeInv, TypeOK
<1>2. /\ calls'[b].key = calls[b].key /\ calls'[b].asked = calls[b].asked
      /\ calls'[b].failed = calls[b].failed /\ calls'[b].outcome = calls[b].outcome
      /\ calls'[b].results = calls[b].results
      /\ calls[b].superseded => calls'[b].superseded
      /\ calls[b].superseded \in BOOLEAN /\ calls'[b].superseded \in BOOLEAN
  BY <1>1 DEF Call
<1>3. Expected(calls'[b]) = Expected(calls[b])
  BY <1>2 DEF Expected
<1>4. AskedOnce(calls'[b]) /\ Faithful(calls'[b])
  BY <1>2, <1>3 DEF CallInv, AskedOnce, Faithful
<1>5. ASSUME b \in DOMAIN batches, AddsUp(b) PROVE AddsUp(b)'
  <2>1. ASSUME NEW s \in Server
        PROVE  /\ ToCome(b, s) \in Nat /\ ToCome(b, s)' \in Nat
               /\ batches[b][s] \in Nat /\ batchSizes[b][s] \in Nat
    <3>1. ToCome(b, s) \in Nat
      BY ToComeType
    <3>2. ToCome(b, s)' \in Nat
      BY <1>5, <3>1
    <3>3. QED BY <1>5, <3>1, <3>2 DEF TypeInv, TypeOK, Count
  <2>2. \A s \in Server : batches'[b][s] + ToCome(b, s)' <= batchSizes'[b][s]
    BY <1>5, <2>1 DEF AddsUp
  <2>3. ~calls'[b].superseded =>
           \A s \in Server : batches'[b][s] + ToCome(b, s)' = batchSizes'[b][s]
    BY <1>2, <1>5, <2>1 DEF AddsUp
  <2>4. batchSizes'[b] = Expected(calls'[b])
    BY <1>3, <1>5 DEF AddsUp
  <2>5. calls'[b].asked = Nothing \/ batches'[b] # batchSizes'[b]
    BY <1>2, <1>5 DEF AddsUp
  <2>6. QED BY <2>2, <2>3, <2>4, <2>5 DEF AddsUp
<1>6. QED BY <1>2, <1>4, <1>5 DEF CallInv

LEMMA CallCalls ==
  ASSUME TypeInv, TypeInv', CallsInv, NEW k \in Key, NEW ops \in OpLists(k), BatchCall(k, ops)
  PROVE  CallsInv'
<1> PICK b : b = batchCount
  OBVIOUS
<1>1. /\ ops \in Seq(Server) /\ Tally(ops) \in Count /\ Nothing \in Count
      /\ b \in Nat /\ b \notin DOMAIN calls /\ b \notin DOMAIN batches
      /\ DOMAIN calls = 0..batchCount - 1 /\ DOMAIN batches \subseteq 0..batchCount - 1
      /\ DOMAIN batchSizes = DOMAIN batches
  BY OpListsType, TallyType DEF TypeInv, TypeOK, Nothing, Count
<1>2. /\ IdleLoop /\ batchCount' = b + 1
      /\ sending' = [batch |-> b, key |-> k, ops |-> ops]
      /\ DOMAIN batches' = DOMAIN batches \cup {b} /\ DOMAIN calls' = DOMAIN calls \cup {b}
      /\ batches'[b] = Nothing /\ batchSizes'[b] = Tally(ops)
      /\ \A c \in DOMAIN batches : batches'[c] = batches[c] /\ batchSizes'[c] = batchSizes[c]
      /\ calls'[b] = [key |-> k, asked |-> Tally(ops), failed |-> {}, superseded |-> FALSE,
                      outcome |-> "open", results |-> Nothing]
      /\ \A c \in DOMAIN calls : calls'[c] = calls[c]
      /\ waitlist' = waitlist /\ inFlight' = inFlight
  BY <1>1 DEF BatchCall
<1>3. \A c, s : Requested(c, s)' = Requested(c, s)
  BY <1>2 DEF Requested
<1>4. ASSUME NEW c \in DOMAIN calls PROVE CallInv(c)'
  <2>1. c # b
    BY <1>1
  <2>2. ASSUME NEW s \in Server PROVE ToCome(c, s)' = ToCome(c, s)
    <3>1. Unsent(c, s) = {} /\ Unsent(c, s)' = {}
      BY <1>2, <2>1 DEF Unsent, IdleLoop
    <3>2. QED BY <1>3, <3>1 DEF ToCome
  <2>3. /\ CallInv(c)
        /\ c \in DOMAIN calls'
        /\ c \in DOMAIN batches' <=> c \in DOMAIN batches
        /\ c \in DOMAIN batches => batches'[c] = batches[c] /\ batchSizes'[c] = batchSizes[c]
        /\ calls'[c] = calls[c]
    BY <1>2, <2>1 DEF CallsInv
  <2>4. Untouched(c)
    BY <2>2, <2>3 DEF Untouched
  <2>5. QED BY <2>3, <2>4, UntouchedCall
<1>5. CallInv(b)'
  <2>1. ASSUME NEW s \in Server PROVE ToCome(b, s)' = Tally(ops)[s] /\ Tally(ops)[s] \in Nat
    <3>1. Requested(b, s) = {}
      BY <1>1 DEF Requested, TypeInv, Known
    <3>2. Unsent(b, s)' = {i \in DOMAIN ops : ops[i] = s}
      BY <1>2 DEF Unsent
    <3>3. Tally(ops)[s] = Cardinality({i \in DOMAIN ops : ops[i] = s}) /\ Tally(ops)[s] \in Nat
      BY <1>1 DEF Tally, Count
    <3>4. Cardinality(Requested(b, s)') = 0
      BY <1>3, <3>1, SmallCounts
    <3>5. QED BY <3>2, <3>3, <3>4 DEF ToCome
  <2>2. Expected(calls'[b]) = Tally(ops)
    BY <1>1, <1>2 DEF Expected, Count
  <2>3. AddsUp(b)'
    <3>1. \A s \in Server : batches'[b][s] = 0 /\ batchSizes'[b][s] = Tally(ops)[s]
      BY <1>2 DEF Nothing
    <3>2. \A s \in Server : batches'[b][s] + ToCome(b, s)' = batchSizes'[b][s]
      BY <2>1, <3>1
    <3>3. \A s \in Server : batches'[b][s] + ToCome(b, s)' <= batchSizes'[b][s]
      BY <2>1, <3>1
    <3>4. calls'[b].asked = Nothing \/ batches'[b] # batchSizes'[b]
      BY <1>2
    <3>5. QED BY <1>2, <2>2, <3>2, <3>3, <3>4 DEF AddsUp
  <2>4. AskedOnce(calls'[b])
    BY <1>2, TallyShape DEF AskedOnce
  <2>5. Faithful(calls'[b])
    BY <1>2 DEF Faithful
  <2>6. QED BY <1>2, <2>3, <2>4, <2>5 DEF CallInv
<1>6. WaitlistInv'
  BY <1>1, <1>2 DEF CallsInv, WaitlistInv, TypeInv, Known
<1>7. SendingInv'
  BY <1>1, <1>2 DEF SendingInv
<1>8. QED BY <1>2, <1>4, <1>5, <1>6, <1>7 DEF CallsInv

\* What batch_call does in one iteration.
Sending(b, k, s, id, victim) ==
  /\ b = sending.batch /\ k = sending.key /\ s = Head(sending.ops)
  /\ s \in Server /\ k \in Key /\ b \in DOMAIN calls
  /\ sending.ops \in Seq(Server) /\ sending.ops # <<>>
  /\ id \notin DOMAIN waitlist /\ id # victim
  /\ \/ victim = NoId /\ calls' = calls
     \/ /\ victim \in inFlight[s] /\ victim \in DOMAIN waitlist
        /\ waitlist[victim].key = k
        /\ calls' = [calls EXCEPT ![waitlist[victim].batch].superseded = TRUE]
  /\ DOMAIN waitlist' = DOMAIN waitlist \cup {id}
  /\ waitlist'[id] = [key |-> k, batch |-> b, canceled |-> FALSE]
  /\ \A i \in DOMAIN waitlist :
       /\ waitlist'[i].key = waitlist[i].key /\ waitlist'[i].batch = waitlist[i].batch
       /\ waitlist'[i].canceled => waitlist[i].canceled \/ i = victim
  /\ inFlight' = [inFlight EXCEPT ![s] = @ \cup {id}]
  /\ sending' = [sending EXCEPT !.ops = Tail(@)]
  /\ batchCount' = batchCount /\ batches' = batches /\ batchSizes' = batchSizes

LEMMA SendFacts ==
  ASSUME TypeInv, SlotsLive, SendRequest
  PROVE  \E b, k, s, id, victim : Sending(b, k, s, id, victim)
<1> PICK b, k, s, id, victim :
      /\ b = sending.batch /\ k = sending.key /\ s = Head(sending.ops) /\ id = requestCounter
      /\ victim = Displaced(outstanding[<<s, k>>])
  OBVIOUS
<1>1. sending.ops \in Seq(Server) /\ sending.ops # <<>> /\ b \in DOMAIN calls /\ k \in Key
  BY DEF SendRequest, IdleLoop, TypeInv, TypeOK, Known
<1>2. s \in Server /\ id \in Nat /\ id \notin DOMAIN waitlist /\ NoId \notin DOMAIN waitlist
  BY <1>1 DEF TypeInv, TypeOK, NoId
<1>3. outstanding[<<s, k>>] \in Slot /\ SlotLive(s, k)
  BY <1>1, <1>2 DEF TypeInv, TypeOK, SlotsLive
<1>4. victim = NoId \/ victim \in Live(s, k)
  BY <1>3 DEF Displaced, SlotLive, Slot
<1>5. victim # NoId =>
        victim \in inFlight[s] /\ victim \in DOMAIN waitlist /\ waitlist[victim].key = k
  BY <1>2, <1>4 DEF Live, TypeInv, Known
<1>6. id # victim
  BY <1>2, <1>5 DEF NoId
<1> DEFINE entry == [key |-> k, batch |-> b, canceled |-> FALSE]
           grown == [i \in DOMAIN waitlist \cup {id} |-> IF i = id THEN entry ELSE waitlist[i]]
<1>7. /\ waitlist' = Cancel(grown, victim)
      /\ inFlight' = [inFlight EXCEPT ![s] = @ \cup {id}]
      /\ sending' = [sending EXCEPT !.ops = Tail(@)]
      /\ calls' = IF victim \in DOMAIN waitlist
                  THEN [calls EXCEPT ![waitlist[victim].batch].superseded = TRUE]
                  ELSE calls
      /\ batchCount' = batchCount /\ batches' = batches /\ batchSizes' = batchSizes
  BY DEF SendRequest, SlotOf
<1>8. /\ DOMAIN waitlist' = DOMAIN waitlist \cup {id}
      /\ waitlist'[id] = entry
      /\ \A i \in DOMAIN waitlist :
           waitlist'[i] = IF i = victim THEN [waitlist[i] EXCEPT !.canceled = TRUE] ELSE waitlist[i]
  BY <1>2, <1>6, <1>7 DEF Cancel
<1>9. \A i \in DOMAIN waitlist :
        /\ waitlist'[i].key = waitlist[i].key /\ waitlist'[i].batch = waitlist[i].batch
        /\ waitlist'[i].canceled => waitlist[i].canceled \/ i = victim
  <2>1. \A i \in DOMAIN waitlist : waitlist[i] \in Entry
    BY DEF TypeInv, TypeOK
  <2>2. \A e \in Entry : LET f == [e EXCEPT !.canceled = TRUE]
                         IN  f.key = e.key /\ f.batch = e.batch
    BY DEF Entry
  <2>3. QED BY <1>8, <2>1, <2>2
<1>10. Sending(b, k, s, id, victim)
  BY <1>1, <1>2, <1>5, <1>6, <1>7, <1>8, <1>9 DEF Sending
<1>11. QED BY <1>10

\* A request that is sent moves from what is to be sent to what is in flight.
LEMMA SendMoves ==
  ASSUME TypeInv, SlotsLive, SendRequest, NEW c, NEW t \in Server
  PROVE  /\ ToCome(c, t)' = ToCome(c, t)
         /\ c = sending.batch /\ t = Head(sending.ops) => Cardinality(Unsent(c, t)) >= 1
<1>1. PICK b, k, s, id, victim : Sending(b, k, s, id, victim)
  BY SendFacts
<1>2. /\ b = sending.batch /\ s = Head(sending.ops)
      /\ s \in Server /\ sending.ops \in Seq(Server) /\ sending.ops # <<>>
      /\ id \notin DOMAIN waitlist
      /\ waitlist'[id].batch = b
      /\ \A i \in DOMAIN waitlist : waitlist'[i].batch = waitlist[i].batch
      /\ inFlight' = [inFlight EXCEPT ![s] = @ \cup {id}]
      /\ sending' = [sending EXCEPT !.ops = Tail(@)]
  BY <1>1 DEF Sending
<1>3. /\ inFlight \in [Server -> SUBSET Nat] /\ \A u \in Server : inFlight[u] \subseteq DOMAIN waitlist
      /\ sending \in [batch : Nat, key : Key, ops : Seq(Server)]
  BY DEF TypeInv, TypeOK, Known
<1>4. sending'.batch = b /\ sending'.ops = Tail(sending.ops)
  BY <1>2, <1>3
<1>5. /\ IsFiniteSet(Requested(c, t)) /\ Cardinality(Requested(c, t)) \in Nat
      /\ IsFiniteSet(Unsent(c, t)) /\ Cardinality(Unsent(c, t)) \in Nat
  BY ToComeFinite, ToComeType
<1>6. id \notin Requested(c, t)
  BY <1>2, <1>3 DEF Requested
<1>7. CASE c = b /\ t = s
  <2>1. Requested(c, t)' = Requested(c, t) \cup {id}
    BY <1>2, <1>3, <1>7 DEF Requested
  <2>2. Cardinality(Requested(c, t)') = Cardinality(Requested(c, t)) + 1
    BY <1>5, <1>6, <2>1, FS_AddElement
  <2>3. /\ Unsent(c, t) = {i \in DOMAIN sending.ops : sending.ops[i] = t}
        /\ Unsent(c, t)' = {i \in DOMAIN Tail(sending.ops) : Tail(sending.ops)[i] = t}
    BY <1>2, <1>4, <1>7 DEF Unsent
  <2>4. Cardinality(Unsent(c, t)') = Cardinality(Unsent(c, t)) - 1
    BY <1>2, <1>7, <2>3, TallyTail
  <2>5. Cardinality(Unsent(c, t)) # 0
    <3>1. 1 \in Unsent(c, t)
      BY <1>2, <1>7, <2>3
    <3>2. QED BY <1>5, <3>1, FS_EmptySet
  <2>6. ToCome(c, t)' = ToCome(c, t) /\ Cardinality(Unsent(c, t)) >= 1
    BY <1>5, <2>2, <2>4, <2>5 DEF ToCome
  <2>7. QED BY <2>6
<1>8. CASE c = b /\ t # s
  <2>1. Requested(c, t)' = Requested(c, t)
    BY <1>2, <1>3, <1>8 DEF Requested
  <2>2. /\ Unsent(c, t) = {i \in DOMAIN sending.ops : sending.ops[i] = t}
        /\ Unsent(c, t)' = {i \in DOMAIN Tail(sending.ops) : Tail(sending.ops)[i] = t}
    BY <1>2, <1>4, <1>8 DEF Unsent
  <2>3. Cardinality(Unsent(c, t)') = Cardinality(Unsent(c, t))
    BY <1>2, <1>8, <2>2, TallyTail
  <2>4. ToCome(c, t)' = ToCome(c, t)
    BY <2>1, <2>3 DEF ToCome
  <2>5. QED BY <1>8, <1>2, <2>4
<1>9. CASE c # b
  <2>1. Requested(c, t)' = Requested(c, t)
    BY <1>2, <1>3, <1>9 DEF Requested
  <2>2. Unsent(c, t)' = Unsent(c, t)
    BY <1>2, <1>4, <1>9 DEF Unsent
  <2>3. ToCome(c, t)' = ToCome(c, t)
    BY <2>1, <2>2 DEF ToCome
  <2>4. QED BY <1>9, <1>2, <2>3
<1>10. QED BY <1>7, <1>8, <1>9

\* The call a request is superseded by, if each server is asked once.
LEMMA VictimIsEarlier ==
  ASSUME TypeInv, SlotsLive, CallsInv, SendRequest,
         NEW victim, victim \in DOMAIN waitlist, victim \in inFlight[Head(sending.ops)],
         waitlist[victim].key = sending.key, sending.key \notin RangeKey
  PROVE  waitlist[victim].batch < sending.batch
<1>1. PICK b, k, s, id, v : Sending(b, k, s, id, v)
  BY SendFacts
<1>2. /\ b = sending.batch /\ s = Head(sending.ops) /\ s \in Server /\ b \in DOMAIN calls
      /\ k = sending.key
  BY <1>1 DEF Sending
<1>3. /\ ~IdleLoop /\ batchCount \in Nat /\ DOMAIN calls = 0..batchCount - 1
      /\ waitlist[victim].batch \in DOMAIN calls /\ calls[b] \in Call
  BY <1>2 DEF SendRequest, TypeInv, TypeOK, Known
<1>4. b = batchCount - 1 /\ calls[b].key = k /\ calls[b].outcome = "open"
  BY <1>2, <1>3 DEF CallsInv, SendingInv
<1>5. CallInv(b) /\ b \in DOMAIN batches /\ AddsUp(b) /\ AskedOnce(calls[b])
  BY <1>2, <1>4 DEF CallsInv, CallInv
<1>6. batches[b][s] + ToCome(b, s) <= 1
  <2>1. calls[b].asked[s] <= 1 /\ calls[b].asked[s] \in Nat
    BY <1>2, <1>3, <1>4, <1>5 DEF AskedOnce, Call, Count
  <2>2. batchSizes[b][s] <= 1
    BY <1>2, <1>5, <2>1 DEF AddsUp, Expected
  <2>3. /\ batches[b][s] \in Nat /\ batchSizes[b][s] \in Nat /\ ToCome(b, s) \in Nat
        /\ batches[b][s] + ToCome(b, s) <= batchSizes[b][s]
    BY <1>2, <1>5, ToComeType DEF AddsUp, TypeInv, TypeOK, Count
  <2>4. QED BY <2>2, <2>3
<1>7. Cardinality(Unsent(b, s)) >= 1
  BY <1>2, SendMoves
<1>8. ASSUME waitlist[victim].batch = b PROVE FALSE
  <2>1. victim \in Requested(b, s)
    BY <1>2, <1>8 DEF Requested
  <2>2. IsFiniteSet(Requested(b, s)) /\ Cardinality(Requested(b, s)) \in Nat
        /\ Cardinality(Unsent(b, s)) \in Nat /\ batches[b][s] \in Nat
    BY <1>2, <1>5, ToComeFinite, ToComeType DEF TypeInv, TypeOK, Count
  <2>3. Cardinality(Requested(b, s)) # 0
    BY <2>1, <2>2, FS_EmptySet
  <2>4. QED BY <1>6, <1>7, <2>2, <2>3 DEF ToCome
<1>9. QED BY <1>2, <1>3, <1>4, <1>8

LEMMA SendCalls ==
  ASSUME TypeInv, TypeInv', SlotsLive, CallsInv, SendRequest
  PROVE  CallsInv' /\ (SupersededByLater => SupersededByLater')
<1>1. PICK b, k, s, id, victim : Sending(b, k, s, id, victim)
  BY SendFacts
<1> DEFINE w == waitlist[victim].batch
<1>2. /\ b = sending.batch /\ k = sending.key /\ b \in DOMAIN calls
      /\ ~IdleLoop /\ batchCount \in Nat /\ DOMAIN calls = 0..batchCount - 1
      /\ b = batchCount - 1 /\ calls[b].key = k /\ calls[b].outcome = "open"
      /\ \A c \in DOMAIN calls : calls[c] \in Call
      /\ \A i \in DOMAIN waitlist : waitlist[i].batch \in DOMAIN calls
      /\ sending \in [batch : Nat, key : Key, ops : Seq(Server)]
  BY <1>1 DEF Sending, SendRequest, TypeInv, TypeOK, Known, CallsInv, SendingInv
<1>3. /\ DOMAIN calls' = DOMAIN calls /\ batchCount' = batchCount
      /\ batches' = batches /\ batchSizes' = batchSizes
      /\ sending'.batch = b /\ sending'.key = k
  BY <1>1, <1>2 DEF Sending
<1>4. ASSUME NEW c \in DOMAIN calls
      PROVE  /\ \/ calls'[c] = calls[c]
                \/ /\ calls'[c] = [calls[c] EXCEPT !.superseded = TRUE]
                   /\ victim \in DOMAIN waitlist /\ c = w
             /\ calls'[c].key = calls[c].key /\ calls'[c].outcome = calls[c].outcome
             /\ calls[c].superseded => calls'[c].superseded
             /\ victim \in DOMAIN waitlist /\ victim # NoId /\ c = w => calls'[c].superseded
  <2>1. calls[c] \in Call
    BY <1>2
  <2>2. \/ victim = NoId /\ calls'[c] = calls[c]
        \/ victim \in DOMAIN waitlist /\ c = w /\ calls'[c] = [calls[c] EXCEPT !.superseded = TRUE]
        \/ c # w /\ calls'[c] = calls[c]
    BY <1>1 DEF Sending
  <2>3. QED BY <2>1, <2>2 DEF Call
<1>5. ASSUME NEW c \in DOMAIN calls' PROVE CallInv(c)'
  <2>1. \A t \in Server : ToCome(c, t)' = ToCome(c, t)
    BY SendMoves
  <2>2. Untouched(c)
    BY <1>3, <1>4, <2>1 DEF Untouched
  <2>3. QED BY <1>3, <2>2, UntouchedCall DEF CallsInv
<1>6. WaitlistInv'
  <2> SUFFICES ASSUME NEW i \in DOMAIN waitlist'
               PROVE  /\ calls'[waitlist'[i].batch].key = waitlist'[i].key
                      /\ waitlist'[i].canceled => calls'[waitlist'[i].batch].superseded
    BY DEF WaitlistInv
  <2>1. CASE i = id
    BY <1>1, <1>2, <1>4, <2>1 DEF Sending
  <2>2. CASE i # id
    <3>1. /\ i \in DOMAIN waitlist /\ waitlist'[i].key = waitlist[i].key
          /\ waitlist'[i].batch = waitlist[i].batch
          /\ waitlist'[i].canceled => waitlist[i].canceled \/ i = victim
      BY <1>1, <2>2 DEF Sending
    <3>2. /\ calls[waitlist[i].batch].key = waitlist[i].key
          /\ waitlist[i].canceled => calls[waitlist[i].batch].superseded
      BY <3>1 DEF CallsInv, WaitlistInv
    <3>3. i # NoId
      BY <3>1 DEF TypeInv, TypeOK, NoId
    <3>4. PICK c \in DOMAIN calls : c = waitlist[i].batch
      BY <3>1, <1>2
    <3>5. /\ calls'[c].key = calls[c].key
          /\ calls[c].superseded => calls'[c].superseded
          /\ i = victim => (c = w => calls'[c].superseded)
      BY <1>4, <3>1, <3>3
    <3>6. i = victim => c = w
      BY <3>4
    <3>7. QED BY <3>1, <3>2, <3>4, <3>5, <3>6
  <2>3. QED BY <2>1, <2>2
<1>7. SendingInv'
  BY <1>2, <1>3, <1>4 DEF SendingInv
<1>8. ASSUME SupersededByLater,
             NEW c \in DOMAIN calls', calls'[c].superseded, calls'[c].key \notin RangeKey
      PROVE  \E d \in DOMAIN calls' : d > c /\ calls'[d].key = calls'[c].key
  <2>1. c \in DOMAIN calls /\ calls'[c].key = calls[c].key
    BY <1>3, <1>4, <1>8
  <2>2. CASE calls[c].superseded
    <3>1. PICK d \in DOMAIN calls : d > c /\ calls[d].key = calls[c].key
      BY <1>8, <2>1, <2>2 DEF SupersededByLater
    <3>2. QED BY <1>3, <1>4, <2>1, <3>1
  <2>3. CASE ~calls[c].superseded
    <3>1. victim \in DOMAIN waitlist /\ c = w
      BY <1>4, <1>8, <2>1, <2>3
    <3>2. victim # NoId
      BY <3>1 DEF TypeInv, TypeOK, NoId
    <3>3. victim \in inFlight[Head(sending.ops)] /\ waitlist[victim].key = sending.key
      BY <1>1, <3>2 DEF Sending
    <3>4. calls[c].key = k
      BY <1>2, <3>1, <3>3 DEF CallsInv, WaitlistInv
    <3>5. c < b
      BY <1>2, <1>8, <2>1, <3>1, <3>3, <3>4, VictimIsEarlier
    <3>6. calls'[b].key = calls'[c].key /\ b \in DOMAIN calls'
      BY <1>2, <1>3, <1>4, <2>1, <3>4
    <3>7. b \in Nat /\ c \in Nat
      BY <1>2, <2>1
    <3>8. QED BY <3>5, <3>6, <3>7
  <2>4. QED BY <2>2, <2>3
<1>9. QED BY <1>5, <1>6, <1>7, <1>8 DEF CallsInv, SupersededByLater

\* What every answer does first: its request leaves what is to come of its call.
Taken(s, id, b, c, t) ==
  /\ b \in DOMAIN calls /\ id \in DOMAIN waitlist /\ waitlist[id] \in Entry
  /\ sending' = sending /\ batchCount' = batchCount /\ IdleLoop
  /\ DOMAIN waitlist' = DOMAIN waitlist \ {id}
  /\ \A i \in DOMAIN waitlist' : waitlist'[i] = waitlist[i]
  /\ ToCome(c, t) \in Nat /\ ToCome(c, t)' \in Nat
  /\ ToCome(c, t)' = IF c = b /\ t = s THEN ToCome(c, t) - 1 ELSE ToCome(c, t)

LEMMA TakeMoves ==
  ASSUME TypeInv, NEW s \in Server, NEW id, TakeAnswer(s, id), NEW b, b = waitlist[id].batch,
         NEW c, NEW t \in Server
  PROVE  Taken(s, id, b, c, t)
<1> USE DEF Taken
<1>1. /\ id \in inFlight[s] /\ id \in DOMAIN waitlist /\ waitlist[id] \in Entry
      /\ b \in DOMAIN calls /\ IdleLoop
      /\ inFlight' = [inFlight EXCEPT ![s] = @ \ {id}]
      /\ DOMAIN waitlist' = DOMAIN waitlist \ {id}
      /\ \A i \in DOMAIN waitlist' : waitlist'[i] = waitlist[i]
      /\ sending' = sending /\ batchCount' = batchCount
      /\ inFlight \in [Server -> SUBSET Nat]
      /\ \A u, v \in Server : u # v => inFlight[u] \cap inFlight[v] = {}
      /\ \A u \in Server : inFlight[u] \subseteq DOMAIN waitlist
  BY DEF TakeAnswer, Without, TypeInv, TypeOK, Known
<1>2. /\ IsFiniteSet(Requested(c, t)) /\ Cardinality(Requested(c, t)) \in Nat
      /\ ToCome(c, t) \in Nat /\ ToCome(c, t) = Cardinality(Requested(c, t))
      /\ Unsent(c, t) = {}
  BY <1>1, ToComeFinite, ToComeType
<1>3. Unsent(c, t)' = {}
  BY <1>1, <1>2 DEF Unsent
<1>4. Cardinality({}) = 0
  BY FS_EmptySet
<1>5. CASE c = b /\ t = s
  <2>1. Requested(c, t)' = Requested(c, t) \ {id}
    BY <1>1, <1>5 DEF Requested
  <2>2. id \in Requested(c, t)
    BY <1>1, <1>5 DEF Requested
  <2>3. Cardinality(Requested(c, t)') = Cardinality(Requested(c, t)) - 1
    BY <1>2, <2>1, <2>2, FS_RemoveElement
  <2>4. Cardinality(Requested(c, t)) # 0
    BY <1>2, <2>2, FS_EmptySet
  <2>5. /\ ToCome(c, t)' = ToCome(c, t) - 1
        /\ ToCome(c, t)' \in Nat
    BY <1>2, <1>3, <1>4, <2>3, <2>4 DEF ToCome
  <2>6. QED BY <1>1, <1>2, <1>5, <2>5
<1>6. CASE ~(c = b /\ t = s)
  <2>1. Requested(c, t)' = Requested(c, t)
    BY <1>1, <1>6 DEF Requested
  <2>2. ToCome(c, t)' = ToCome(c, t)
    BY <1>2, <1>3, <2>1 DEF ToCome
  <2>3. QED BY <1>1, <1>2, <1>6, <2>2
<1>7. QED BY <1>5, <1>6

\* An answer leaves the calls alone that it is not for, and it changes nothing of
\* its own call if it is ignored.
LEMMA OtherCalls ==
  ASSUME TypeInv, TypeInv', CallsInv, NEW s \in Server, NEW id, TakeAnswer(s, id),
         NEW c \in DOMAIN calls, c \in DOMAIN calls', calls'[c] = calls[c],
         c \in DOMAIN batches' <=> c \in DOMAIN batches,
         c \in DOMAIN batches => batches'[c] = batches[c] /\ batchSizes'[c] = batchSizes[c],
         c = waitlist[id].batch => waitlist[id].canceled \/ c \notin DOMAIN batches
  PROVE  CallInv(c)'
<1>1. ASSUME NEW t \in Server, c \in DOMAIN batches
      PROVE  \/ ToCome(c, t)' = ToCome(c, t)
             \/ calls'[c].superseded /\ ToCome(c, t)' \in Nat /\ ToCome(c, t)' <= ToCome(c, t)
  <2> PICK b : b = waitlist[id].batch
    OBVIOUS
  <2>1. Taken(s, id, b, c, t)
    BY TakeMoves
  <2>2. waitlist[id].canceled => calls[b].superseded
    BY <2>1 DEF Taken, CallsInv, WaitlistInv
  <2>3. c = b => calls'[c].superseded
    BY <1>1, <2>2
  <2>4. QED BY <2>1, <2>3 DEF Taken
<1>2. Untouched(c)
  BY <1>1 DEF Untouched
<1>3. CallInv(c)
  BY DEF CallsInv
<1>4. QED BY <1>2, <1>3, UntouchedCall

\* How an answer leaves its own call: with what has arrived, what is expected
\* and who has failed.
LEMMA OwnCall ==
  ASSUME TypeInv, TypeInv', CallsInv, NEW b \in DOMAIN calls, b \in DOMAIN batches,
         NEW got \in Count, NEW size \in Count, NEW failed \in SUBSET Server,
         size = [s \in Server |-> IF s \in failed THEN 0 ELSE calls[b].asked[s]],
         \/ /\ ContinueBatch(b, got, size, failed)
            /\ \A s \in Server : /\ ToCome(b, s)' \in Nat
                                 /\ got[s] + ToCome(b, s)' <= size[s]
            /\ ~calls[b].superseded => \A s \in Server : got[s] + ToCome(b, s)' = size[s]
         \/ EndBatch(b, "dropped", Nothing, failed) /\ size = Nothing
  PROVE  CallInv(b)'
<1>1. /\ calls[b] \in Call /\ CallInv(b) /\ calls[b].outcome = "open"
      /\ DOMAIN batches = DOMAIN batchSizes
  BY DEF CallsInv, CallInv, TypeInv, TypeOK
<1>2. AskedOnce(calls[b])
  BY <1>1 DEF CallInv
<1>3. CASE EndBatch(b, "dropped", Nothing, failed) /\ size = Nothing
  <2>1. /\ b \notin DOMAIN batches' /\ calls'[b].outcome = "dropped"
        /\ calls'[b].failed = failed /\ calls'[b].asked = calls[b].asked
        /\ calls'[b].key = calls[b].key
    BY <1>1, <1>3 DEF EndBatch, Without, Call
  <2>2. \A s \in Server : (IF s \in failed THEN 0 ELSE calls[b].asked[s]) = 0
    BY <1>3 DEF Nothing
  <2>3. {s \in Server : calls[b].asked[s] > 0} \subseteq failed
    BY <2>2
  <2>4. AskedOnce(calls'[b]) /\ Faithful(calls'[b])
    BY <1>2, <2>1, <2>3 DEF AskedOnce, Faithful
  <2>5. QED BY <2>1, <2>4 DEF CallInv
<1>4. ASSUME ContinueBatch(b, got, size, failed),
             \A s \in Server : ToCome(b, s)' \in Nat /\ got[s] + ToCome(b, s)' <= size[s],
             ~calls[b].superseded => \A s \in Server : got[s] + ToCome(b, s)' = size[s]
      PROVE  CallInv(b)'
  <2>1. \A s \in Server : got[s] <= size[s]
    BY <1>4 DEF Count
  <2>2. Complete(got, size) <=> got = size
    BY <2>1, SumCompares, RequestsAssumption DEF Complete, Count
  <2>3. CASE Complete(got, size)
    <3>1. /\ b \notin DOMAIN batches' /\ calls'[b].outcome = "callback"
          /\ calls'[b].failed = failed /\ calls'[b].asked = calls[b].asked
          /\ calls'[b].key = calls[b].key /\ calls'[b].results = got
      <4>1. EndBatch(b, "callback", got, failed)
        BY <1>4, <2>3 DEF ContinueBatch
      <4>2. calls'[b] = [calls[b] EXCEPT !.outcome = "callback", !.results = got,
                                         !.failed = failed]
        BY <4>1 DEF EndBatch
      <4>3. b \notin DOMAIN batches'
        BY <4>1 DEF EndBatch, Without
      <4>4. QED BY <1>1, <4>2, <4>3 DEF Call
    <3>2. AskedOnce(calls'[b]) /\ Faithful(calls'[b])
      BY <1>2, <2>2, <2>3, <3>1 DEF AskedOnce, Faithful, Expected
    <3>3. QED BY <3>1, <3>2 DEF CallInv
  <2>4. CASE ~Complete(got, size)
    <3>1. /\ b \in DOMAIN batches' /\ calls'[b].outcome = "open"
          /\ calls'[b].failed = failed /\ calls'[b].asked = calls[b].asked
          /\ calls'[b].key = calls[b].key /\ calls'[b].superseded = calls[b].superseded
          /\ batches'[b] = got /\ batchSizes'[b] = size
      <4>1. /\ batches' = [batches EXCEPT ![b] = got]
            /\ batchSizes' = [batchSizes EXCEPT ![b] = size]
            /\ calls' = [calls EXCEPT ![b].failed = failed]
        BY <1>4, <2>4 DEF ContinueBatch
      <4>2. calls'[b] = [calls[b] EXCEPT !.failed = failed]
        BY <4>1
      <4>3. b \in DOMAIN batches' /\ batches'[b] = got /\ batchSizes'[b] = size
        BY <1>1, <4>1
      <4>4. QED BY <1>1, <4>2, <4>3 DEF Call
    <3>2. AskedOnce(calls'[b]) /\ Faithful(calls'[b])
      BY <1>2, <3>1 DEF AskedOnce, Faithful
    <3>3. AddsUp(b)'
      BY <1>4, <2>2, <2>4, <3>1 DEF AddsUp, Expected
    <3>4. QED BY <3>1, <3>2, <3>3 DEF CallInv
  <2>5. QED BY <2>3, <2>4
<1>5. QED BY <1>3, <1>4

\* An answer changes one call, and neither what kind of call it is nor whether it
\* is superseded.
OneCall(b) ==
  /\ DOMAIN calls' = DOMAIN calls
  /\ \A c \in DOMAIN calls : /\ calls'[c].key = calls[c].key
                             /\ calls'[c].superseded = calls[c].superseded
                             /\ c # b => calls'[c] = calls[c]
                             /\ c # b => (c \in DOMAIN batches' <=> c \in DOMAIN batches)
  /\ \A c \in DOMAIN batches :
       c # b => batches'[c] = batches[c] /\ batchSizes'[c] = batchSizes[c]

LEMMA OneCallChanges ==
  ASSUME TypeInv, NEW b \in DOMAIN calls, b \in DOMAIN batches, NEW got, NEW size, NEW failed,
         ContinueBatch(b, got, size, failed) \/ EndBatch(b, "dropped", Nothing, failed)
  PROVE  OneCall(b)
<1>1. DOMAIN batches = DOMAIN batchSizes /\ \A c \in DOMAIN calls : calls[c] \in Call
  BY DEF TypeInv, TypeOK
<1>2. ASSUME NEW outcome, NEW results, EndBatch(b, outcome, results, failed)
      PROVE  OneCall(b)
  <2>1. calls'[b] = [calls[b] EXCEPT !.outcome = outcome, !.results = results, !.failed = failed]
    BY <1>2 DEF EndBatch
  <2>2. calls'[b].key = calls[b].key /\ calls'[b].superseded = calls[b].superseded
    BY <1>1, <2>1 DEF Call
  <2>3. /\ DOMAIN calls' = DOMAIN calls
        /\ \A c \in DOMAIN calls : c # b => calls'[c] = calls[c]
    BY <1>2 DEF EndBatch
  <2>4. /\ DOMAIN batches' = DOMAIN batches \ {b}
        /\ \A c \in DOMAIN batches :
             c # b => batches'[c] = batches[c] /\ batchSizes'[c] = batchSizes[c]
    BY <1>1, <1>2 DEF EndBatch, Without
  <2>5. QED BY <2>2, <2>3, <2>4 DEF OneCall
<1>3. ASSUME ContinueBatch(b, got, size, failed), ~Complete(got, size)
      PROVE  OneCall(b)
  <2>1. /\ batches' = [batches EXCEPT ![b] = got]
        /\ batchSizes' = [batchSizes EXCEPT ![b] = size]
        /\ calls' = [calls EXCEPT ![b].failed = failed]
    BY <1>3 DEF ContinueBatch
  <2>2. calls'[b] = [calls[b] EXCEPT !.failed = failed]
    BY <2>1
  <2>3. calls'[b].key = calls[b].key /\ calls'[b].superseded = calls[b].superseded
    BY <1>1, <2>2 DEF Call
  <2>4. QED BY <1>1, <2>1, <2>3 DEF OneCall
<1>4. QED BY <1>2, <1>3 DEF ContinueBatch

\* An answer that is counted, or that ends what a server is expected to send.
LEMMA CountedCalls ==
  ASSUME TypeInv, TypeInv', CallsInv, NEW s \in Server, NEW id, Success(s, id) \/ Failure(s, id)
  PROVE  \E b \in DOMAIN calls : /\ b = waitlist[id].batch /\ b \in DOMAIN batches
                                 /\ OneCall(b) /\ CallInv(b)'
<1>1. PICK b : b = waitlist[id].batch
  OBVIOUS
<1>2. TakeAnswer(s, id) /\ b \in DOMAIN batches
  BY <1>1 DEF Success, Failure
<1>3. \A t \in Server : Taken(s, id, b, b, t)
  BY <1>1, <1>2, TakeMoves
<1>4. b \in DOMAIN calls
  BY <1>3 DEF Taken
<1>5. /\ calls[b] \in Call /\ AddsUp(b) /\ AskedOnce(calls[b])
      /\ batches[b] \in Count /\ batchSizes[b] \in Count
      /\ batchSizes[b] = Expected(calls[b])
  BY <1>2, <1>4 DEF CallsInv, CallInv, AddsUp, TypeInv, TypeOK
<1>6. \A t \in Server :
        /\ ToCome(b, t) \in Nat /\ ToCome(b, t)' \in Nat
        /\ ToCome(b, t)' = IF t = s THEN ToCome(b, t) - 1 ELSE ToCome(b, t)
        /\ batches[b][t] \in Nat /\ batchSizes[b][t] \in Nat /\ calls[b].asked[t] \in Nat
        /\ batches[b][t] + ToCome(b, t) <= batchSizes[b][t]
        /\ ~calls[b].superseded => batches[b][t] + ToCome(b, t) = batchSizes[b][t]
  BY <1>3, <1>5 DEF Taken, AddsUp, Count, Call
<1>7. CASE Success(s, id)
  <2> DEFINE got == [batches[b] EXCEPT ![s] = @ + 1]
  <2>1. ContinueBatch(b, got, batchSizes[b], calls[b].failed)
    BY <1>1, <1>7 DEF Success
  <2>2. got \in Count /\ calls[b].failed \in SUBSET Server
    BY <1>5 DEF Count, Call
  <2>3. \A t \in Server : got[t] = IF t = s THEN batches[b][t] + 1 ELSE batches[b][t]
    BY <1>5 DEF Count
  <2> HIDE DEF got
  <2>4. /\ \A t \in Server : ToCome(b, t)' \in Nat /\ got[t] + ToCome(b, t)' <= batchSizes[b][t]
        /\ ~calls[b].superseded => \A t \in Server : got[t] + ToCome(b, t)' = batchSizes[b][t]
    <3>1. ASSUME NEW t \in Server
          PROVE  /\ ToCome(b, t)' \in Nat /\ got[t] + ToCome(b, t)' <= batchSizes[b][t]
                 /\ ~calls[b].superseded => got[t] + ToCome(b, t)' = batchSizes[b][t]
      <4>1. PICK old \in Nat, new \in Nat, had \in Nat, due \in Nat :
              /\ old = ToCome(b, t) /\ new = ToCome(b, t)'
              /\ had = batches[b][t] /\ due = batchSizes[b][t]
        BY <1>6
      <4>2. /\ new = IF t = s THEN old - 1 ELSE old
            /\ had + old <= due
            /\ ~calls[b].superseded => had + old = due
        BY <1>6, <4>1
      <4>3. got[t] = IF t = s THEN had + 1 ELSE had
        BY <2>3, <4>1
      <4>4. /\ got[t] + new <= due
            /\ ~calls[b].superseded => got[t] + new = due
        BY <4>2, <4>3
      <4>5. QED BY <4>1, <4>4
    <3>2. QED BY <3>1
  <2>5. CallInv(b)'
    BY <1>2, <1>4, <1>5, <2>1, <2>2, <2>4, OwnCall DEF Expected
  <2>6. OneCall(b)
    BY <1>2, <1>4, <2>1, OneCallChanges
  <2>7. QED BY <1>1, <1>2, <1>4, <2>5, <2>6
<1>8. CASE Failure(s, id)
  <2> DEFINE got == FilterResults(batches[b], s)
             size == StopExpecting(batchSizes[b], s)
             failed == calls[b].failed \cup {s}
  <2>1. /\ size # Nothing => ContinueBatch(b, got, size, failed)
        /\ size = Nothing => EndBatch(b, "dropped", Nothing, failed)
    BY <1>1, <1>8 DEF Failure
  <2>2. got \in Count /\ size \in Count /\ failed \in SUBSET Server
    BY <1>5 DEF Count, Call, FilterResults, StopExpecting
  <2>3. \A t \in Server : /\ got[t] = IF t = s THEN 0 ELSE batches[b][t]
                          /\ size[t] = IF t = s THEN 0 ELSE batchSizes[b][t]
    BY <1>5 DEF Count, FilterResults, StopExpecting
  <2>4. size = [t \in Server |-> IF t \in failed THEN 0 ELSE calls[b].asked[t]]
    BY <1>5 DEF Count, StopExpecting, Expected
  <2>5. ASSUME size # Nothing PROVE ToCome(b, s)' = 0
    <3>1. PICK t \in Server : size[t] # 0
      BY <2>2, <2>5 DEF Count, Nothing
    <3>2. t # s /\ calls[b].asked[t] # 0
      BY <2>3, <2>4, <3>1
    <3>3. calls[b].asked[s] <= 1
      BY <1>5, <1>6, <3>2 DEF AskedOnce
    <3>4. batchSizes[b][s] <= 1
      BY <1>5, <3>3 DEF Expected
    <3>5. QED BY <1>6, <3>4
  <2> HIDE DEF got, size, failed
  <2>6. size # Nothing =>
          /\ \A t \in Server : ToCome(b, t)' \in Nat /\ got[t] + ToCome(b, t)' <= size[t]
          /\ ~calls[b].superseded => \A t \in Server : got[t] + ToCome(b, t)' = size[t]
    BY <1>6, <2>3, <2>5
  <2>7. CallInv(b)'
    BY <1>2, <1>4, <2>1, <2>2, <2>4, <2>6, OwnCall
  <2>8. OneCall(b)
    BY <1>2, <1>4, <2>1, OneCallChanges
  <2>9. QED BY <1>1, <1>2, <1>4, <2>7, <2>8
<1>9. QED BY <1>7, <1>8

LEMMA AnswerCalls ==
  ASSUME TypeInv, TypeInv', CallsInv, NEW s \in Server, NEW id,
         IgnoredAnswer(s, id) \/ Success(s, id) \/ Failure(s, id)
  PROVE  CallsInv' /\ (SupersededByLater => SupersededByLater')
<1>1. TakeAnswer(s, id)
  BY DEF IgnoredAnswer, Success, Failure
<1>2. PICK b : b = waitlist[id].batch
  OBVIOUS
<1>3. \A t \in Server : Taken(s, id, b, b, t)
  BY <1>1, <1>2, TakeMoves
<1>4. OneCall(b) /\ \A c \in DOMAIN calls' : CallInv(c)'
  <2>1. CASE IgnoredAnswer(s, id)
    <3>1. /\ waitlist[id].canceled \/ b \notin DOMAIN batches
          /\ UNCHANGED <<batches, batchSizes, calls>>
      BY <1>2, <2>1 DEF IgnoredAnswer
    <3>2. OneCall(b)
      BY <3>1 DEF OneCall
    <3>3. ASSUME NEW c \in DOMAIN calls' PROVE CallInv(c)'
      <4>1. /\ c \in DOMAIN calls /\ calls'[c] = calls[c]
            /\ DOMAIN batches' = DOMAIN batches
            /\ batches'[c] = batches[c] /\ batchSizes'[c] = batchSizes[c]
            /\ c = waitlist[id].batch => waitlist[id].canceled \/ c \notin DOMAIN batches
        BY <1>2, <3>1
      <4>2. QED BY <1>1, <4>1, OtherCalls
    <3>4. QED BY <3>2, <3>3
  <2>2. CASE Success(s, id) \/ Failure(s, id)
    <3>1. b \in DOMAIN batches /\ OneCall(b) /\ CallInv(b)'
      BY <1>2, <2>2, CountedCalls
    <3>2. ASSUME NEW c \in DOMAIN calls', c # b PROVE CallInv(c)'
      <4>1. /\ c \in DOMAIN calls /\ calls'[c] = calls[c]
            /\ c \in DOMAIN batches' <=> c \in DOMAIN batches
            /\ c \in DOMAIN batches => batches'[c] = batches[c] /\ batchSizes'[c] = batchSizes[c]
        BY <3>1, <3>2 DEF OneCall
      <4>2. c # waitlist[id].batch
        BY <1>2, <3>2
      <4>3. QED BY <1>1, <4>1, <4>2, OtherCalls
    <3>3. QED BY <3>1, <3>2
  <2>3. QED BY <2>1, <2>2
<1>5. WaitlistInv'
  <2>1. ASSUME NEW i \in DOMAIN waitlist'
        PROVE  LET c == calls'[waitlist'[i].batch]
               IN  c.key = waitlist'[i].key /\ (waitlist'[i].canceled => c.superseded)
    <3>1. i \in DOMAIN waitlist /\ waitlist'[i] = waitlist[i]
      BY <1>3, <2>1 DEF Taken
    <3>2. waitlist[i].batch \in DOMAIN calls
      BY <3>1 DEF TypeInv, Known
    <3>3. /\ calls[waitlist[i].batch].key = waitlist[i].key
          /\ waitlist[i].canceled => calls[waitlist[i].batch].superseded
      BY <3>1 DEF CallsInv, WaitlistInv
    <3>4. QED BY <1>4, <3>1, <3>2, <3>3 DEF OneCall
  <2>2. QED BY <2>1 DEF WaitlistInv
<1>6. SendingInv'
  BY <1>3 DEF Taken, SendingInv, IdleLoop
<1>7. SupersededByLater => SupersededByLater'
  BY <1>4 DEF OneCall, SupersededByLater
<1>8. QED BY <1>4, <1>5, <1>6, <1>7 DEF CallsInv

LEMMA InitCalls == Init => CallsInv /\ SupersededByLater
BY DEF Init, CallsInv, WaitlistInv, SendingInv, IdleLoop, SupersededByLater

LEMMA StepCalls ==
  TypeInv /\ TypeInv' /\ SlotsLive /\ CallsInv /\ SupersededByLater /\ [Next]_vars =>
    CallsInv' /\ SupersededByLater'
<1> SUFFICES ASSUME TypeInv, TypeInv', SlotsLive, CallsInv, SupersededByLater, [Next]_vars
             PROVE  CallsInv' /\ SupersededByLater'
  OBVIOUS
<1>1. ASSUME NEW k \in Key, NEW ops \in OpLists(k), BatchCall(k, ops)
      PROVE  CallsInv' /\ SupersededByLater'
  <2>1. CallsInv'
    BY <1>1, CallCalls
  <2>2. /\ DOMAIN calls \subseteq DOMAIN calls'
        /\ \A c \in DOMAIN calls : calls'[c] = calls[c]
        /\ \A c \in DOMAIN calls' : c \notin DOMAIN calls => ~calls'[c].superseded
    BY <1>1 DEF BatchCall, TypeInv, TypeOK
  <2>3. QED BY <2>1, <2>2 DEF SupersededByLater
<1>2. CASE SendRequest
  BY <1>2, SendCalls
<1>3. ASSUME NEW s \in Server, NEW id \in RequestIds,
             IgnoredAnswer(s, id) \/ Success(s, id) \/ Failure(s, id)
      PROVE  CallsInv' /\ SupersededByLater'
  BY <1>3, AnswerCalls
<1>4. CASE UNCHANGED vars
  <2>1. CallsInv'
    BY <1>4 DEF vars, CallsInv, CallInv, AddsUp, ToCome, Requested, Unsent, WaitlistInv,
                SendingInv, IdleLoop
  <2>2. QED BY <1>4, <2>1 DEF vars, SupersededByLater
<1>5. QED BY <1>1, <1>2, <1>3, <1>4 DEF Next, Quiescent

LEMMA CallsHold == Spec => [](TypeInv /\ CallsInv /\ SupersededByLater)
<1>1. Init => TypeInv /\ SlotsLive /\ CallsInv /\ SupersededByLater
  BY InitTypes, InitSlots, InitCalls
<1>2. TypeInv /\ SlotsLive /\ CallsInv /\ SupersededByLater /\ [Next]_vars =>
        TypeInv' /\ SlotsLive' /\ CallsInv' /\ SupersededByLater'
  BY StepTypes, StepSlots, StepCalls
<1>3. QED BY <1>1, <1>2, PTL DEF Spec

\* Whatever fails and in whatever order the answers come, a callback sees every
\* result of the servers that have not failed and none of those that have, and it
\* is dropped only when all have (controller.rs 1069-1082, 1122-1159).
THEOREM CallbacksSeeWhatWasAsked == Spec => []OutcomeFaithful
<1>1. CallsInv => OutcomeFaithful
  BY DEF CallsInv, CallInv, Faithful, Expected, OutcomeFaithful
<1>2. QED BY <1>1, CallsHold, PTL

\* No call of a client's last request of a kind is canceled: what cancels it is a
\* later call of the same kind (context.rs 437-471).
THEOREM LastWordStands == Spec => []SupersededByLater
BY CallsHold, PTL

\* Every open call that was not superseded has an answer to come that will be
\* accepted, so no callback is forgotten in the maps of Context.
THEOREM OpenCallsAreAttended == Spec => []OpenCallAttended
<1>1. TypeInv /\ CallsInv => OpenCallAttended
  <2> SUFFICES ASSUME TypeInv, CallsInv, NEW b \in DOMAIN calls, calls[b].outcome = "open",
                      ~calls[b].superseded, calls[b].asked # Nothing
               PROVE  Attended(b)
    BY DEF OpenCallAttended
  <2>1. AddsUp(b) /\ batches[b] \in Count /\ batchSizes[b] \in Count /\ batches[b] # batchSizes[b]
    BY DEF CallsInv, CallInv, AddsUp, TypeInv, TypeOK
  <2>2. PICK s \in Server : batches[b][s] # batchSizes[b][s]
    BY <2>1 DEF Count
  <2>3. ToCome(b, s) # 0
    BY <2>1, <2>2 DEF AddsUp, Count
  <2>4. Requested(b, s) # {} \/ Unsent(b, s) # {}
    BY <2>3, FS_EmptySet DEF ToCome
  <2>5. CASE Unsent(b, s) # {}
    BY <2>5 DEF Unsent, Attended, IdleLoop
  <2>6. CASE Requested(b, s) # {}
    <3>1. PICK id \in inFlight[s] : waitlist[id].batch = b
      BY <2>6 DEF Requested
    <3>2. id \in DOMAIN waitlist
      BY DEF TypeInv, Known
    <3>3. ~waitlist[id].canceled
      BY <3>1, <3>2 DEF CallsInv, WaitlistInv
    <3>4. QED BY <3>1, <3>2, <3>3 DEF Attended
  <2>7. QED BY <2>4, <2>5, <2>6
<1>2. QED BY <1>1, CallsHold, PTL

=============================================================================
