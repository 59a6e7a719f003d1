------------------------------ MODULE Requests ------------------------------
(***************************************************************************)
(* The request engine of Context (context.rs) together with the part of    *)
(* the event loop (controller.rs) that consumes the language servers'      *)
(* answers.                                                                *)
(*                                                                         *)
(* A feature makes one "call": a batch of requests to one or more servers, *)
(* with one callback that runs when all of them have answered.  The        *)
(* callback owns the caller's response fifo, so a call that is neither     *)
(* answered nor dropped leaves a synchronous caller (a blocked editor)     *)
(* waiting.  Requests of the same kind (server, method, buffile, client)   *)
(* supersede each other: at most an oldest and a youngest stay alive, and  *)
(* the previous youngest is canceled.                                      *)
(*                                                                         *)
(* The event loop is one thread; the servers run beside it, so an answer   *)
(* may come at any time after its request was sent, in any order, but is   *)
(* handled only between two turns of the loop.  The loop in batch_call is  *)
(* modelled one iteration at a time (SendRequest), because the servers     *)
(* run beside it; no other step of the event loop is enabled meanwhile.    *)
(***************************************************************************)
EXTENDS Integers, Sequences, FiniteSets, Functions

CONSTANTS
  Server,        \* the language servers of the session
  Key,           \* (method, buffile, client) triples requests are made with
  RangeKey,      \* those whose method is textDocument/rangeFormatting
  SyncKey,       \* those whose caller blocks on a response fifo
  MaxSelections, \* most selections of one range formatting request
  MaxBatches,    \* bound: calls in a behaviour
  MaxRequests    \* bound: requests in a behaviour

ASSUME RequestsAssumption ==
  /\ Key # {}
  /\ RangeKey \subseteq Key
  /\ SyncKey \subseteq Key
  /\ MaxSelections \in Nat
  /\ MaxBatches \in Nat
  /\ MaxRequests \in Nat
  /\ IsFiniteSet(Server)

VARIABLES
  batchCount,      \* Context.batch_count
  requestCounter,  \* Context.request_counter
  batchSizes,      \* Context.batch_sizes: how many answers are expected of a server
  batches,         \* Context.batches: how many results of a server have arrived
  waitlist,        \* Context.response_waitlist
  outstanding,     \* Context.outstanding_requests; a vacant entry holds two NoId
  sending,         \* the call whose requests batch_call is sending
  inFlight,        \* the requests a server has been sent and not answered
  calls            \* history: what became of each call

vars == <<batchCount, requestCounter, batchSizes, batches, waitlist, outstanding,
          sending, inFlight, calls>>

-----------------------------------------------------------------------------

NoId == -1
Id == Nat
Count == [Server -> Nat]
Nothing == [s \in Server |-> 0]

Entry == [key : Key, batch : Nat, canceled : BOOLEAN]
Slot == [oldest : Id \cup {NoId}, youngest : Id \cup {NoId}]
Vacant == [oldest |-> NoId, youngest |-> NoId]

\* A call, as its caller sees it: what it asked for, which servers answered it
\* with an error, whether a request of it was canceled, and how it ended.
Call == [key : Key, asked : Count, failed : SUBSET Server, superseded : BOOLEAN,
         outcome : {"open", "callback", "dropped"}, results : Count]

\* The shapes of RequestParams the features build: a request for each of some
\* servers (none, if no server has the capability), or, for range formatting,
\* a request for every selection to the one server that was picked.
OpLists(k) ==
  IF k \in RangeKey
  THEN UNION {[1..n -> {s}] : n \in 1..MaxSelections, s \in Server}
  ELSE {o \in UNION {[1..n -> Server] : n \in 0..Cardinality(Server)} :
          IsInjective(o) /\ (k \in SyncKey => o # <<>>)}

\* batch_sizes' fold over the operations: how many there are for each server.
Tally(ops) == [s \in Server |-> Cardinality({i \in DOMAIN ops : ops[i] = s})]

IdleLoop == sending.ops = <<>>

-----------------------------------------------------------------------------
(***************************************************************************)
(* Outstanding requests of one kind.                                       *)
(***************************************************************************)

\* Mutation: requests of every method, buffer and client share a slot.
SlotOfServer(s, k) == <<s, CHOOSE x \in Key : TRUE>>

\* The key of outstanding_requests.
SlotOf(s, k) == <<s, k>>

\* Mutation: the new request takes the place of the oldest one.
AddReplacingOldest(slot, id) == [slot EXCEPT !.oldest = id]

\* add_outstanding_request: the slot with a new request in it.
AddOutstanding(slot, id) ==
  IF slot.oldest = NoId THEN [slot EXCEPT !.oldest = id]
                        ELSE [slot EXCEPT !.youngest = id]

\* add_outstanding_request: the request a new one makes superfluous.
Displaced(slot) == IF slot.oldest = NoId THEN NoId ELSE slot.youngest

\* remove_outstanding_request: an answered request leaves its slot; the youngest
\* takes the place of the oldest.  (The last case is the logged error.)
RemoveOutstanding(slot, id) ==
  IF slot.youngest = id THEN [slot EXCEPT !.youngest = NoId]
  ELSE IF slot.oldest = id THEN [oldest |-> slot.youngest, youngest |-> NoId]
  ELSE slot

-----------------------------------------------------------------------------
(***************************************************************************)
(* Sending a batch.                                                        *)
(***************************************************************************)

Init ==
  /\ batchCount = 0
  /\ requestCounter = 0
  /\ batchSizes = [b \in {} |-> Nothing]
  /\ batches = [b \in {} |-> Nothing]
  /\ waitlist = [id \in {} |-> NoId]
  /\ outstanding = [sk \in Server \X Key |-> Vacant]
  /\ sending = [batch |-> 0, key |-> CHOOSE k \in Key : TRUE, ops |-> <<>>]
  /\ inFlight = [s \in Server |-> {}]
  /\ calls = [b \in {} |-> NoId]

\* The caller of a synchronous call waits for its response fifo, which goes with
\* the callback, and asks for nothing meanwhile.
Blocked(c) == calls[c].key \in SyncKey /\ calls[c].outcome = "open"

\* Context::call and the first half of batch_call: number the batch, remember
\* its size and its callback.  Its requests are sent by SendRequest.
BatchCall(k, ops) ==
  /\ IdleLoop
  /\ \A c \in DOMAIN calls : calls[c].key = k => ~Blocked(c)
  /\ batchCount < MaxBatches
  /\ requestCounter + Len(ops) <= MaxRequests
  /\ LET b == batchCount IN
     /\ batchCount' = b + 1
     /\ batchSizes' = [c \in DOMAIN batchSizes \cup {b} |->
                         IF c = b THEN Tally(ops) ELSE batchSizes[c]]
     /\ batches' = [c \in DOMAIN batches \cup {b} |->
                      IF c = b THEN Nothing ELSE batches[c]]
     /\ sending' = [batch |-> b, key |-> k, ops |-> ops]
     /\ calls' = [c \in DOMAIN calls \cup {b} |->
                    IF c = b THEN [key |-> k, asked |-> Tally(ops), failed |-> {},
                                   superseded |-> FALSE, outcome |-> "open",
                                   results |-> Nothing]
                    ELSE calls[c]]
  /\ UNCHANGED <<requestCounter, waitlist, outstanding, inFlight>>

\* Mutation: the displaced request is dropped from its slot but not canceled.
CancelNothing(w, id) == w

\* Context::cancel: mark the request.  (The server is also told, but may answer
\* as it likes; the answer is ignored either way.  An id that is not in the
\* waitlist is the logged error.)
Cancel(w, id) ==
  [i \in DOMAIN w |-> IF i = id THEN [w[i] EXCEPT !.canceled = TRUE] ELSE w[i]]

\* One iteration of the loop in batch_call, with add_outstanding_request and
\* the cancellation it may cause.
SendRequest ==
  /\ ~IdleLoop
  /\ LET s == Head(sending.ops)
         id == requestCounter
         slot == outstanding[SlotOf(s, sending.key)]
         victim == Displaced(slot)
         entry == [key |-> sending.key, batch |-> sending.batch, canceled |-> FALSE]
     IN
     /\ requestCounter' = id + 1
     /\ waitlist' = Cancel([i \in DOMAIN waitlist \cup {id} |->
                              IF i = id THEN entry ELSE waitlist[i]], victim)
     /\ outstanding' = [outstanding EXCEPT ![SlotOf(s, sending.key)] = AddOutstanding(slot, id)]
     /\ inFlight' = [inFlight EXCEPT ![s] = @ \cup {id}]
     /\ calls' = IF victim \in DOMAIN waitlist
                 THEN [calls EXCEPT ![waitlist[victim].batch].superseded = TRUE]
                 ELSE calls
     /\ sending' = [sending EXCEPT !.ops = Tail(@)]
  /\ UNCHANGED <<batchCount, batchSizes, batches>>

-----------------------------------------------------------------------------
(***************************************************************************)
(* The answers.                                                            *)
(***************************************************************************)

\* Mutation: the last answer is not waited for.
CompleteEarly(got, size) == SumFunction(got) + 1 >= SumFunction(size)

\* Mutation: one answer more than was asked for is waited for.
CompleteLate(got, size) == SumFunction(got) > SumFunction(size)

\* vals.len() >= batch_size
Complete(got, size) == SumFunction(got) >= SumFunction(size)

Without(f, x) == [i \in DOMAIN f \ {x} |-> f[i]]

\* Mutation: the size of a batch that has ended is left behind.
EndBatchKeepingSize(b, outcome, got, failed) ==
  /\ batches' = Without(batches, b)
  /\ calls' = [calls EXCEPT ![b] = [@ EXCEPT !.outcome = outcome, !.results = got,
                                            !.failed = failed]]
  /\ UNCHANGED batchSizes

\* The batch leaves both maps: its callback runs, or is dropped with it.
EndBatch(b, outcome, got, failed) ==
  /\ batches' = Without(batches, b)
  /\ batchSizes' = Without(batchSizes, b)
  /\ calls' = [calls EXCEPT ![b] = [@ EXCEPT !.outcome = outcome, !.results = got,
                                            !.failed = failed]]

\* Its callback runs if that was the last answer; else the batch goes back into
\* both maps.
ContinueBatch(b, got, size, failed) ==
  IF Complete(got, size)
  THEN EndBatch(b, "callback", got, failed)
  ELSE /\ batches' = [batches EXCEPT ![b] = got]
       /\ batchSizes' = [batchSizes EXCEPT ![b] = size]
       /\ calls' = [calls EXCEPT ![b].failed = failed]

\* What every answer does first: it leaves the waitlist, and the slot of its
\* kind unless it was canceled.
TakeAnswer(s, id) ==
  /\ IdleLoop
  /\ id \in inFlight[s]
  /\ inFlight' = [inFlight EXCEPT ![s] = @ \ {id}]
  /\ waitlist' = Without(waitlist, id)
  /\ outstanding' =
       IF waitlist[id].canceled THEN outstanding
       ELSE [outstanding EXCEPT ![SlotOf(s, waitlist[id].key)] = RemoveOutstanding(@, id)]
  /\ UNCHANGED <<batchCount, requestCounter, sending>>

\* The answer to a canceled request, and an answer whose batch an error has
\* already ended, change nothing else.
IgnoredAnswer(s, id) ==
  /\ TakeAnswer(s, id)
  /\ waitlist[id].canceled \/ waitlist[id].batch \notin DOMAIN batches
  /\ UNCHANGED <<batches, batchSizes, calls>>

\* Output::Success
Success(s, id) ==
  /\ TakeAnswer(s, id)
  /\ ~waitlist[id].canceled
  /\ LET b == waitlist[id].batch IN
     /\ b \in DOMAIN batches
     /\ ContinueBatch(b, [batches[b] EXCEPT ![s] = @ + 1], batchSizes[b], calls[b].failed)

\* Output::Failure: the failing server's results leave the batch ...
FilterResults(got, s) == [got EXCEPT ![s] = 0]

\* Mutation: the answers of the failing server are still waited for.
StillExpect(size, s) == size

\* ... and so does what was expected of it.
StopExpecting(size, s) == [size EXCEPT ![s] = 0]

\* Output::Failure.  The batch goes on with the other servers, if there are any;
\* else it is dropped (and the error is shown, unless it is to be ignored).
Failure(s, id) ==
  /\ TakeAnswer(s, id)
  /\ ~waitlist[id].canceled
  /\ LET b == waitlist[id].batch
         size == StopExpecting(batchSizes[b], s)
         got == FilterResults(batches[b], s)
     IN
     /\ b \in DOMAIN batches
     /\ IF size # Nothing
        THEN ContinueBatch(b, got, size, calls[b].failed \cup {s})
        ELSE EndBatch(b, "dropped", Nothing, calls[b].failed \cup {s})

RequestIds == 0..MaxRequests - 1

\* Within the bounds, nothing is left to do.
Quiescent ==
  /\ IdleLoop
  /\ \A s \in Server : inFlight[s] = {}
  /\ UNCHANGED vars

Next ==
  \/ \E k \in Key : \E ops \in OpLists(k) : BatchCall(k, ops)
  \/ SendRequest
  \/ \E s \in Server, id \in RequestIds :
       IgnoredAnswer(s, id) \/ Success(s, id) \/ Failure(s, id)
  \/ Quiescent

Spec == Init /\ [][Next]_vars

\* The event loop finishes the turn it is in, and a server answers every request
\* it is sent (JSON-RPC obliges it to, canceled or not).
FairSpec ==
  /\ Spec
  /\ WF_vars(SendRequest)
  /\ \A s \in Server, id \in RequestIds :
       WF_vars(IgnoredAnswer(s, id) \/ Success(s, id) \/ Failure(s, id))

-----------------------------------------------------------------------------
(***************************************************************************)
(* Properties.                                                             *)
(***************************************************************************)

\* Type invariant: every variable stays in its range and the four maps keep
\* their keys below the counters that number them.
TypeOK ==
  /\ batchCount \in Nat /\ requestCounter \in Nat
  /\ DOMAIN batches \subseteq 0..batchCount - 1
  /\ DOMAIN batchSizes = DOMAIN batches
  /\ \A b \in DOMAIN batches : batches[b] \in Count /\ batchSizes[b] \in Count
  /\ DOMAIN waitlist \subseteq 0..requestCounter - 1
  /\ \A id \in DOMAIN waitlist : waitlist[id] \in Entry
  /\ outstanding \in [Server \X Key -> Slot]
  /\ sending \in [batch : Nat, key : Key, ops : Seq(Server)]
  /\ inFlight \in [Server -> SUBSET Nat]
  /\ DOMAIN calls = 0..batchCount - 1
  /\ \A b \in DOMAIN calls : calls[b] \in Call

\* The requests of a kind that an answer is still wanted for: in flight and not
\* canceled.
Live(s, k) == {id \in inFlight[s] : waitlist[id].key = k /\ ~waitlist[id].canceled}

\* The two places of a slot name exactly the live requests of that kind, the
\* youngest only beside an older one, and the waitlist holds exactly the requests
\* in flight.  So "Not in outstanding requests" and "Failed to cancel request"
\* are never logged, and a client never has more than two live requests of a kind
\* (context.rs 437-500).
OutstandingIsLive ==
  /\ DOMAIN waitlist = UNION {inFlight[s] : s \in Server}
  /\ \A s \in Server, k \in Key :
       LET slot == outstanding[<<s, k>>] IN
       /\ Live(s, k) = {slot.oldest, slot.youngest} \ {NoId}
       /\ slot.youngest # NoId => slot.oldest # NoId /\ slot.oldest < slot.youngest

\* A callback sees every result of every server that has not failed and nothing
\* of those that have, and a call is dropped without its callback only when all
\* the servers it asked have failed (controller.rs 1069-1082, 1122-1159).
OutcomeFaithful ==
  \A b \in DOMAIN calls :
    LET c == calls[b] IN
    /\ c.outcome = "callback" =>
         c.results = [s \in Server |-> IF s \in c.failed THEN 0 ELSE c.asked[s]]
    /\ c.outcome = "dropped" => {s \in Server : c.asked[s] > 0} \subseteq c.failed

\* A call is left waiting for nothing only if it asked for nothing or one of its
\* requests was superseded: any other open call has a request whose answer will
\* still be accepted.
Attended(b) ==
  \/ sending.batch = b /\ ~IdleLoop
  \/ \E id \in DOMAIN waitlist : waitlist[id].batch = b /\ ~waitlist[id].canceled

OpenCallAttended ==
  \A b \in DOMAIN calls :
    calls[b].outcome = "open" =>
      Attended(b) \/ calls[b].superseded \/ calls[b].asked = Nothing

\* A call is superseded only by a later call of the same kind, so the last word
\* of a client is never canceled.  (Range formatting, which sends several
\* requests of one kind in one call, is the exception: see SyncCallAttended.)
SupersededByLater ==
  \A b \in DOMAIN calls :
    calls[b].superseded /\ calls[b].key \notin RangeKey =>
      \E c \in DOMAIN calls :
        c > b /\ calls[c].key = calls[b].key

\* The oldest request of a kind is never canceled and keeps its place until its
\* own answer arrives: however fast a client repeats itself, some answer gets
\* through (the reason for keeping two, context.rs 437-471).
OldestSurvives ==
  [][\A s \in Server, k \in Key :
       LET id == outstanding[<<s, k>>].oldest IN
       id # NoId /\ outstanding'[<<s, k>>].oldest # id =>
         id \in inFlight[s] /\ id \notin inFlight'[s]]_vars

\* Every call that asked for something ends, unless one of its requests is
\* superseded.
CallsEnd ==
  \A b \in 0..MaxBatches - 1 :
    (b \in DOMAIN calls /\ calls[b].asked # Nothing) ~>
      (b \in DOMAIN calls /\ (calls[b].outcome # "open" \/ calls[b].superseded))

\* What ResponseFifo's Drop promises (types.rs 299-301): a caller blocked on its
\* response fifo is answered in every case, so while it is blocked there is an
\* answer to come that will be accepted.
SyncCallAttended ==
  \A b \in DOMAIN calls : Blocked(b) => Attended(b)

=============================================================================
