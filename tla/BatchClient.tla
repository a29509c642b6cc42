----------------------------- MODULE BatchClient -----------------------------
(***************************************************************************)
(* The JSON-RPC batching client of src/src/utils/batch/index.ts.           *)
(*                                                                         *)
(* Several callers run fetch() concurrently on one JavaScript thread.  A   *)
(* call stores its request in pendingRequests and waits for a debounced    *)
(* timer; when the timer fires every waiting call is resumed in turn, the  *)
(* first one posts all the pending requests in one HTTP request, and the   *)
(* others find the promise of that batch under their own request id.       *)
(*                                                                         *)
(* The event loop is explicit: micro is the queue of the continuations     *)
(* that are ready, and a new fetch(), the timer or a reply of the node can *)
(* only run once that queue is empty.                                      *)
(***************************************************************************)
EXTENDS Naturals, Sequences, FiniteSets

CONSTANTS
  Calls,      \* the invocations of fetch()
  IdChoices,  \* the third argument a caller may pass: ids, or NoId
  NoId,       \* no id given: the client makes one up
  NoCall,     \* no request, no result
  ReuseIds    \* whether a caller may pass again the id of a call that settled

ASSUME BatchAssumption ==
  /\ NoCall \notin Calls
  /\ ReuseIds \in BOOLEAN

VARIABLES
  requestId,  \* the counter behind the ids the client makes up
  pending,    \* pendingRequests: request id -> the call it belongs to
  promises,   \* batchPromises: request id -> number of the batch
  timer,      \* delayTimer is running
  delay,      \* the calls awaiting delayPromise; it is set iff there are some
  micro,      \* the calls whose continuation is ready, in order
  pc,         \* where each call is
  reqId,      \* the request id of each call that has started
  awaits,     \* the batch each call awaits, 0 for an undefined promise
  batches,    \* every POST made so far, with its reply
  result      \* the call whose request the received answer is for

vars == <<requestId, pending, promises, timer, delay, micro, pc, reqId,
          awaits, batches, result>>

EmptyFn == [x \in {} |-> NoCall]

Started(c) == pc[c] # "idle"
Settled(c) == pc[c] \in {"answered", "failed"}

\* The Id a request gets: the one given, or `batched_${++requestId}`.
IdFor(given) ==
  IF given = NoId THEN <<"batched", requestId + 1>> ELSE <<"given", given>>

------------------------------------------------------------------------------
(* fetch() up to its first await: addPendingRequest(), then wait(), which   *)
(* creates delayPromise if there is none and restarts the timer.            *)

\* Mutant: the request is dropped when one is pending already.
AddPendingRequestOnce(c, id) ==
  IF pending = EmptyFn THEN [i \in {id} |-> c] ELSE pending

\* Mutant: the requests are kept under themselves, not under their ids.
AddPendingByCall(c, id) ==
  [i \in DOMAIN pending \union {c} |-> IF i = c THEN c ELSE pending[i]]

AddPendingRequest(c, id) ==
  [i \in DOMAIN pending \union {id} |-> IF i = id THEN c ELSE pending[i]]

\* Mutant: a fetch that finds a delayPromise clears the timer and sets no other.
ClearTimerOnly == delay = <<>>

\* wait() clears a running timer and sets a new one.
RestartTimer == TRUE

\* The synchronous part of fetch().  It runs when no continuation is ready: the
\* only ones that touch pending are the woken calls, and nothing of the program
\* runs between those.  An id the client makes up is never checked against the
\* ids in use; a caller's own id is new, or that of a settled call (ReuseIds).
StartFetch(c, given) ==
  LET id == IdFor(given) IN
  /\ micro = <<>>
  /\ ~Started(c)
  /\ given # NoId => \A d \in Calls : reqId[d] = id => ReuseIds /\ Settled(d)
  /\ requestId' = IF given = NoId THEN requestId + 1 ELSE requestId
  /\ pending' = AddPendingRequest(c, id)
  /\ reqId' = [reqId EXCEPT ![c] = id]
  /\ timer' = RestartTimer
  /\ delay' = Append(delay, c)
  /\ pc' = [pc EXCEPT ![c] = "delayed"]
  /\ UNCHANGED <<promises, micro, awaits, batches, result>>

\* The callback of setTimeout: resolve delayPromise and forget it.
TimerFires ==
  /\ micro = <<>>
  /\ timer
  /\ timer' = FALSE
  /\ micro' = delay
  /\ delay' = <<>>
  /\ pc' = [c \in Calls |-> IF \E i \in DOMAIN delay : delay[i] = c
                            THEN "woken" ELSE pc[c]]
  /\ UNCHANGED <<requestId, pending, promises, reqId, awaits, batches, result>>

------------------------------------------------------------------------------
(* fetch() from the delay to `await this.batchPromises[requestId]`.  The    *)
(* pending requests are taken and cleared whether or not they are sent.     *)

\* Mutant: every resumed call posts a batch of its own.
NeverMine(c) == FALSE

Mine(c) == reqId[c] \in DOMAIN promises

NewBatch == [body |-> pending, waiters |-> <<>>, reply |-> "none", ids |-> {}]

WithWaiter(r, c) ==
  [body |-> r.body, waiters |-> Append(r.waiters, c), reply |-> r.reply, ids |-> r.ids]

WithReply(r, kind, ids) ==
  [body |-> r.body, waiters |-> r.waiters, reply |-> kind, ids |-> ids]

ClearPending == EmptyFn

\* The promises once c has resumed, and its own among them.
PromisesAfter(c) ==
  IF Mine(c) THEN promises
  ELSE [i \in DOMAIN pending \union DOMAIN promises |->
          IF i \in DOMAIN pending THEN Len(batches) + 1 ELSE promises[i]]

AwaitedBy(c) ==
  IF reqId[c] \in DOMAIN PromisesAfter(c) THEN PromisesAfter(c)[reqId[c]] ELSE 0

Sent(c) == IF Mine(c) THEN batches ELSE Append(batches, NewBatch)

\* An undefined or settled promise lets its call go on at once.
Ready(c) == AwaitedBy(c) = 0 \/ Sent(c)[AwaitedBy(c)].reply # "none"

Resume(c) ==
  /\ micro # <<>> /\ c = Head(micro)
  /\ pc[c] = "woken"
  /\ pending' = ClearPending
  /\ promises' = PromisesAfter(c)
  /\ awaits' = [awaits EXCEPT ![c] = AwaitedBy(c)]
  /\ \/ /\ Ready(c)
        /\ micro' = Append(Tail(micro), c)
        /\ pc' = [pc EXCEPT ![c] = "settling"]
        /\ batches' = Sent(c)
     \/ /\ ~Ready(c)
        /\ micro' = Tail(micro)
        /\ pc' = [pc EXCEPT ![c] = "awaiting"]
        /\ batches' = [Sent(c) EXCEPT ![AwaitedBy(c)] = WithWaiter(@, c)]
  /\ UNCHANGED <<requestId, timer, delay, reqId, result>>

------------------------------------------------------------------------------
(* The node, and the network: the promise of sendBatch() settles.  It is    *)
(* rejected when the POST or the decoding fails; an array holds answers to  *)
(* some of the requests; anything else has no find().                       *)

Reply(b) ==
  /\ micro = <<>>
  /\ b \in DOMAIN batches
  /\ batches[b].reply = "none"
  /\ \E kind \in {"rejected", "object", "array"} :
       \E ids \in IF kind = "array" THEN SUBSET DOMAIN batches[b].body ELSE {{}} :
         batches' = [batches EXCEPT ![b] = WithReply(@, kind, ids)]
  /\ micro' = batches[b].waiters
  /\ pc' = [c \in Calls |->
              IF \E i \in DOMAIN batches[b].waiters : batches[b].waiters[i] = c
              THEN "settling" ELSE pc[c]]
  /\ UNCHANGED <<requestId, pending, promises, timer, delay, reqId, awaits, result>>

------------------------------------------------------------------------------
(* The end of fetch(): a rejected promise throws before the id is deleted   *)
(* from batchPromises.                                                      *)

ReplyTo(c) == IF awaits[c] = 0 THEN "undefined" ELSE batches[awaits[c]].reply

Found(c) == ReplyTo(c) = "array" /\ reqId[c] \in batches[awaits[c]].ids

\* Mutant: the first answer of the batch, whatever its id.
FirstResult(c) ==
  batches[awaits[c]].body[CHOOSE i \in batches[awaits[c]].ids : TRUE]

\* results.find((res) => res.id === requestId)
FindResult(c) == batches[awaits[c]].body[reqId[c]]

\* Mutant: the promises are never deleted.
KeepPromise(c) == promises

DeletePromise(c) ==
  IF ReplyTo(c) = "rejected" THEN promises
  ELSE [i \in DOMAIN promises \ {reqId[c]} |-> promises[i]]

Settle(c) ==
  /\ micro # <<>> /\ c = Head(micro)
  /\ pc[c] = "settling"
  /\ micro' = Tail(micro)
  /\ promises' = DeletePromise(c)
  /\ \/ /\ Found(c)
        /\ pc' = [pc EXCEPT ![c] = "answered"]
        /\ result' = [result EXCEPT ![c] = FindResult(c)]
     \/ /\ ~Found(c)
        /\ pc' = [pc EXCEPT ![c] = "failed"]
        /\ UNCHANGED result
  /\ UNCHANGED <<requestId, pending, timer, delay, reqId, awaits, batches>>

------------------------------------------------------------------------------
Init ==
  /\ requestId = 0
  /\ pending = EmptyFn
  /\ promises = EmptyFn
  /\ timer = FALSE
  /\ delay = <<>>
  /\ micro = <<>>
  /\ pc = [c \in Calls |-> "idle"]
  /\ reqId = [c \in Calls |-> <<"none", 0>>]
  /\ awaits = [c \in Calls |-> 0]
  /\ batches = <<>>
  /\ result = [c \in Calls |-> NoCall]

Step ==
  \/ TimerFires
  \/ \E c \in Calls : Resume(c)
  \/ \E b \in DOMAIN batches : Reply(b)
  \/ \E c \in Calls : Settle(c)

Next == Step \/ \E c \in Calls, given \in IdChoices : StartFetch(c, given)

Spec == Init /\ [][Next]_vars

\* A timer that is running fires, ready continuations run, and every POST
\* settles in the end.  No caller is obliged to call fetch().
Fairness == WF_vars(Step)

FairSpec == Spec /\ Fairness
------------------------------------------------------------------------------
(* Properties *)

RequestIds == ({"batched"} \X Nat) \union ({"given"} \X IdChoices)

IsBatch(r) ==
  /\ DOMAIN r.body \subseteq RequestIds
  /\ r.body \in [DOMAIN r.body -> Calls]
  /\ r.waiters \in Seq(Calls)
  /\ r.reply \in {"none", "rejected", "object", "array"}
  /\ r.ids \subseteq DOMAIN r.body
  /\ r = [body |-> r.body, waiters |-> r.waiters, reply |-> r.reply, ids |-> r.ids]

BatchesAreASeq == batches \in Seq({batches[b] : b \in DOMAIN batches})

\* The types of the fields and maps of the client.
TypeOK ==
  /\ requestId \in Nat
  /\ DOMAIN pending \subseteq RequestIds
  /\ pending \in [DOMAIN pending -> Calls]
  /\ DOMAIN promises \subseteq RequestIds
  /\ promises \in [DOMAIN promises -> DOMAIN batches]
  /\ timer \in BOOLEAN
  /\ delay \in Seq(Calls)
  /\ micro \in Seq(Calls)
  /\ pc \in [Calls -> {"idle", "delayed", "woken", "awaiting", "settling",
                       "answered", "failed"}]
  /\ reqId \in [Calls -> RequestIds \union {<<"none", 0>>}]
  /\ awaits \in [Calls -> {0} \union DOMAIN batches]
  /\ BatchesAreASeq
  /\ \A b \in DOMAIN batches : IsBatch(batches[b])
  /\ result \in [Calls -> Calls \union {NoCall}]

\* A request that is waiting for its answer is not lost: before the timer it is
\* among the pending requests of a running timer; once its call has been woken
\* it is still there or in the batch its id leads to; and a call that awaits a
\* reply awaits a POST in flight that carries its request and will wake it.
NoRequestLost ==
  \A c \in Calls :
    /\ pc[c] = "delayed" =>
         timer /\ reqId[c] \in DOMAIN pending /\ pending[reqId[c]] = c
    /\ pc[c] = "woken" =>
         \/ reqId[c] \in DOMAIN pending /\ pending[reqId[c]] = c
         \/ /\ Mine(c)
            /\ promises[reqId[c]] \in DOMAIN batches
            /\ reqId[c] \in DOMAIN batches[promises[reqId[c]]].body
            /\ batches[promises[reqId[c]]].body[reqId[c]] = c
    /\ pc[c] = "awaiting" =>
         /\ awaits[c] \in DOMAIN batches
         /\ batches[awaits[c]].reply = "none"
         /\ \E i \in DOMAIN batches[awaits[c]].waiters :
              batches[awaits[c]].waiters[i] = c
         /\ reqId[c] \in DOMAIN batches[awaits[c]].body
         /\ batches[awaits[c]].body[reqId[c]] = c

\* fetch() returns the answer to the caller's own request, never that of another
\* call that shared the batch.
OwnAnswer == \A c \in Calls : result[c] \in {c, NoCall}

\* The requests that wait together share one POST: no request is posted twice,
\* and no POST is empty, whichever of the resumed calls takes the pending map.
PostedOnce ==
  /\ \A b \in DOMAIN batches : batches[b].body # EmptyFn
  /\ \A a, b \in DOMAIN batches :
       \A i \in DOMAIN batches[a].body, j \in DOMAIN batches[b].body :
         batches[a].body[i] = batches[b].body[j] => a = b /\ i = j

\* batchPromises does not grow without bound: an entry belongs to a call that has
\* not finished, or to one whose batch was rejected (that entry is never deleted).
PromisesBelong ==
  \A i \in DOMAIN promises : \E c \in Calls :
    /\ reqId[c] = i
    /\ pc[c] \in {"woken", "awaiting", "settling"} \/ ReplyTo(c) = "rejected"

\* Every fetch() settles, provided the timer fires and every POST settles.
EveryFetchSettles == \A c \in Calls : pc[c] = "delayed" ~> Settled(c)
==============================================================================
