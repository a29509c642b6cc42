--------------------------- MODULE BatchClientProof ---------------------------
(***************************************************************************)
(* The safety of the batching client, for every set of calls and ids.      *)
(***************************************************************************)
EXTENDS BatchRefinement, SequenceTheorems, TLAPS

In(s, c) == \E i \in DOMAIN s : s[i] = c

\* Call c is request i of batch b.
Carries(b, i, c) ==
  /\ b \in DOMAIN batches
  /\ i \in DOMAIN batches[b].body
  /\ batches[b].body[i] = c

\* An id stands for one call, and the counter is ahead of every id made up.
IdInv ==
  /\ \A c \in Calls : reqId[c] = <<"none", 0>> <=> ~Started(c)
  /\ \A c, d \in Calls : Started(c) /\ reqId[c] = reqId[d] => c = d
  /\ \A c \in Calls : reqId[c][1] = "batched" => reqId[c][2] <= requestId

\* The queues hold the calls whose pc says so.
QueueInv ==
  /\ timer <=> delay # <<>>
  /\ \A c \in Calls : pc[c] = "delayed" <=> In(delay, c)
  /\ \A c \in Calls : pc[c] \in {"woken", "settling"} => In(micro, c)
  /\ \A c \in Calls : pc[c] = "woken" => delay = <<>>

\* A pending request belongs to a call that has not resumed; the promise of a
\* batch is never found by a call that is still delayed, and once one woken call
\* finds it the pending requests have been taken.
PendingInv ==
  /\ \A i \in DOMAIN pending :
       reqId[pending[i]] = i /\ pc[pending[i]] \in {"delayed", "woken"}
  /\ \A c \in Calls :
       pc[c] = "delayed" => reqId[c] \in DOMAIN pending /\ pending[reqId[c]] = c
  /\ \A c \in Calls :
       pc[c] = "woken" =>
         \/ reqId[c] \in DOMAIN pending /\ pending[reqId[c]] = c
         \/ Mine(c)
  /\ \A c \in Calls : pc[c] = "woken" /\ Mine(c) =>
       pending = EmptyFn /\ Carries(promises[reqId[c]], reqId[c], c)

\* A posted request belongs to a call that has been woken, and until that call
\* resumes the promise of the batch is kept for it.
BatchInv ==
  /\ \A b \in DOMAIN batches :
       /\ batches[b].body # EmptyFn
       /\ \A i \in DOMAIN batches[b].body :
            /\ reqId[batches[b].body[i]] = i
            /\ pc[batches[b].body[i]] \notin {"idle", "delayed"}
            /\ pc[batches[b].body[i]] = "woken" => i \in DOMAIN promises
  /\ \A a, b \in DOMAIN batches :
       \A i \in DOMAIN batches[a].body, j \in DOMAIN batches[b].body :
         batches[a].body[i] = batches[b].body[j] => a = b

\* A call that has resumed awaits the batch that carries its request.
AwaitInv ==
  /\ \A c \in Calls :
       pc[c] \in {"awaiting", "settling", "answered", "failed"} =>
         Carries(awaits[c], reqId[c], c)
  /\ \A c \in Calls :
       pc[c] = "awaiting" => batches[awaits[c]].reply = "none"
                             /\ In(batches[awaits[c]].waiters, c)
  /\ \A c \in Calls : pc[c] \in {"idle", "delayed", "woken"} => awaits[c] = 0
  /\ \A b \in DOMAIN batches, c \in Calls :
       batches[b].reply = "none" /\ In(batches[b].waiters, c) =>
         pc[c] = "awaiting" /\ awaits[c] = b

IInv ==
  /\ TypeOK
  /\ IdInv
  /\ QueueInv
  /\ PendingInv
  /\ BatchInv
  /\ AwaitInv
  /\ OwnAnswer
  /\ PromisesBelong
------------------------------------------------------------------------------
\* The members of a queue after an append, and after its head is taken.
LEMMA InAppend ==
  ASSUME NEW S, NEW s \in Seq(S), NEW e \in S, NEW c
  PROVE  /\ Append(s, e) \in Seq(S)
         /\ Append(s, e) # <<>>
         /\ In(Append(s, e), c) <=> In(s, c) \/ c = e
<1>1. /\ Append(s, e) \in Seq(S)
      /\ Len(Append(s, e)) = Len(s) + 1
      /\ DOMAIN Append(s, e) = 1 .. Len(s) + 1
      /\ DOMAIN s = 1 .. Len(s)
      /\ \A i \in 1 .. Len(s) : Append(s, e)[i] = s[i]
      /\ Append(s, e)[Len(s) + 1] = e
      /\ Len(s) \in Nat
  OBVIOUS
<1>2. Append(s, e) # <<>>
  BY <1>1
<1>3. CASE In(s, c)
  BY <1>1, <1>3 DEF In
<1>4. CASE ~In(s, c)
  BY <1>1, <1>4 DEF In
<1> QED BY <1>1, <1>2, <1>3, <1>4

LEMMA InTail ==
  ASSUME NEW S, NEW s \in Seq(S), s # <<>>, NEW c
  PROVE  /\ Tail(s) \in Seq(S)
         /\ Head(s) \in S
         /\ In(s, c) => c = Head(s) \/ In(Tail(s), c)
<1>1. /\ Tail(s) \in Seq(S)
      /\ Head(s) = s[1]
      /\ 1 \in DOMAIN s
      /\ DOMAIN Tail(s) = 1 .. Len(s) - 1
      /\ \A i \in 1 .. Len(s) - 1 : Tail(s)[i] = s[i + 1]
      /\ Len(s) \in Nat
      /\ DOMAIN s = 1 .. Len(s)
  OBVIOUS
<1>2. ASSUME In(s, c), c # Head(s) PROVE In(Tail(s), c)
  <2>1. PICK i \in 1 .. Len(s) : s[i] = c
    BY <1>1, <1>2 DEF In
  <2>2. i - 1 \in 1 .. Len(s) - 1 /\ Tail(s)[i - 1] = c
    BY <1>1, <1>2, <2>1
  <2> QED BY <1>1, <2>2 DEF In
<1> QED BY <1>1, <1>2

LEMMA InNotEmpty ==
  ASSUME NEW s, NEW c, In(s, c)
  PROVE  s # <<>>
BY DEF In

\* A sequence over some set is one over its own elements.
LEMMA SeqOfElements ==
  ASSUME NEW T, NEW s \in Seq(T)
  PROVE  /\ s \in Seq({s[i] : i \in DOMAIN s})
         /\ Len(s) \in Nat
         /\ DOMAIN s = 1 .. Len(s)
<1>1. Len(s) \in Nat /\ DOMAIN s = 1 .. Len(s)
  OBVIOUS
<1>2. \A i \in 1 .. Len(s) : s[i] \in {s[j] : j \in DOMAIN s}
  BY <1>1
<1> QED BY <1>1, <1>2

\* The initial state.
LEMMA InitIInv == Init => IInv
<1> SUFFICES ASSUME Init PROVE IInv
  OBVIOUS
<1> USE DEF Init, EmptyFn
<1>1. TypeOK
  <2>1. DOMAIN pending = {} /\ DOMAIN promises = {}
    OBVIOUS
  <2>2. \A T : [x \in {} |-> NoCall] \in [{} -> T]
    OBVIOUS
  <2>3. delay \in Seq(Calls) /\ micro \in Seq(Calls)
    OBVIOUS
  <2>4. DOMAIN batches = {} /\ \A T : batches \in Seq(T)
    OBVIOUS
  <2>5. \A T : pending \in [{} -> T] /\ promises \in [{} -> T]
    BY <2>2
  <2>6. DOMAIN pending \subseteq RequestIds /\ DOMAIN promises \subseteq RequestIds
    BY <2>1
  <2>7. pc \in [Calls -> {"idle", "delayed", "woken", "awaiting", "settling",
                         "answered", "failed"}]
    OBVIOUS
  <2>8. /\ reqId \in [Calls -> RequestIds \union {<<"none", 0>>}]
        /\ awaits \in [Calls -> {0} \union DOMAIN batches]
        /\ result \in [Calls -> Calls \union {NoCall}]
    OBVIOUS
  <2> QED BY ONLY Init, <2>1, <2>3, <2>4, <2>5, <2>6, <2>7, <2>8 DEF TypeOK, Init, BatchesAreASeq
<1>2. IdInv
  BY DEF IdInv, Started
<1>3. QueueInv
  BY DEF QueueInv, In
<1>4. PendingInv /\ BatchInv /\ AwaitInv
  BY DEF PendingInv, BatchInv, AwaitInv
<1>5. OwnAnswer /\ PromisesBelong
  BY DEF OwnAnswer, PromisesBelong
<1> QED BY <1>1, <1>2, <1>3, <1>4, <1>5 DEF IInv

\* fetch() up to its first await.
LEMMA StartFetchIInv ==
  ASSUME IInv, ~ReuseIds, NEW c \in Calls, NEW given \in IdChoices, StartFetch(c, given)
  PROVE  IInv'
<1> DEFINE id == IdFor(given)
<1>0. /\ TypeOK /\ IdInv /\ QueueInv /\ PendingInv /\ BatchInv /\ AwaitInv
      /\ OwnAnswer /\ PromisesBelong
  BY DEF IInv
<1>1. id \in RequestIds /\ id # <<"none", 0>>
  BY <1>0 DEF IdFor, RequestIds, TypeOK
<1>2. \A d \in Calls : reqId[d] # id
  <2>1. CASE given = NoId
    BY <1>0, <2>1 DEF IdFor, IdInv, TypeOK, RequestIds
  <2>2. CASE given # NoId
    BY <1>0, <2>2 DEF StartFetch
  <2> QED BY <2>1, <2>2
<1>3. pc[c] = "idle" /\ micro = <<>>
  BY DEF StartFetch, Started
<1>4. \A d \in Calls : In(delay', d) <=> In(delay, d) \/ d = c
  BY <1>0, InAppend DEF StartFetch, TypeOK
<1>5. delay' \in Seq(Calls) /\ delay' # <<>>
  BY <1>0, InAppend DEF StartFetch, TypeOK
<1>6. \A d \in Calls : pc[d] \notin {"woken", "settling"}
  BY <1>0, <1>3, InNotEmpty DEF QueueInv
<1>7. /\ DOMAIN pending' = DOMAIN pending \union {id}
      /\ id \notin DOMAIN pending
      /\ pending'[id] = c
      /\ \A i \in DOMAIN pending : pending'[i] = pending[i]
      /\ pending' \in [DOMAIN pending' -> Calls]
  BY <1>0, <1>2 DEF StartFetch, AddPendingRequest, PendingInv, TypeOK
<1>8. /\ UNCHANGED <<promises, micro, awaits, batches, result>>
      /\ timer' = TRUE
      /\ reqId' = [reqId EXCEPT ![c] = id]
      /\ pc' = [pc EXCEPT ![c] = "delayed"]
  BY DEF StartFetch, RestartTimer
<1>t. /\ pc \in [Calls -> {"idle", "delayed", "woken", "awaiting", "settling",
                           "answered", "failed"}]
      /\ reqId \in [Calls -> RequestIds \union {<<"none", 0>>}]
      /\ pending \in [DOMAIN pending -> Calls]
      /\ \A b \in DOMAIN batches : batches[b].body \in [DOMAIN batches[b].body -> Calls]
  BY <1>0 DEF TypeOK, IsBatch
<1>9. TypeOK'
  <2>1. BatchesAreASeq'
    BY <1>0, <1>8 DEF TypeOK, BatchesAreASeq
  <2> QED BY <1>0, <1>1, <1>5, <1>7, <1>8, <2>1 DEF TypeOK, IsBatch, StartFetch
<1>10. IdInv'
  <2>1. requestId' \in Nat /\ requestId' >= requestId
    BY <1>0 DEF StartFetch, TypeOK
  <2>2. id[1] = "batched" => id[2] <= requestId'
    BY <1>0 DEF StartFetch, IdFor, TypeOK
  <2>3. \A d \in Calls : reqId[d][1] = "batched" => reqId[d][2] \in Nat
    BY <1>t DEF RequestIds
  <2>4. requestId \in Nat
    BY <1>0 DEF TypeOK
  <2>5. \A d \in Calls : reqId'[d][1] = "batched" => reqId'[d][2] <= requestId'
    BY <1>0, <1>8, <1>t, <2>1, <2>2, <2>3, <2>4 DEF IdInv
  <2> QED BY <1>0, <1>1, <1>2, <1>3, <1>8, <1>t, <2>5 DEF IdInv, Started
<1>11. QueueInv'
  BY <1>0, <1>3, <1>4, <1>5, <1>6, <1>8, <1>t DEF QueueInv
<1>12. PendingInv'
  <2>1. \A i \in DOMAIN pending : pending[i] # c
    BY <1>0, <1>3 DEF PendingInv
  <2> QED BY <1>0, <1>3, <1>6, <1>7, <1>8, <1>t, <2>1 DEF PendingInv, Mine
<1>13. BatchInv'
  <2>1. \A b \in DOMAIN batches : \A i \in DOMAIN batches[b].body :
          batches[b].body[i] # c
    BY <1>0, <1>3 DEF BatchInv
  <2> QED BY <1>0, <1>8, <1>t, <2>1 DEF BatchInv
<1>14. AwaitInv'
  BY <1>0, <1>3, <1>8, <1>t DEF AwaitInv, Carries
<1>15. OwnAnswer'
  BY <1>0, <1>8 DEF OwnAnswer
<1>16. PromisesBelong'
  <2> SUFFICES ASSUME NEW i \in DOMAIN promises
               PROVE  \E d \in Calls :
                        /\ reqId'[d] = i
                        /\ pc'[d] \in {"woken", "awaiting", "settling"}
                           \/ ReplyTo(d)' = "rejected"
    BY <1>8 DEF PromisesBelong
  <2>1. PICK d \in Calls :
          /\ reqId[d] = i
          /\ pc[d] \in {"woken", "awaiting", "settling"} \/ ReplyTo(d) = "rejected"
    BY <1>0 DEF PromisesBelong
  <2>2. i # <<"none", 0>>
    BY <1>0 DEF TypeOK, RequestIds
  <2>3. d # c
    BY <1>0, <1>3, <2>1, <2>2 DEF IdInv, Started
  <2>4. ReplyTo(d)' = ReplyTo(d)
    BY <1>8 DEF ReplyTo
  <2> QED BY <1>8, <1>t, <2>1, <2>3, <2>4
<1> QED BY <1>9, <1>10, <1>11, <1>12, <1>13, <1>14, <1>15, <1>16 DEF IInv

\* The timer fires: the delayed calls become the ready ones.
LEMMA TimerFiresIInv ==
  ASSUME IInv, TimerFires
  PROVE  IInv'
<1>0. /\ TypeOK /\ IdInv /\ QueueInv /\ PendingInv /\ BatchInv /\ AwaitInv
      /\ OwnAnswer /\ PromisesBelong
  BY DEF IInv
<1>t. /\ pc \in [Calls -> {"idle", "delayed", "woken", "awaiting", "settling",
                           "answered", "failed"}]
      /\ pending \in [DOMAIN pending -> Calls]
      /\ \A b \in DOMAIN batches : batches[b].body \in [DOMAIN batches[b].body -> Calls]
  BY <1>0 DEF TypeOK, IsBatch
<1>1. /\ UNCHANGED <<requestId, pending, promises, reqId, awaits, batches, result>>
      /\ micro = <<>> /\ micro' = delay /\ delay' = <<>>
      /\ timer' = FALSE
  BY DEF TimerFires
<1>2. \A c \in Calls : pc'[c] = IF pc[c] = "delayed" THEN "woken" ELSE pc[c]
  BY <1>0 DEF TimerFires, QueueInv, In
<1>3. pc' \in [Calls -> {"idle", "delayed", "woken", "awaiting", "settling",
                         "answered", "failed"}]
  BY <1>t DEF TimerFires
<1>4. \A c \in Calls : pc[c] \notin {"woken", "settling"}
  BY <1>0, <1>1, InNotEmpty DEF QueueInv
<1>5. \A c \in Calls : pc[c] = "delayed" => ~Mine(c)
  <2> SUFFICES ASSUME NEW c \in Calls, pc[c] = "delayed", Mine(c) PROVE FALSE
    OBVIOUS
  <2>1. PICK d \in Calls :
          /\ reqId[d] = reqId[c]
          /\ pc[d] \in {"woken", "awaiting", "settling"} \/ ReplyTo(d) = "rejected"
    BY <1>0 DEF PromisesBelong, Mine
  <2>2. c = d
    BY <1>0, <2>1 DEF IdInv, Started
  <2> QED BY <1>0, <2>1, <2>2 DEF AwaitInv, ReplyTo
<1>9. TypeOK'
  <2>1. BatchesAreASeq'
    BY <1>0, <1>1 DEF TypeOK, BatchesAreASeq
  <2> QED BY <1>0, <1>1, <1>3, <2>1 DEF TypeOK, IsBatch
<1>10. IdInv'
  BY <1>0, <1>1, <1>2 DEF IdInv, Started
<1>11. QueueInv'
  <2>1. \A c \in Calls : ~In(<<>>, c)
    BY DEF In
  <2> QED BY <1>0, <1>1, <1>2, <1>4, <2>1 DEF QueueInv
<1>12. PendingInv'
  BY <1>0, <1>1, <1>2, <1>4, <1>5, <1>t DEF PendingInv, Mine
<1>13. BatchInv'
  <2>1. \A b \in DOMAIN batches : \A i \in DOMAIN batches[b].body :
          /\ batches[b].body[i] \in Calls
          /\ pc[batches[b].body[i]] \notin {"delayed", "woken"}
    BY <1>0, <1>4, <1>t DEF BatchInv
  <2> QED BY <1>0, <1>1, <1>2, <2>1 DEF BatchInv
<1>14. AwaitInv'
  BY <1>0, <1>1, <1>2 DEF AwaitInv, Carries
<1>15. OwnAnswer'
  BY <1>0, <1>1 DEF OwnAnswer
<1>16. PromisesBelong'
  BY <1>0, <1>1, <1>2 DEF PromisesBelong, ReplyTo
<1> QED BY <1>9, <1>10, <1>11, <1>12, <1>13, <1>14, <1>15, <1>16 DEF IInv

\* The reply to a batch: the calls that wait for it become the ready ones.
LEMMA ReplyIInv ==
  ASSUME IInv, NEW b \in DOMAIN batches, Reply(b)
  PROVE  IInv'
<1>0. /\ TypeOK /\ IdInv /\ QueueInv /\ PendingInv /\ BatchInv /\ AwaitInv
      /\ OwnAnswer /\ PromisesBelong
  BY DEF IInv
<1>t. /\ pc \in [Calls -> {"idle", "delayed", "woken", "awaiting", "settling",
                           "answered", "failed"}]
      /\ \A a \in DOMAIN batches : IsBatch(batches[a])
      /\ awaits \in [Calls -> {0} \union DOMAIN batches]
  BY <1>0 DEF TypeOK
<1>1. /\ UNCHANGED <<requestId, pending, promises, timer, delay, reqId, awaits, result>>
      /\ micro = <<>> /\ micro' = batches[b].waiters
      /\ batches[b].reply = "none"
  BY DEF Reply
<1>2. PICK kind \in {"rejected", "object", "array"}, ids \in SUBSET DOMAIN batches[b].body :
        batches' = [batches EXCEPT ![b] = WithReply(@, kind, ids)]
  BY DEF Reply
<1> DEFINE e == [body |-> batches[b].body, waiters |-> batches[b].waiters,
                 reply |-> kind, ids |-> ids]
<1>3. /\ DOMAIN batches' = DOMAIN batches
      /\ \A a \in DOMAIN batches \ {b} : batches'[a] = batches[a]
      /\ batches'[b] = e
      /\ BatchesAreASeq'
  <2>7. batches' = [batches EXCEPT ![b] = e]
    BY <1>2 DEF WithReply
  <2> DEFINE S == {batches[a] : a \in DOMAIN batches}
             T == S \union {e}
  <2>3. batches \in Seq(S) /\ DOMAIN batches = 1 .. Len(batches)
    BY <1>0, SeqOfElements DEF TypeOK, BatchesAreASeq
  <2>4. batches \in Seq(T) /\ e \in T
    BY <2>3, SeqMonotonic, S \subseteq T
  <2> HIDE DEF e, S, T
  <2>5. batches' \in Seq(T)
    BY <2>7, <2>3, <2>4, ExceptSeq
  <2>6. BatchesAreASeq'
    BY <2>5, SeqOfElements DEF BatchesAreASeq
  <2> QED BY <2>6, <2>7
<1>4. \A a \in DOMAIN batches :
        /\ batches'[a].body = batches[a].body
        /\ batches'[a].waiters = batches[a].waiters
        /\ batches'[a].reply = IF a = b THEN kind ELSE batches[a].reply
  BY <1>3
<1>5. \A c \in Calls : pc'[c] = IF In(batches[b].waiters, c) THEN "settling" ELSE pc[c]
  BY DEF Reply, In
<1>6. pc' \in [Calls -> {"idle", "delayed", "woken", "awaiting", "settling",
                         "answered", "failed"}]
  BY <1>t DEF Reply
<1>7. \A c \in Calls : pc[c] \notin {"woken", "settling"}
  BY <1>0, <1>1, InNotEmpty DEF QueueInv
<1>8. \A c \in Calls : In(batches[b].waiters, c) => pc[c] = "awaiting" /\ awaits[c] = b
  BY <1>0, <1>1 DEF AwaitInv
<1>9. TypeOK'
  <2>1. \A a \in DOMAIN batches' : IsBatch(batches'[a])
    BY <1>t, <1>2, <1>3 DEF IsBatch
  <2> QED BY <1>0, <1>t, <1>1, <1>3, <1>6, <2>1 DEF TypeOK, IsBatch
<1>10. IdInv'
  BY <1>0, <1>1, <1>5, <1>8 DEF IdInv, Started
<1>11. QueueInv'
  BY <1>0, <1>1, <1>5, <1>7, <1>8 DEF QueueInv
<1>12. PendingInv'
  <2>1. \A i \in DOMAIN pending : pending[i] \in Calls
    BY <1>0 DEF TypeOK
  <2> QED BY <1>0, <1>1, <1>5, <1>7, <1>8, <2>1 DEF PendingInv, Mine
<1>13. BatchInv'
  <2>1. \A a \in DOMAIN batches : \A i \in DOMAIN batches[a].body :
          batches[a].body[i] \in Calls
    BY <1>t DEF IsBatch
  <2> QED BY <1>0, <1>1, <1>3, <1>4, <1>5, <1>7, <1>8, <2>1 DEF BatchInv
<1>14. AwaitInv'
  BY <1>0, <1>t, <1>1, <1>3, <1>4, <1>5, <1>7, <1>8 DEF AwaitInv, Carries
<1>15. OwnAnswer'
  BY <1>0, <1>1 DEF OwnAnswer
<1>16. PromisesBelong'
  BY <1>0, <1>t, <1>1, <1>3, <1>4, <1>5, <1>8 DEF PromisesBelong, ReplyTo
<1> QED BY <1>9, <1>10, <1>11, <1>12, <1>13, <1>14, <1>15, <1>16 DEF IInv

\* The end of a fetch().
LEMMA SettleIInv ==
  ASSUME IInv, NEW c \in Calls, Settle(c)
  PROVE  IInv'
<1>0. /\ TypeOK /\ IdInv /\ QueueInv /\ PendingInv /\ BatchInv /\ AwaitInv
      /\ OwnAnswer /\ PromisesBelong
  BY DEF IInv
<1>t. /\ pc \in [Calls -> {"idle", "delayed", "woken", "awaiting", "settling",
                           "answered", "failed"}]
      /\ \A a \in DOMAIN batches : IsBatch(batches[a])
      /\ awaits \in [Calls -> {0} \union DOMAIN batches]
      /\ result \in [Calls -> Calls \union {NoCall}]
      /\ promises \in [DOMAIN promises -> DOMAIN batches]
      /\ 0 \notin DOMAIN batches
  BY <1>0, SeqOfElements DEF TypeOK, BatchesAreASeq
<1>1. /\ UNCHANGED <<requestId, pending, timer, delay, reqId, awaits, batches>>
      /\ c = Head(micro) /\ micro # <<>> /\ micro' = Tail(micro)
      /\ pc[c] = "settling"
  BY DEF Settle
<1>2. PICK p \in {"answered", "failed"} : pc' = [pc EXCEPT ![c] = p]
  BY DEF Settle
<1>3. Carries(awaits[c], reqId[c], c) /\ awaits[c] # 0
  BY <1>0, <1>t, <1>1 DEF AwaitInv, Carries
<1>4. result' \in [Calls -> Calls \union {NoCall}]
      /\ \A d \in Calls : result'[d] \in {result[d], d}
  <2>1. FindResult(c) = c
    BY <1>3 DEF Carries, FindResult
  <2> QED BY <2>1, <1>t DEF Settle
<1>5. /\ promises' \in [DOMAIN promises' -> DOMAIN batches]
      /\ DOMAIN promises' \subseteq DOMAIN promises
      /\ \A i \in DOMAIN promises' : promises'[i] = promises[i]
      /\ \A i \in DOMAIN promises : i # reqId[c] => i \in DOMAIN promises'
      /\ reqId[c] \in DOMAIN promises' => ReplyTo(c) = "rejected"
  BY <1>t DEF Settle, DeletePromise
<1>6. \A d \in Calls : d # c /\ In(micro, d) => In(micro', d)
  BY <1>0, <1>1, InTail DEF TypeOK
<1>7. \A d \in Calls : d # c => pc'[d] = pc[d] /\ reqId[d] # reqId[c]
  BY <1>0, <1>1, <1>2, <1>t DEF IdInv, Started
<1>8. pc'[c] = p /\ pc' \in [Calls -> {"idle", "delayed", "woken", "awaiting",
                                       "settling", "answered", "failed"}]
  BY <1>2, <1>t
<1>9. TypeOK'
  <2>1. BatchesAreASeq'
    BY <1>0, <1>1 DEF TypeOK, BatchesAreASeq
  <2>2. micro' \in Seq(Calls)
    BY <1>0, <1>1, InTail DEF TypeOK
  <2> QED BY <1>0, <1>1, <1>4, <1>5, <1>8, <2>1, <2>2 DEF TypeOK, IsBatch
<1>10. IdInv'
  BY <1>0, <1>1, <1>7, <1>8 DEF IdInv, Started
<1>11. QueueInv'
  BY <1>0, <1>1, <1>6, <1>7, <1>8 DEF QueueInv
<1>12. PendingInv'
  <2>1. \A i \in DOMAIN pending : pending[i] \in Calls
    BY <1>0 DEF TypeOK
  <2> QED BY <1>0, <1>1, <1>5, <1>7, <1>8, <2>1 DEF PendingInv, Mine, Carries
<1>13. BatchInv'
  <2>1. \A a \in DOMAIN batches : \A i \in DOMAIN batches[a].body :
          batches[a].body[i] \in Calls
    BY <1>t DEF IsBatch
  <2> QED BY <1>0, <1>1, <1>5, <1>7, <1>8, <2>1 DEF BatchInv
<1>14. AwaitInv'
  BY <1>0, <1>1, <1>3, <1>7, <1>8 DEF AwaitInv, Carries
<1>15. OwnAnswer'
  BY <1>0, <1>4 DEF OwnAnswer
<1>16. PromisesBelong'
  <2>1. \A d \in Calls : ReplyTo(d)' = ReplyTo(d)
    BY <1>1 DEF ReplyTo
  <2> QED BY <1>0, <1>1, <1>5, <1>7, <1>8, <2>1 DEF PromisesBelong
<1> QED BY <1>9, <1>10, <1>11, <1>12, <1>13, <1>14, <1>15, <1>16 DEF IInv

\* A call resumes: it posts the pending requests or finds their batch.
LEMMA ResumeIInv ==
  ASSUME IInv, NEW c \in Calls, Resume(c)
  PROVE  IInv'
<1>0. /\ TypeOK /\ IdInv /\ QueueInv /\ PendingInv /\ BatchInv /\ AwaitInv
      /\ OwnAnswer /\ PromisesBelong
  BY DEF IInv
<1> DEFINE n == AwaitedBy(c)
<1>t. /\ pc \in [Calls -> {"idle", "delayed", "woken", "awaiting", "settling",
                           "answered", "failed"}]
      /\ \A a \in DOMAIN batches : IsBatch(batches[a])
      /\ awaits \in [Calls -> {0} \union DOMAIN batches]
      /\ pending \in [DOMAIN pending -> Calls]
      /\ promises \in [DOMAIN promises -> DOMAIN batches]
      /\ DOMAIN promises \subseteq RequestIds /\ DOMAIN pending \subseteq RequestIds
      /\ Len(batches) \in Nat
      /\ DOMAIN batches = 1 .. Len(batches)
  BY <1>0, SeqOfElements DEF TypeOK, BatchesAreASeq
<1>1. /\ UNCHANGED <<requestId, timer, delay, reqId, result>>
      /\ c = Head(micro) /\ micro # <<>>
      /\ pc[c] = "woken"
      /\ pending' = EmptyFn
      /\ promises' = PromisesAfter(c)
      /\ awaits' = [awaits EXCEPT ![c] = n]
  BY DEF Resume, ClearPending
<1>2. \A d \in Calls : pc[d] # "delayed"
  BY <1>0, <1>1, InNotEmpty DEF QueueInv
\* The batches with the new one, if c posts it.
<1>3. /\ \A a \in DOMAIN batches : a \in DOMAIN Sent(c) /\ Sent(c)[a] = batches[a]
      /\ DOMAIN Sent(c) = 1 .. Len(Sent(c)) /\ Len(Sent(c)) \in Nat
      /\ Sent(c) \in Seq({Sent(c)[a] : a \in DOMAIN Sent(c)})
      /\ \A a \in DOMAIN Sent(c) : IsBatch(Sent(c)[a])
      /\ Mine(c) => Sent(c) = batches
      /\ ~Mine(c) => /\ DOMAIN Sent(c) = DOMAIN batches \union {Len(batches) + 1}
                     /\ Sent(c)[Len(batches) + 1] = NewBatch
  <2>1. CASE Mine(c)
    BY <1>0, <1>t, <2>1 DEF Sent, TypeOK, BatchesAreASeq
  <2>2. CASE ~Mine(c)
    <3> DEFINE T == {batches[a] : a \in DOMAIN batches} \union {NewBatch}
    <3>1. Sent(c) = Append(batches, NewBatch)
      BY <2>2 DEF Sent
    <3>2. batches \in Seq(T) /\ NewBatch \in T
      BY <1>0, SeqMonotonic DEF TypeOK, BatchesAreASeq
    <3>3. IsBatch(NewBatch)
      BY <1>t DEF NewBatch, IsBatch
    <3> HIDE DEF T
    <3>4. /\ Sent(c) \in Seq(T)
          /\ Len(Sent(c)) = Len(batches) + 1
          /\ DOMAIN Sent(c) = 1 .. Len(batches) + 1
          /\ \A a \in 1 .. Len(batches) : Sent(c)[a] = batches[a]
          /\ Sent(c)[Len(batches) + 1] = NewBatch
      BY <3>1, <3>2
    <3>5. Sent(c) \in Seq({Sent(c)[a] : a \in DOMAIN Sent(c)})
      BY <3>4, SeqOfElements
    <3>6. \A a \in DOMAIN Sent(c) : IsBatch(Sent(c)[a])
      BY <1>t, <3>3, <3>4
    <3> QED BY <2>2, <1>t, <3>4, <3>5, <3>6
  <2> QED BY <2>1, <2>2
\* What c finds in batchPromises, and what it leaves there.
<1>5. /\ \A i \in DOMAIN pending : i \notin DOMAIN promises
      /\ DOMAIN promises' = DOMAIN promises \union (IF Mine(c) THEN {} ELSE DOMAIN pending)
      /\ \A i \in DOMAIN promises : promises'[i] = promises[i]
      /\ ~Mine(c) => \A i \in DOMAIN pending : promises'[i] = Len(batches) + 1
      /\ promises' \in [DOMAIN promises' -> DOMAIN Sent(c)]
  <2>1. \A i \in DOMAIN pending : i \notin DOMAIN promises
    <3> SUFFICES ASSUME NEW i \in DOMAIN pending, i \in DOMAIN promises PROVE FALSE
      OBVIOUS
    <3>1. pending[i] \in Calls /\ pc[pending[i]] = "woken" /\ reqId[pending[i]] = i
      BY <1>0, <1>2, <1>t DEF PendingInv
    <3>2. pending = EmptyFn
      BY <1>0, <3>1 DEF PendingInv, Mine
    <3> QED BY <3>2 DEF EmptyFn
  <2>2. CASE Mine(c)
    BY <1>1, <1>t, <1>3, <2>1, <2>2 DEF PromisesAfter
  <2>3. CASE ~Mine(c)
    BY <1>1, <1>t, <1>3, <2>1, <2>3 DEF PromisesAfter
  <2> QED BY <2>1, <2>2, <2>3
\* The batch that c awaits carries its request.
<1>6. /\ n \in DOMAIN Sent(c) /\ n # 0
      /\ reqId[c] \in DOMAIN Sent(c)[n].body
      /\ Sent(c)[n].body[reqId[c]] = c
      /\ reqId[c] \in DOMAIN promises' /\ promises'[reqId[c]] = n
  <2>1. CASE Mine(c)
    BY <1>0, <1>1, <1>t, <1>3, <1>5, <2>1 DEF PendingInv, PromisesAfter, AwaitedBy, Mine, Carries
  <2>2. CASE ~Mine(c)
    <3>1. reqId[c] \in DOMAIN pending /\ pending[reqId[c]] = c
      BY <1>0, <1>1, <2>2 DEF PendingInv
    <3>2. n = Len(batches) + 1 /\ promises'[reqId[c]] = n /\ reqId[c] \in DOMAIN promises'
      BY <1>1, <1>5, <2>2, <3>1 DEF AwaitedBy
    <3> QED BY <1>t, <1>3, <2>2, <3>1, <3>2 DEF NewBatch
  <2> QED BY <2>1, <2>2
\* The batches afterwards: c is added to the waiters of its batch in flight.
<1>7. /\ DOMAIN batches' = DOMAIN Sent(c)
      /\ BatchesAreASeq'
      /\ \A a \in DOMAIN Sent(c) :
           /\ IsBatch(batches'[a])
           /\ batches'[a].body = Sent(c)[a].body
           /\ batches'[a].reply = Sent(c)[a].reply
           /\ \A d \in Calls : In(batches'[a].waiters, d) <=>
                \/ In(Sent(c)[a].waiters, d)
                \/ a = n /\ d = c /\ pc'[c] = "awaiting"
      /\ pc' \in {[pc EXCEPT ![c] = "settling"], [pc EXCEPT ![c] = "awaiting"]}
      /\ pc'[c] = "awaiting" => Sent(c)[n].reply = "none"
  <2>1. CASE Ready(c)
    <3>1. batches' = Sent(c) /\ pc' = [pc EXCEPT ![c] = "settling"]
      BY <2>1 DEF Resume
    <3>2. pc'[c] = "settling"
      BY <1>t, <3>1
    <3> QED BY <1>3, <3>1, <3>2 DEF BatchesAreASeq
  <2>2. CASE ~Ready(c)
    <3> DEFINE e == WithWaiter(Sent(c)[n], c)
    <3>1. /\ batches' = [Sent(c) EXCEPT ![n] = e]
          /\ pc' = [pc EXCEPT ![c] = "awaiting"]
      BY <2>2 DEF Resume
    <3>2. pc'[c] = "awaiting" /\ Sent(c)[n].reply = "none"
      BY <1>t, <1>6, <2>2, <3>1 DEF Ready
    <3>3. Sent(c)[n].waiters \in Seq(Calls)
      BY <1>3, <1>6 DEF IsBatch
    <3>4. \A d \in Calls : In(e.waiters, d) <=> In(Sent(c)[n].waiters, d) \/ d = c
      BY <3>3, InAppend DEF WithWaiter
    <3>5. e.body = Sent(c)[n].body /\ e.reply = Sent(c)[n].reply
      BY DEF WithWaiter
    <3>6. IsBatch(e)
      <4>1. IsBatch(Sent(c)[n])
        BY <1>3, <1>6
      <4>2. e.waiters \in Seq(Calls) /\ e.ids = Sent(c)[n].ids
        BY <3>3, InAppend DEF WithWaiter
      <4>3. e = [body |-> e.body, waiters |-> e.waiters, reply |-> e.reply, ids |-> e.ids]
        BY DEF WithWaiter
      <4> HIDE DEF e
      <4> QED BY <3>5, <4>1, <4>2, <4>3 DEF IsBatch
    <3> DEFINE S == {Sent(c)[a] : a \in DOMAIN Sent(c)}
               T == S \union {e}
    <3>7. Sent(c) \in Seq(T) /\ e \in T
      BY <1>3, SeqMonotonic, S \subseteq T
    <3>8. n \in 1 .. Len(Sent(c))
      BY <1>3, <1>6
    <3> HIDE DEF e, S, T
    <3>9. batches' \in Seq(T)
      BY <3>1, <3>7, <3>8, ExceptSeq
    <3>10. BatchesAreASeq'
      BY <3>9, SeqOfElements DEF BatchesAreASeq
    <3>11. /\ DOMAIN batches' = DOMAIN Sent(c)
           /\ \A a \in DOMAIN Sent(c) : batches'[a] = IF a = n THEN e ELSE Sent(c)[a]
      BY <1>6, <3>1
    <3> HIDE DEF n
    <3> QED BY <1>3, <3>1, <3>2, <3>4, <3>5, <3>6, <3>10, <3>11
  <2> QED BY <2>1, <2>2
\* The ready continuations afterwards.
<1>8. /\ micro' \in Seq(Calls)
      /\ \A d \in Calls : d # c /\ In(micro, d) => In(micro', d)
      /\ pc'[c] = "settling" => In(micro', c)
  <2>1. /\ Tail(micro) \in Seq(Calls)
        /\ \A d \in Calls : In(micro, d) /\ d # c => In(Tail(micro), d)
    BY <1>0, <1>1, InTail DEF TypeOK
  <2>2. CASE Ready(c)
    <3>1. micro' = Append(Tail(micro), c)
      BY <2>2 DEF Resume
    <3> QED BY <2>1, <3>1, InAppend
  <2>3. CASE ~Ready(c)
    <3>1. micro' = Tail(micro) /\ pc' = [pc EXCEPT ![c] = "awaiting"]
      BY <2>3 DEF Resume
    <3> QED BY <1>t, <2>1, <3>1
  <2> QED BY <2>2, <2>3
<1> HIDE DEF n
<1>9. /\ pc'[c] \in {"settling", "awaiting"}
      /\ \A d \in Calls : d # c => pc'[d] = pc[d] /\ awaits'[d] = awaits[d]
      /\ awaits'[c] = n
      /\ pc' \in [Calls -> {"idle", "delayed", "woken", "awaiting", "settling",
                            "answered", "failed"}]
      /\ awaits' \in [Calls -> {0} \union DOMAIN batches']
  BY <1>1, <1>t, <1>3, <1>6, <1>7
<1>10. \A d \in Calls : d # c => reqId[d] # reqId[c]
  BY <1>0, <1>1 DEF IdInv, Started
<1>11. \A d \in Calls : pc[d] = "woken" /\ Mine(d) => pending = EmptyFn
  BY <1>0 DEF PendingInv
\* An old batch keeps its requests; the new one takes the pending ones.
<1>12. /\ \A a \in DOMAIN batches : /\ a \in DOMAIN batches'
                                    /\ batches'[a].body = batches[a].body
                                    /\ batches'[a].reply = batches[a].reply
       /\ Mine(c) => DOMAIN batches' = DOMAIN batches
       /\ ~Mine(c) => /\ DOMAIN batches' = DOMAIN batches \union {Len(batches) + 1}
                      /\ Len(batches) + 1 \notin DOMAIN batches
                      /\ batches'[Len(batches) + 1].body = pending
  <2>1. \A a \in DOMAIN batches : /\ a \in DOMAIN batches'
                                 /\ batches'[a].body = batches[a].body
                                 /\ batches'[a].reply = batches[a].reply
    BY <1>3, <1>7
  <2>2. Len(batches) + 1 \notin DOMAIN batches
    BY <1>t
  <2>3. ~Mine(c) => batches'[Len(batches) + 1].body = pending
    BY <1>3, <1>7 DEF NewBatch
  <2> QED BY <1>3, <1>7, <2>1, <2>2, <2>3
<1>13. ~Mine(c) => reqId[c] \in DOMAIN pending /\ pending[reqId[c]] = c
  BY <1>0, <1>1 DEF PendingInv
<1>14. TypeOK'
  <2>1. /\ DOMAIN pending' = {} /\ pending' \in [{} -> Calls]
    BY <1>1 DEF EmptyFn
  <2>2. DOMAIN promises' \subseteq RequestIds
    BY <1>t, <1>5
  <2> QED BY <1>0, <1>1, <1>5, <1>7, <1>8, <1>9, <2>1, <2>2 DEF TypeOK
<1>15. IdInv'
  BY <1>0, <1>1, <1>9 DEF IdInv, Started
<1>16. QueueInv'
  BY <1>0, <1>1, <1>8, <1>9 DEF QueueInv
<1>17. PendingInv'
  <2>1. DOMAIN pending' = {}
    BY <1>1 DEF EmptyFn
  <2>2. ASSUME NEW d \in Calls, pc'[d] = "woken"
        PROVE  Mine(d)' /\ Carries(promises[reqId[d]], reqId[d], d)'
    <3>1. d # c /\ pc[d] = "woken"
      BY <1>9, <2>2
    <3>2. CASE Mine(c)
      <4>1. pending = EmptyFn
        BY <1>1, <1>11, <3>2
      <4>2. Mine(d) /\ Carries(promises[reqId[d]], reqId[d], d)
        BY <1>0, <3>1, <4>1 DEF PendingInv, EmptyFn
      <4> QED BY <1>1, <1>5, <1>12, <4>2 DEF Mine, Carries
    <3>3. CASE ~Mine(c)
      <4>1. pending # EmptyFn
        BY <1>13, <3>3 DEF EmptyFn
      <4>2. reqId[d] \in DOMAIN pending /\ pending[reqId[d]] = d
        BY <1>0, <3>1, <4>1 DEF PendingInv
      <4> QED BY <1>1, <1>5, <1>12, <3>3, <4>2 DEF Mine, Carries
    <3> QED BY <3>2, <3>3
  <2> QED BY <1>1, <1>2, <1>9, <2>1, <2>2 DEF PendingInv
<1>18. BatchInv'
  <2>1. \A a \in DOMAIN batches : \A i \in DOMAIN batches[a].body :
          /\ batches[a].body[i] \in Calls
          /\ batches[a].body[i] = c => pc[c] = "woken"
    BY <1>t, <1>1 DEF IsBatch
  <2>2. ASSUME NEW a \in DOMAIN batches'
        PROVE  /\ batches'[a].body # EmptyFn
               /\ \A i \in DOMAIN batches'[a].body :
                    /\ reqId'[batches'[a].body[i]] = i
                    /\ pc'[batches'[a].body[i]] \notin {"idle", "delayed"}
                    /\ pc'[batches'[a].body[i]] = "woken" => i \in DOMAIN promises'
    <3>1. CASE a \in DOMAIN batches
      BY <1>0, <1>1, <1>5, <1>9, <1>12, <2>1, <3>1 DEF BatchInv
    <3>2. CASE a \notin DOMAIN batches
      <4>1. ~Mine(c) /\ batches'[a].body = pending
        BY <1>12, <3>2
      <4>2. \A i \in DOMAIN pending : /\ pending[i] \in Calls
                                      /\ reqId[pending[i]] = i
                                      /\ pc[pending[i]] = "woken"
        BY <1>0, <1>2, <1>t DEF PendingInv
      <4>3. pending # EmptyFn
        BY <1>13, <4>1 DEF EmptyFn
      <4> QED BY <1>1, <1>5, <1>9, <4>1, <4>2, <4>3
    <3> QED BY <3>1, <3>2
  <2>3. ASSUME NEW a \in DOMAIN batches', NEW b \in DOMAIN batches',
               NEW i \in DOMAIN batches'[a].body, NEW j \in DOMAIN batches'[b].body,
               batches'[a].body[i] = batches'[b].body[j], a \in DOMAIN batches
        PROVE  a = b
    <3>1. CASE b \in DOMAIN batches
      BY <1>0, <1>12, <2>3, <3>1 DEF BatchInv
    <3>2. CASE b \notin DOMAIN batches
      <4>1. ~Mine(c) /\ batches'[b].body = pending
        BY <1>12, <3>2
      <4>2. reqId[pending[j]] = j /\ pc[pending[j]] = "woken" /\ pending[j] \in Calls
        BY <1>0, <1>2, <1>t, <2>3, <4>1 DEF PendingInv
      <4>3. i \in DOMAIN batches[a].body /\ batches[a].body[i] = pending[j]
        BY <1>12, <2>3, <4>1
      <4>4. reqId[pending[j]] = i /\ i \in DOMAIN promises
        BY <1>0, <2>3, <4>2, <4>3 DEF BatchInv
      <4> QED BY <1>5, <2>3, <4>1, <4>2, <4>4
    <3> QED BY <3>1, <3>2
  <2>4. ASSUME NEW a \in DOMAIN batches', NEW b \in DOMAIN batches',
               NEW i \in DOMAIN batches'[a].body, NEW j \in DOMAIN batches'[b].body,
               batches'[a].body[i] = batches'[b].body[j]
        PROVE  a = b
    BY <1>12, <2>3, <2>4
  <2> QED BY <2>2, <2>4 DEF BatchInv
<1>19. AwaitInv'
  <2>1. Carries(awaits[c], reqId[c], c)'
    BY <1>1, <1>6, <1>7, <1>9 DEF Carries
  <2>2. ASSUME NEW d \in Calls, d # c, Carries(awaits[d], reqId[d], d)
        PROVE  Carries(awaits[d], reqId[d], d)'
    BY <1>1, <1>9, <1>12, <2>2 DEF Carries
  <2>3. \A d \in Calls : pc'[d] \in {"awaiting", "settling", "answered", "failed"} =>
          Carries(awaits[d], reqId[d], d)'
    BY <1>0, <1>1, <1>9, <2>1, <2>2 DEF AwaitInv
  <2>4. ASSUME NEW d \in Calls, pc'[d] = "awaiting"
        PROVE  batches'[awaits'[d]].reply = "none" /\ In(batches'[awaits'[d]].waiters, d)
    <3>1. CASE d = c
      BY <1>6, <1>7, <1>9, <2>4, <3>1
    <3>2. CASE d # c
      BY <1>0, <1>3, <1>7, <1>9, <2>4, <3>2 DEF AwaitInv, Carries
    <3> QED BY <3>1, <3>2
  <2>5. \A d \in Calls : pc'[d] \in {"idle", "delayed", "woken"} => awaits'[d] = 0
    BY <1>0, <1>9 DEF AwaitInv
  <2>6. ASSUME NEW a \in DOMAIN batches', NEW d \in Calls,
               batches'[a].reply = "none", In(batches'[a].waiters, d)
        PROVE  pc'[d] = "awaiting" /\ awaits'[d] = a
    <3>1. CASE In(Sent(c)[a].waiters, d)
      <4>1. a \in DOMAIN batches
        BY <1>3, <1>7, <3>1 DEF NewBatch, In
      <4>2. pc[d] = "awaiting" /\ awaits[d] = a
        BY <1>0, <1>3, <1>7, <2>6, <3>1, <4>1 DEF AwaitInv
      <4> QED BY <1>1, <1>9, <4>2
    <3>2. CASE a = n /\ d = c /\ pc'[c] = "awaiting"
      BY <1>9, <3>2
    <3> QED BY <1>7, <2>6, <3>1, <3>2
  <2> QED BY <2>3, <2>4, <2>5, <2>6 DEF AwaitInv
<1>20. OwnAnswer'
  BY <1>0, <1>1 DEF OwnAnswer
<1>21. PromisesBelong'
  <2> SUFFICES ASSUME NEW i \in DOMAIN promises'
               PROVE  \E d \in Calls :
                        /\ reqId'[d] = i
                        /\ pc'[d] \in {"woken", "awaiting", "settling"}
                           \/ ReplyTo(d)' = "rejected"
    BY DEF PromisesBelong
  <2>1. CASE i \in DOMAIN promises
    <3>1. PICK d \in Calls :
            /\ reqId[d] = i
            /\ pc[d] \in {"woken", "awaiting", "settling"} \/ ReplyTo(d) = "rejected"
      BY <1>0, <2>1 DEF PromisesBelong
    <3>2. CASE pc[d] \in {"woken", "awaiting", "settling"}
      BY <1>1, <1>9, <3>1, <3>2
    <3>3. CASE pc[d] \notin {"woken", "awaiting", "settling"}
      <4>1. d # c /\ awaits[d] \in DOMAIN batches /\ awaits[d] # 0
        BY <1>0, <1>1, <1>t, <3>1, <3>3 DEF AwaitInv, Carries, ReplyTo
      <4> QED BY <1>1, <1>9, <1>12, <3>1, <3>3, <4>1 DEF ReplyTo
    <3> QED BY <3>2, <3>3
  <2>2. CASE i \notin DOMAIN promises
    <3>1. i \in DOMAIN pending
      BY <1>5, <2>2
    <3>2. pending[i] \in Calls /\ reqId[pending[i]] = i /\ pc[pending[i]] = "woken"
      BY <1>0, <1>2, <1>t, <3>1 DEF PendingInv
    <3> QED BY <1>1, <1>9, <3>2
  <2> QED BY <2>1, <2>2
<1> QED BY <1>14, <1>15, <1>16, <1>17, <1>18, <1>19, <1>20, <1>21 DEF IInv

------------------------------------------------------------------------------
\* Every step of a client whose callers do not reuse ids keeps the invariant.
LEMMA NextIInv ==
  ASSUME IInv, ~ReuseIds, [Next]_vars
  PROVE  IInv'
<1>1. CASE TimerFires
  BY <1>1, TimerFiresIInv
<1>2. ASSUME NEW c \in Calls, Resume(c) PROVE IInv'
  BY <1>2, ResumeIInv
<1>3. ASSUME NEW b \in DOMAIN batches, Reply(b) PROVE IInv'
  BY <1>3, ReplyIInv
<1>4. ASSUME NEW c \in Calls, Settle(c) PROVE IInv'
  BY <1>4, SettleIInv
<1>5. ASSUME NEW c \in Calls, NEW given \in IdChoices, StartFetch(c, given)
      PROVE  IInv'
  BY <1>5, StartFetchIInv
<1>6. CASE UNCHANGED vars
  BY <1>6 DEF vars, IInv, TypeOK, BatchesAreASeq, IsBatch, IdInv, Started, QueueInv, In,
              PendingInv, Mine, Carries, BatchInv, AwaitInv, OwnAnswer,
              PromisesBelong, ReplyTo
<1> QED BY <1>1, <1>2, <1>3, <1>4, <1>5, <1>6 DEF Next, Step

\* The inductive invariant holds in every behaviour.
THEOREM Inductive == ASSUME ~ReuseIds PROVE Spec => []IInv
<1>1. IInv /\ [Next]_vars => IInv'
  BY NextIInv
<1> QED BY <1>1, InitIInv, PTL DEF Spec

\* The fields and maps of the client keep their types, whatever the number of
\* calls, the ids they pass and the replies of the node.
THEOREM TypeCorrect == ASSUME ~ReuseIds PROVE Spec => []TypeOK
<1>1. IInv => TypeOK
  BY DEF IInv
<1> QED BY <1>1, Inductive, PTL

\* No request that waits for its answer is lost: it is pending under a running
\* timer, or in the batch its id leads to, or in a POST in flight that will wake
\* its call (the pending map of fetch(), taken and cleared by every resumed call).
THEOREM NothingLost == ASSUME ~ReuseIds PROVE Spec => []NoRequestLost
<1>1. IInv => NoRequestLost
  <2> SUFFICES ASSUME IInv, NEW c \in Calls
               PROVE
    /\ pc[c] = "delayed" =>
         timer /\ reqId[c] \in DOMAIN pending /\ pending[reqId[c]] = c
    /\ pc[c] = "woken" =>
         \/ reqId[c] \in DOMAIN pending /\ pending[reqId[c]] = c
         \/ /\ Mine(c)
            /\ promises[reqId[c]] \in DOMAIN batches
            /\ reqId[c] \in DOMAIN batches[promises[reqId[c]]].body
            /\ batches[promises[reqId[c]]].body[reqId[c]] = c
    /\ pc[c] = "awaiting" =>
         /\ awaits[c] \in DOMAIN batches
         /\ batches[awaits[c]].reply = "none"
         /\ \E i \in DOMAIN batches[awaits[c]].waiters :
              batches[awaits[c]].waiters[i] = c
         /\ reqId[c] \in DOMAIN batches[awaits[c]].body
         /\ batches[awaits[c]].body[reqId[c]] = c
    BY DEF NoRequestLost
  <2>1. /\ TypeOK /\ QueueInv /\ PendingInv /\ AwaitInv
    BY DEF IInv
  <2>2. pc[c] = "delayed" => timer
    BY <2>1, InNotEmpty DEF QueueInv
  <2>3. CASE pc[c] = "delayed"
    BY <2>1, <2>2, <2>3 DEF PendingInv
  <2>4. CASE pc[c] = "woken"
    BY <2>1, <2>4 DEF PendingInv, Carries
  <2>5. CASE pc[c] = "awaiting"
    BY <2>1, <2>5 DEF AwaitInv, Carries, In
  <2> QED BY <2>3, <2>4, <2>5
<1> QED BY <1>1, Inductive, PTL

\* fetch() never returns the answer to another call's request.
THEOREM NoForeignAnswer == ASSUME ~ReuseIds PROVE Spec => []OwnAnswer
<1>1. IInv => OwnAnswer
  BY DEF IInv
<1> QED BY <1>1, Inductive, PTL

\* No POST is empty and no request leaves in two of them.
THEOREM NoDoublePost == ASSUME ~ReuseIds PROVE Spec => []PostedOnce
<1>1. IInv => PostedOnce
  <2> SUFFICES ASSUME IInv PROVE PostedOnce
    OBVIOUS
  <2>1. BatchInv
    BY DEF IInv
  <2>2. \A a \in DOMAIN batches, b \in DOMAIN batches :
          \A i \in DOMAIN batches[a].body, j \in DOMAIN batches[b].body :
            batches[a].body[i] = batches[b].body[j] => a = b /\ i = j
    BY <2>1 DEF BatchInv
  <2> QED BY <2>1, <2>2 DEF PostedOnce, BatchInv
<1> QED BY <1>1, Inductive, PTL

\* The promises kept belong to calls that have not finished, or to a batch that
\* was rejected.
THEOREM PromisesKept == ASSUME ~ReuseIds PROVE Spec => []PromisesBelong
<1>1. IInv => PromisesBelong
  BY DEF IInv
<1> QED BY <1>1, Inductive, PTL

------------------------------------------------------------------------------
\* A call of the client is past its delay exactly when its request is in a batch,
\* or woken while the pending requests still hold it.
LEMMA WhereRequestsAre ==
  ASSUME IInv, NEW c \in Calls
  PROVE  /\ pc[c] \in {"idle", "delayed"} => ~InBatch(c)
         /\ pc[c] \in {"awaiting", "settling", "answered", "failed"} => InBatch(c)
         /\ pc[c] = "woken" => (InBatch(c) <=> Mine(c))
<1>0. /\ TypeOK /\ IdInv /\ QueueInv /\ PendingInv /\ BatchInv /\ AwaitInv
  BY DEF IInv
<1>1. CASE pc[c] \in {"idle", "delayed"}
  BY <1>0, <1>1 DEF BatchInv, InBatch
<1>2. CASE pc[c] \in {"awaiting", "settling", "answered", "failed"}
  BY <1>0, <1>2 DEF AwaitInv, Carries, InBatch
<1>3. CASE pc[c] = "woken"
  BY <1>0, <1>3 DEF PendingInv, BatchInv, Carries, InBatch, Mine
<1> QED BY <1>0, <1>1, <1>2, <1>3 DEF TypeOK

\* The stage of a call, read off its pc.
Stage(c) ==
  IF pc[c] = "idle" THEN "idle"
  ELSE IF pc[c] = "delayed" \/ (pc[c] = "woken" /\ ~Mine(c)) THEN "open"
  ELSE IF pc[c] \in {"woken", "awaiting", "settling"} THEN "posted"
  ELSE pc[c]

StageMap == [c \in Calls |-> StageOf(c)]

LEMMA StageByPc == IInv => \A c \in Calls : StageMap[c] = Stage(c)
BY WhereRequestsAre DEF IInv, TypeOK, StageMap, StageOf, Stage, Started, Settled

LEMMA StageByPcNext == IInv' => (\A c \in Calls : StageMap[c] = Stage(c))'
BY StageByPc, PTL

\* Each step of the client is a step of RequestReply or leaves it unchanged.
LEMMA StepRefines ==
  ASSUME IInv, IInv', [Next]_vars
  PROVE  [Abstract!RRNext]_(Abstract!rrVars)
<1>0. /\ TypeOK /\ IdInv /\ QueueInv /\ PendingInv /\ BatchInv /\ AwaitInv /\ PromisesBelong
  BY DEF IInv
<1>t. /\ pc \in [Calls -> {"idle", "delayed", "woken", "awaiting", "settling",
                           "answered", "failed"}]
      /\ result \in [Calls -> Calls \union {NoCall}]
  BY <1>0 DEF TypeOK
<1> DEFINE stage == StageMap
<1>s. /\ \A c \in Calls : stage[c] = Stage(c) /\ stage'[c] = Stage(c)'
      /\ stage = [c \in Calls |-> stage[c]]
      /\ stage' = [c \in Calls |-> stage'[c]]
  BY StageByPc, StageByPcNext DEF StageMap
\* A delayed call finds no promise under its id.
<1>d. \A c \in Calls : pc[c] = "delayed" => ~Mine(c)
  <2> SUFFICES ASSUME NEW c \in Calls, pc[c] = "delayed", Mine(c) PROVE FALSE
    OBVIOUS
  <2>1. PICK d \in Calls :
          /\ reqId[d] = reqId[c]
          /\ pc[d] \in {"woken", "awaiting", "settling"} \/ ReplyTo(d) = "rejected"
    BY <1>0 DEF PromisesBelong, Mine
  <2>2. c = d
    BY <1>0, <2>1 DEF IdInv, Started
  <2> QED BY <1>0, <2>1, <2>2 DEF AwaitInv, ReplyTo
<1>2. ASSUME NEW c \in Calls, NEW given \in IdChoices, StartFetch(c, given)
      PROVE  Abstract!Open(c)
  <2>1. pc[c] = "idle" /\ pc' = [pc EXCEPT ![c] = "delayed"] /\ result' = result
        /\ promises' = promises /\ reqId' = [reqId EXCEPT ![c] = IdFor(given)]
    BY <1>2 DEF StartFetch, Started
  <2>2. \A d \in Calls : Stage(d)' = IF d = c THEN "open" ELSE Stage(d)
    BY <1>0, <1>t, <2>1 DEF Mine, TypeOK, Stage
  <2>3. stage[c] = "idle" /\ stage' = [stage EXCEPT ![c] = "open"]
    BY <1>s, <2>1, <2>2 DEF Stage
  <2> QED BY <2>1, <2>3 DEF StageMap, Abstract!Open
<1>3. CASE TimerFires
  <2>1. \A c \in Calls : pc'[c] = IF pc[c] = "delayed" THEN "woken" ELSE pc[c]
    BY <1>0, <1>3 DEF TimerFires, QueueInv, In
  <2>2. result' = result /\ promises' = promises /\ reqId' = reqId
    BY <1>3 DEF TimerFires
  <2>3. \A c \in Calls : Stage(c)' = Stage(c)
    BY <1>d, <2>1, <2>2 DEF Mine, Stage
  <2>4. stage' = stage
    BY <1>s, <2>3
  <2> QED BY <2>2, <2>4 DEF StageMap, Abstract!rrVars
<1>4. ASSUME NEW c \in Calls, Resume(c)
      PROVE  Abstract!Post \/ UNCHANGED Abstract!rrVars
  <2>1. /\ pc[c] = "woken" /\ result' = result /\ reqId' = reqId
        /\ promises' = PromisesAfter(c)
        /\ pc' \in {[pc EXCEPT ![c] = "settling"], [pc EXCEPT ![c] = "awaiting"]}
    BY <1>4 DEF Resume
  <2>2. \A d \in Calls : pc[d] # "delayed"
    BY <1>0, <1>4, InNotEmpty DEF QueueInv, Resume
  <2>3. CASE Mine(c)
    <3>1. promises' = promises
      BY <2>1, <2>3 DEF PromisesAfter
    <3>2. \A d \in Calls : Stage(d)' = Stage(d)
      BY <1>t, <2>1, <2>2, <2>3, <3>1 DEF Mine, Stage
    <3>3. stage' = stage
      BY <1>s, <3>2
    <3> QED BY <2>1, <3>3 DEF StageMap, Abstract!rrVars
  <2>4. CASE ~Mine(c)
    <3>1. \A d \in Calls : pc[d] = "woken" => Mine(d)'
      <4>1. /\ reqId[c] \in DOMAIN pending
            /\ DOMAIN promises' = DOMAIN pending \union DOMAIN promises
        BY <1>0, <2>1, <2>4 DEF PendingInv, PromisesAfter
      <4> QED BY <1>0, <2>1, <4>1 DEF PendingInv, Mine
    <3>2. \A d \in Calls : Stage(d)' = IF Stage(d) = "open" THEN "posted" ELSE Stage(d)
      BY <1>t, <2>1, <2>2, <3>1 DEF Stage
    <3>3. stage[c] = "open"
          /\ stage' = [d \in Calls |-> IF stage[d] = "open" THEN "posted" ELSE stage[d]]
      BY <1>s, <2>1, <2>4, <3>2 DEF Stage
    <3> QED BY <2>1, <3>3 DEF StageMap, Abstract!Post
  <2> QED BY <2>3, <2>4
<1>5. ASSUME NEW b \in DOMAIN batches, Reply(b)
      PROVE  UNCHANGED Abstract!rrVars
  <2>1. \A c \in Calls : pc'[c] = IF In(batches[b].waiters, c) THEN "settling" ELSE pc[c]
    BY <1>5 DEF Reply, In
  <2>2. result' = result /\ promises' = promises /\ reqId' = reqId
    BY <1>5 DEF Reply
  <2>3. \A c \in Calls : In(batches[b].waiters, c) => pc[c] = "awaiting"
    BY <1>0, <1>5 DEF AwaitInv, Reply
  <2>4. \A c \in Calls : Stage(c)' = Stage(c)
    BY <2>1, <2>2, <2>3 DEF Mine, Stage
  <2>5. stage' = stage
    BY <1>s, <2>4
  <2> QED BY <2>2, <2>5 DEF StageMap, Abstract!rrVars
<1>6. ASSUME NEW c \in Calls, Settle(c)
      PROVE  Abstract!Answer(c) \/ Abstract!Fail(c)
  <2>1. pc[c] = "settling" /\ reqId' = reqId /\ promises' = DeletePromise(c)
    BY <1>6 DEF Settle
  <2>2. \A d \in Calls : d # c => reqId[d] # reqId[c]
    BY <1>0, <2>1 DEF IdInv, Started
  <2>3. \A d \in Calls : d # c => (Mine(d)' <=> Mine(d))
    <3>1. \A i : i # reqId[c] => (i \in DOMAIN promises' <=> i \in DOMAIN promises)
      BY <2>1 DEF DeletePromise
    <3> QED BY <2>1, <2>2, <3>1 DEF Mine
  <2>4. FindResult(c) = c
    BY <1>0, <2>1 DEF AwaitInv, Carries, FindResult
  <2>5. ASSUME NEW p \in {"answered", "failed"}, pc' = [pc EXCEPT ![c] = p]
        PROVE  stage[c] = "posted" /\ stage' = [stage EXCEPT ![c] = p]
    <3>1. \A d \in Calls : Stage(d)' = IF d = c THEN p ELSE Stage(d)
      BY <1>t, <2>1, <2>3, <2>5 DEF Stage
    <3> QED BY <1>s, <2>1, <3>1 DEF Stage
  <2>6. CASE Found(c)
    <3>1. pc' = [pc EXCEPT ![c] = "answered"] /\ result' = [result EXCEPT ![c] = c]
      BY <1>6, <2>4, <2>6 DEF Settle
    <3> QED BY <2>5, <3>1 DEF StageMap, Abstract!Answer
  <2>7. CASE ~Found(c)
    <3>1. pc' = [pc EXCEPT ![c] = "failed"] /\ result' = result
      BY <1>6, <2>7 DEF Settle
    <3> QED BY <2>5, <3>1 DEF StageMap, Abstract!Fail
  <2> QED BY <2>6, <2>7
<1>7. CASE UNCHANGED vars
  <2>1. result' = result /\ \A c \in Calls : Stage(c)' = Stage(c)
    BY <1>7 DEF vars, Mine, Stage
  <2>2. stage' = stage
    BY <1>s, <2>1
  <2> QED BY <2>1, <2>2 DEF StageMap, Abstract!rrVars
<1> QED BY <1>2, <1>3, <1>4, <1>5, <1>6, <1>7 DEF Next, Step, Abstract!RRNext

\* The batching client, for any number of calls, implements RequestReply: every
\* open request leaves in the next POST, none leaves twice, and a call ends, after
\* its request was posted, with its own answer or an error.
THEOREM Refinement == ASSUME ~ReuseIds PROVE Spec => ImplementsRequestReply
<1>1. Init => Abstract!RRInit
  BY DEF Init, Abstract!RRInit, StageOf, Started
<1>2. IInv /\ IInv' /\ [Next]_vars => [Abstract!RRNext]_(Abstract!rrVars)
  BY StepRefines
<1> QED BY <1>1, <1>2, Inductive, PTL DEF Spec, ImplementsRequestReply, Abstract!RRSpec
==============================================================================
