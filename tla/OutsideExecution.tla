-------------------------- MODULE OutsideExecution --------------------------
(***************************************************************************)
(* Outside transactions (SNIP-9): an account signs calls that another one  *)
(* executes (src/src/account/default.ts, getOutsideTransaction and         *)
(* executeFromOutside; src/src/utils/outsideExecution.ts).                 *)
(*                                                                         *)
(* An order is a call of getOutsideTransaction(), in steps between its     *)
(* awaits.  Its account's contract checks what it is given, by SNIP-9: it  *)
(* reads the execution from calldata, hashes it anew, and compares with    *)
(* what was signed.  Meanwhile time goes on, nonces are used, and the      *)
(* account's class may be replaced.                                        *)
(*                                                                         *)
(* Felts are numbers.  A hash is what it is of.                            *)
(***************************************************************************)
EXTENDS Integers, Sequences, FiniteSets, SequencesExt

CONSTANTS
  Orders,
  Account(_),    \* of an order: who signs
  Options(_),    \* [caller, after, before]; a caller is <<"hex", address>>, <<"any">>, or another text
  CallsOf(_),    \* a sequence of [to, selector, data], with data a sequence of felts
  Version(_),    \* "1", "2", or NotGiven
  Nonce(_),      \* a felt, or NoNonce
  Executors,     \* addresses
  Nonces,        \* what randomAddress() gives
  Supports,      \* what a class supports: sets of versions
  Batches,       \* sequences of orders that are executed together
  MaxTime

ANY_CALLER == 99
NotGiven == "not given"
NoNonce == -1
UNSUPPORTED == "0"
Accounts == {Account(o) : o \in Orders}

Felt == Nat
CallSet == [to : Felt, selector : Felt, data : Seq(Felt)]

\* The code makes felts of the numbers it is given, and a hexadecimal address is one.
ASSUME OutsideAssumption ==
  /\ \A o \in Orders :
       /\ CallsOf(o) \in Seq(CallSet)
       /\ Options(o).after \in Felt /\ Options(o).before \in Felt
       /\ LET caller == Options(o).caller
          IN /\ caller[1] = "hex" => caller = <<"hex", caller[2]>> /\ caller[2] \in Felt
             /\ caller[1] = "any" => caller = <<"any">>
       /\ Nonce(o) \in Felt \union {NoNonce}
  /\ Nonces \subseteq Felt
  /\ Batches \subseteq Seq(Orders)

VARIABLES
  pc,        \* of an order: where it stands
  version, nonce,   \* of an order: what it has found
  made,      \* of an order: the outside transaction, or None
  supports,  \* of an account: the versions its class supports
  used,      \* of an account: the nonces that were used
  now,
  last,      \* the last execution: [batch, executor, at, passed]
  replaced,  \* accounts whose class was replaced after an order looked at it
  stale      \* orders whose nonce was used by another after they had asked for it

vars == <<pc, version, nonce, made, supports, used, now, last, replaced, stale>>
chain == <<supports, used, now, last, replaced, stale>>

None == [version |-> NotGiven]
NoExecution == [batch |-> <<>>, executor |-> 0, at |-> 0, passed |-> TRUE]

------------------------------------------------------------------------------
(* What is signed, and what is sent.                                        *)

\* A mutant: whoever wants.
AnyCaller(caller) == ANY_CALLER

CodedCaller(caller) == IF caller[1] = "hex" THEN caller[2] ELSE ANY_CALLER

\* A mutant: the lengths are left to version 2.
getTypedDataAlike(v, execution) ==
  <<<<v, execution.caller, execution.nonce, execution.after, execution.before>>, execution.calls>>

\* The message of version 1 also has the lengths of its lists.
getTypedData(v, execution) ==
  LET calls == execution.calls
      common == <<v, execution.caller, execution.nonce, execution.after, execution.before>>
  IN IF v = "1"
     THEN <<common, Len(calls), [i \in DOMAIN calls |-> <<Len(calls[i].data), calls[i]>>]>>
     ELSE <<common, calls>>

\* In calldata, a list has its length first.
CompiledCall(call) == <<call.to, call.selector, Len(call.data)>> \o call.data

buildExecuteFromOutsideCallData(execution) ==
  <<execution.caller, execution.nonce, execution.after, execution.before, Len(execution.calls)>>
  \o FlattenSeq([i \in DOMAIN execution.calls |-> CompiledCall(execution.calls[i])])

------------------------------------------------------------------------------
(* The contract of the account, by SNIP-9.                                  *)

At(felts, i) == IF i \in DOMAIN felts THEN felts[i] ELSE 0

\* Where the calls of an execution end.
Places(felts) ==
  LET n == At(felts, 5)
      place[k \in 0..n] == IF k = 0 THEN 5 ELSE place[k - 1] + 3 + At(felts, place[k - 1] + 3)
  IN place

Reads(felts) == Places(felts)[At(felts, 5)] = Len(felts)

ReadExecution(felts) ==
  LET place == Places(felts)
  IN [caller |-> felts[1], nonce |-> felts[2], after |-> felts[3], before |-> felts[4],
      calls |-> [k \in 1..felts[5] |->
                   [to |-> felts[place[k - 1] + 1], selector |-> felts[place[k - 1] + 2],
                    data |-> SubSeq(felts, place[k - 1] + 4, place[k])]]]

Hashed(v, e) ==
  LET common == <<v, e.caller, e.nonce, e.after, e.before>>
  IN IF v = "1"
     THEN <<common, Len(e.calls), [i \in DOMAIN e.calls |-> <<Len(e.calls[i].data), e.calls[i]>>]>>
     ELSE <<common, e.calls>>

\* taken are the nonces used so far, in this transaction too.
Passes(tx, executor, taken) ==
  /\ tx.version \in supports[tx.account]
  /\ Reads(tx.calldata)
  /\ LET e == ReadExecution(tx.calldata)
     IN /\ e.caller \in {executor, ANY_CALLER}
        /\ e.after < now /\ now < e.before
        /\ e.nonce \notin taken
        /\ tx.signed = <<tx.account, Hashed(tx.version, e)>>

TakenBefore(batch, i) ==
  used[Account(batch[i])] \union
  {nonce[batch[j]] : j \in {k \in 1..(i - 1) : Account(batch[k]) = Account(batch[i])}}

------------------------------------------------------------------------------
(* getOutsideTransaction().                                                 *)

Init ==
  /\ pc = [o \in Orders |-> "start"]
  /\ version = [o \in Orders |-> Version(o)] /\ nonce = [o \in Orders |-> 0]
  /\ made = [o \in Orders |-> None]
  /\ supports \in [Accounts -> Supports] /\ used = [a \in Accounts |-> {}]
  /\ now = 1 /\ last = NoExecution /\ replaced = {} /\ stale = {}

Goes(o, where) == pc' = [pc EXCEPT ![o] = where]

\* `nonce ? toHex(nonce) : ...`: a nonce of 0 is none.
HasNonce(o) == Nonce(o) \notin {NoNonce, 0}

\* With the version: the nonce is given, or asked for.
GoesOn(o) ==
  IF HasNonce(o)
  THEN Goes(o, "chain id") /\ nonce' = [nonce EXCEPT ![o] = Nonce(o)]
  ELSE \E n \in Nonces : Goes(o, "nonce") /\ nonce' = [nonce EXCEPT ![o] = n]

Begin(o) ==
  /\ pc[o] = "start"
  /\ \/ Options(o).caller[1] \notin {"hex", "any"} /\ Goes(o, "failed") /\ UNCHANGED nonce
     \/ /\ Options(o).caller[1] \in {"hex", "any"}
        /\ IF Version(o) = NotGiven THEN Goes(o, "2") /\ UNCHANGED nonce ELSE GoesOn(o)
  /\ UNCHANGED <<version, made, chain>>

\* supportsInterface() takes a lost call for a no.
getSnip9Version(o, v) ==
  /\ pc[o] = v
  /\ \/ /\ v \in supports[Account(o)]
        /\ version' = [version EXCEPT ![o] = v] /\ GoesOn(o)
     \/ IF v = "2" THEN Goes(o, "1") /\ UNCHANGED <<version, nonce>>
        ELSE version' = [version EXCEPT ![o] = UNSUPPORTED] /\ GoesOn(o)
  /\ UNCHANGED <<made, chain>>

\* A nonce that was used is drawn again.
getSnip9Nonce(o) ==
  /\ pc[o] = "nonce"
  /\ IF nonce[o] \in used[Account(o)]
     THEN \E n \in Nonces : nonce' = [nonce EXCEPT ![o] = n] /\ UNCHANGED pc
     ELSE Goes(o, "chain id") /\ UNCHANGED nonce
  /\ UNCHANGED <<version, made, chain>>

\* isValidSnip9Nonce() and getChainId() throw when their call is lost.
RequestFails(o) ==
  /\ pc[o] \in {"nonce", "chain id"} /\ Goes(o, "failed")
  /\ UNCHANGED <<version, nonce, made, chain>>

Execution(o) ==
  [caller |-> CodedCaller(Options(o).caller), nonce |-> nonce[o],
   after |-> Options(o).after, before |-> Options(o).before, calls |-> CallsOf(o)]

\* UNSUPPORTED is a text, and so not falsy: such an order gets as far as its
\* typed data, which is of no revision, and throws there.
Sign(o) ==
  /\ pc[o] = "chain id"
  /\ IF version[o] = UNSUPPORTED THEN Goes(o, "failed") /\ UNCHANGED made
     ELSE /\ Goes(o, "made")
          /\ made' = [made EXCEPT ![o] =
               [version |-> version[o], account |-> Account(o),
                calldata |-> buildExecuteFromOutsideCallData(Execution(o)),
                signed |-> <<Account(o), getTypedData(version[o], Execution(o))>>]]
  /\ UNCHANGED <<version, nonce, chain>>

------------------------------------------------------------------------------
(* executeFromOutside(), and the chain.                                     *)

InBatch(batch) == {batch[i] : i \in DOMAIN batch}

\* All of a transaction, or nothing.  Nothing is read on the way to the chain:
\* the calldata is in the orders, so the step is the transaction's inclusion.
executeFromOutside(executor, batch) ==
  LET passes == \A i \in DOMAIN batch : Passes(made[batch[i]], executor, TakenBefore(batch, i))
  IN /\ \A i \in DOMAIN batch : pc[batch[i]] = "made"
     /\ last' = [batch |-> batch, executor |-> executor, at |-> now, passed |-> passes]
     /\ IF passes
        THEN /\ used' = [a \in Accounts |->
                  used[a] \union {nonce[o] : o \in {p \in InBatch(batch) : Account(p) = a}}]
             /\ stale' = stale \union
                  {o \in Orders : pc[o] \in {"chain id", "made"} /\
                     \E p \in InBatch(batch) : Account(p) = Account(o) /\ nonce[p] = nonce[o]}
        ELSE UNCHANGED <<used, stale>>
     /\ UNCHANGED <<pc, version, nonce, made, supports, now, replaced>>

Tick ==
  /\ now < MaxTime /\ now' = now + 1
  /\ UNCHANGED <<pc, version, nonce, made, supports, used, last, replaced, stale>>

\* The owner of an account replaces its class.
Replace(a) ==
  /\ a \notin replaced
  /\ \E s \in Supports : s # supports[a] /\ supports' = [supports EXCEPT ![a] = s]
  /\ replaced' = replaced \union {a}
  /\ UNCHANGED <<pc, version, nonce, made, used, now, last, stale>>

Next ==
  \/ \E o \in Orders :
       \/ Begin(o) \/ getSnip9Nonce(o) \/ RequestFails(o) \/ Sign(o)
       \/ \E v \in {"1", "2"} : getSnip9Version(o, v)
  \/ \E e \in Executors, b \in Batches : executeFromOutside(e, b)
  \/ Tick
  \/ \E a \in Accounts : Replace(a)

Spec == Init /\ [][Next]_vars

------------------------------------------------------------------------------
(* Properties.                                                              *)

Allows(caller, executor) == caller \in {<<"any">>, <<"hex", ANY_CALLER>>, <<"hex", executor>>}

\* What is executed are the calls that its order asked for: by the one it
\* named, or by anybody if it said so, and in its time.
ExecutedAsOrdered ==
  last.passed => \A i \in DOMAIN last.batch :
    LET o == last.batch[i] asked == Options(o)
    IN /\ ReadExecution(made[o].calldata).calls = CallsOf(o)
       /\ Allows(asked.caller, last.executor) /\ asked.after < last.at /\ last.at < asked.before

\* An execution is reverted only for a reason outside the library: the wrong
\* executor or time, a nonce used since it was asked for or given by the page,
\* a version given by the page or a class replaced since it was looked at.  What
\* is signed and what is sent, built apart from one another, agree.
RevertHasCause ==
  ~last.passed => \E i \in DOMAIN last.batch :
    LET o == last.batch[i] asked == Options(o)
    IN \/ ~Allows(asked.caller, last.executor)
       \/ last.at <= asked.after \/ asked.before <= last.at
       \/ o \in stale \/ Account(o) \in replaced
       \/ HasNonce(o) /\ nonce[o] \in used[Account(o)]
       \/ Version(o) # NotGiven /\ Version(o) \notin supports[Account(o)]
       \/ \E j \in 1..(i - 1) : Account(last.batch[j]) = Account(o) /\ nonce[last.batch[j]] = nonce[o]
=============================================================================
