-------------------------- MODULE TransactionWaiter --------------------------
(***************************************************************************)
(* waitForTransaction() of src/src/channel/rpc_0_7.ts (rpc_0_6.ts has the  *)
(* same lines): poll the status of a transaction until it is one of the    *)
(* success or error states, then poll its receipt.  Both loops spend one   *)
(* budget of retries.                                                      *)
(*                                                                         *)
(* The network advances the transaction; a node may lag behind it, not     *)
(* know the hash, or not answer.                                           *)
(***************************************************************************)
EXTENDS Naturals

CONSTANTS
  Retries,        \* the retries option of the channel
  ErrorChoices,   \* the values of options.errorStates to consider
  SuccessChoices  \* the values of options.successStates to consider

ASSUME RetriesAssumption == Retries \in Nat

\* The error states tell how a transaction ended, and so do not pass; RECEIVED,
\* which says nothing of how it will end, is not asked for as a success; who waits
\* for L2 takes L1.
ASSUME StatesAssumption ==
  /\ \A e \in ErrorChoices : e \subseteq {"REJECTED", "REVERTED"}
  /\ \A s \in SuccessChoices : s \intersect {"NOT_RECEIVED", "RECEIVED", "REJECTED", "none"} = {}
  /\ \A s \in SuccessChoices : "ACCEPTED_ON_L2" \in s => "ACCEPTED_ON_L1" \in s

VARIABLES
  tx,             \* the status of the transaction on the network
  errorStates,
  successStates,
  pc,             \* the loop of the waiter, or how it ended
  retries,        \* the retries left; the code lets it go below 0, where it
                  \* only compares it with 0
  polls           \* how many requests were sent, up to PollCap

vars == <<tx, errorStates, successStates, pc, retries, polls>>

PollCap == Retries + 1

------------------------------------------------------------------------------
(* The network.                                                             *)

Status(fin, exe) == [fin |-> fin, exe |-> exe]

Unknown == Status("NOT_RECEIVED", "none")
Received == Status("RECEIVED", "none")
Rejected == Status("REJECTED", "none")
ExecutionStates == {"SUCCEEDED", "REVERTED"}
Accepted(fin) == {Status(fin, exe) : exe \in ExecutionStates}
Included == Accepted("ACCEPTED_ON_L2") \union Accepted("ACCEPTED_ON_L1")
Statuses == {Unknown, Received, Rejected} \union Included

NextStatuses ==
  IF tx = Unknown THEN {Received}
  ELSE IF tx = Received THEN {Rejected} \union Accepted("ACCEPTED_ON_L2")
  ELSE IF tx.fin = "ACCEPTED_ON_L2" THEN {Status("ACCEPTED_ON_L1", tx.exe)}
  ELSE {}

NetworkAdvances ==
  /\ tx' \in NextStatuses
  /\ UNCHANGED <<errorStates, successStates, pc, retries, polls>>

\* The statuses some node may report: those the transaction has, or has had.
Reported ==
  (IF tx = Unknown THEN {} ELSE {Received, tx})
    \union {s \in Accepted("ACCEPTED_ON_L2") : tx \in Included /\ s.exe = tx.exe}

------------------------------------------------------------------------------
(* One turn of a loop: a request, then `retries -= 1` unless it threw.      *)

States(s) == {s.fin, s.exe}

InErrorState(s) == States(s) \intersect errorStates # {}

InSuccessState(s) == States(s) \intersect successStates # {}

\* Mutant: the success states are looked at first.
SuccessFirst(s) == InErrorState(s) /\ ~InSuccessState(s)

\* The error states are looked at first.
IsError(s) == InErrorState(s)

\* Mutant: the execution status is not compared with the success states.
FinalityOnly(s) == s.fin \in successStates

IsSuccess(s) == InSuccessState(s)

\* Mutant: a try is taken before its request is sent.
OneTryLess == retries <= 1

OutOfRetries == retries <= 0

RetriesAfter == IF retries > 0 THEN retries - 1 ELSE 0

Spend ==
  /\ retries' = RetriesAfter
  /\ polls' = IF polls < PollCap THEN polls + 1 ELSE polls

AfterFailure == IF OutOfRetries THEN "timedOut" ELSE "status"

\* No answer, an unknown hash, or an answer without a finality status.
StatusFails ==
  /\ pc = "status"
  /\ pc' = AfterFailure
  /\ Spend
  /\ UNCHANGED <<tx, errorStates, successStates>>

StatusArrives(s) ==
  /\ pc = "status"
  /\ s \in Reported
  /\ pc' = IF IsError(s) THEN "errorState"
           ELSE IF IsSuccess(s) THEN "receipt"
           ELSE "status"
  /\ Spend
  /\ UNCHANGED <<tx, errorStates, successStates>>

\* Some nodes report the status before they have the receipt.
ReceiptFails ==
  /\ pc = "receipt"
  /\ pc' = IF OutOfRetries THEN "timedOut" ELSE "receipt"
  /\ Spend
  /\ UNCHANGED <<tx, errorStates, successStates>>

ReceiptArrives ==
  /\ pc = "receipt"
  /\ tx \in Included
  /\ pc' = "returned"
  /\ Spend
  /\ UNCHANGED <<tx, errorStates, successStates>>

------------------------------------------------------------------------------
Init ==
  /\ tx \in {Unknown, Received}
  /\ errorStates \in ErrorChoices
  /\ successStates \in SuccessChoices
  /\ pc = "status"
  /\ retries = Retries
  /\ polls = 0

Poll ==
  \/ StatusFails
  \/ \E s \in Statuses : StatusArrives(s)
  \/ ReceiptFails
  \/ ReceiptArrives

Next == NetworkAdvances \/ Poll

Spec == Init /\ [][Next]_vars

\* The loops go on, and the node does not lag behind the network for ever.  The
\* network need not include the transaction, and no request has to fail.
FairSpec ==
  /\ Spec
  /\ WF_vars(StatusArrives(tx))
  /\ WF_vars(ReceiptFails \/ ReceiptArrives)
------------------------------------------------------------------------------
(* Properties *)

Ended == pc \in {"returned", "errorState", "timedOut"}

TypeOK ==
  /\ tx \in Statuses
  /\ errorStates \in ErrorChoices
  /\ successStates \in SuccessChoices
  /\ pc \in {"status", "receipt", "returned", "errorState", "timedOut"}
  /\ retries \in 0 .. Retries
  /\ polls \in 0 .. PollCap

\* A transaction that ends in one of the error states is never returned as a
\* success, although ACCEPTED_ON_L2 is a success state of a reverted one too.
NoErrorStateReturned == pc = "returned" => ~InErrorState(tx)

\* Only an error state of the transaction makes the waiter throw one; a node that
\* does not answer or does not know the hash never does.
ErrorStateIsReal == pc = "errorState" => InErrorState(tx)

\* The waiter goes on to the receipt, and returns it, only for a transaction in one
\* of the success states: a caller who asks for SUCCEEDED alone is never given a
\* reverted transaction, accepted as it may be.
SuccessIsReal == pc \in {"receipt", "returned"} => InSuccessState(tx)

\* What the waiter tells of the transaction is so, however old the answers were that
\* it acted on, and though a reverted transaction may be in states of both lists.
OutcomeTold == NoErrorStateReturned /\ ErrorStateIsReal /\ SuccessIsReal

\* The waiter gives up only when its requests have used up the retries, whichever
\* of the two loops they came from.
NoEarlyTimeout == pc = "timedOut" => polls = PollCap

\* Once the transaction has reached an error or success state the wait ends.
WaitEnds ==
  (InErrorState(tx) \/ InSuccessState(tx)) ~> Ended
==============================================================================
