----------------------------- MODULE AccountFlow -----------------------------
(***************************************************************************)
(* Calls of execute(), declareIfNot(), deployContract() and                *)
(* declareAndDeploy() of src/src/account/default.ts that run at the same   *)
(* time, of one account or of several, about one contract class.  Every    *)
(* await is a step, and a call acts on what earlier steps have read: that  *)
(* the class is not declared, the nonce, the estimate.                     *)
(*                                                                         *)
(* The chain is the external part: it takes an account's transactions in   *)
(* the order of their nonces, rejects those whose nonce is used and the    *)
(* declarations of a class that is declared, and reverts the deployments   *)
(* that fail.  waitForTransaction() is what TransactionWaiter shows it to  *)
(* be: with the default states it returns what was included, reverted or   *)
(* not, and throws for what was rejected.                                  *)
(***************************************************************************)
EXTENDS Naturals

CONSTANTS
  Calls,       \* the calls made
  Accounts,
  Addresses,   \* where the contract may be deployed: its salt and deployer
  JobChoices,  \* what the calls may be: functions from Calls to Jobs
  NoAddress    \* the undefined contract_address of a receipt without a UDC event

Methods == {"execute", "declareIfNot", "deployContract", "declareAndDeploy"}

Jobs == [account : Accounts, method : Methods, address : Addresses, feeGiven : BOOLEAN]

ASSUME FlowAssumption ==
  JobChoices \subseteq [Calls -> Jobs] /\ NoAddress \notin Addresses

VARIABLES
  job,        \* the method and arguments of each call
  declared,   \* the class is declared
  contracts,  \* the addresses that hold a contract
  nonceOf,    \* the next nonce of each account
  txStatus,   \* what became of the transactions: each call sends one of a kind at most
  txNonce,    \* and the nonces they were sent with
  pc,
  nonce,      \* the nonce each call has read
  address     \* the contract_address each call has returned

vars == <<job, declared, contracts, nonceOf, txStatus, txNonce, pc, nonce, address>>

Kinds == {"declare", "invoke"}
Ended == {"returned", "failed", "alreadyDeclared"}

Account(c) == job[c].account
DeclaresFirst(c) == job[c].method \in {"declareIfNot", "declareAndDeploy"}
Deploys(c) == job[c].method \in {"deployContract", "declareAndDeploy"}

chain == <<declared, contracts, nonceOf>>
txs == <<txStatus, txNonce>>

GoTo(c, l) == pc' = [pc EXCEPT ![c] = l]

------------------------------------------------------------------------------
(* The chain.                                                               *)

Effect(c, kind) ==
  IF kind = "declare" THEN
    IF declared THEN "rejected" ELSE "succeeded"
  ELSE IF ~Deploys(c) THEN "succeeded"
  ELSE IF declared /\ job[c].address \notin contracts THEN "succeeded"
  ELSE "reverted"

Include(c, kind) ==
  /\ txStatus[<<c, kind>>] = "received"
  /\ txNonce[<<c, kind>>] = nonceOf[Account(c)]
  /\ txStatus' = [txStatus EXCEPT ![<<c, kind>>] = Effect(c, kind)]
  /\ declared' = (declared \/ kind = "declare")
  /\ contracts' = IF kind = "invoke" /\ Deploys(c) /\ Effect(c, kind) = "succeeded"
                  THEN contracts \union {job[c].address} ELSE contracts
  /\ nonceOf' = IF Effect(c, kind) = "rejected" THEN nonceOf
                ELSE [nonceOf EXCEPT ![Account(c)] = @ + 1]
  /\ UNCHANGED <<job, txNonce, pc, nonce, address>>

Reject(c, kind) ==
  /\ txStatus[<<c, kind>>] = "received"
  /\ txNonce[<<c, kind>>] < nonceOf[Account(c)]
  /\ txStatus' = [txStatus EXCEPT ![<<c, kind>>] = "rejected"]
  /\ UNCHANGED <<job, chain, txNonce, pc, nonce, address>>

\* A node refuses at once what it can see to be wrong.
Refuses(c, kind) ==
  nonce[c] < nonceOf[Account(c)] \/ (kind = "declare" /\ declared)

Submit(c, kind) ==
  /\ ~Refuses(c, kind)
  /\ txStatus' = [txStatus EXCEPT ![<<c, kind>>] = "received"]
  /\ txNonce' = [txNonce EXCEPT ![<<c, kind>>] = nonce[c]]

------------------------------------------------------------------------------
(* declareIfNot()                                                           *)

\* getClassByHash() succeeds: nothing is declared, and transaction_hash is ''.
ClassFound(c) ==
  /\ pc[c] = "lookUp"
  /\ declared
  /\ GoTo(c, IF Deploys(c) THEN "readNonce" ELSE "returned")
  /\ UNCHANGED <<job, chain, txs, nonce, address>>

\* It throws, for whatever reason.
LookUpFails(c) ==
  /\ pc[c] = "lookUp"
  /\ GoTo(c, "estimateDeclare")
  /\ UNCHANGED <<job, chain, txs, nonce, address>>

\* The fee estimate runs the declaration on the node.
EstimateDeclare(c) ==
  /\ pc[c] = "estimateDeclare"
  /\ GoTo(c, IF declared /\ ~job[c].feeGiven THEN "alreadyDeclared" ELSE "readDeclareNonce")
  /\ UNCHANGED <<job, chain, txs, nonce, address>>

NonceRead(c) == nonceOf[Account(c)]

\* declare() reads its nonce after the estimate.
ReadDeclareNonce(c) ==
  /\ pc[c] = "readDeclareNonce"
  /\ nonce' = [nonce EXCEPT ![c] = NonceRead(c)]
  /\ GoTo(c, "sendDeclare")
  /\ UNCHANGED <<job, chain, txs, address>>

\* Mutant: declareAndDeploy() does not wait for its declaration.
NoWait(c) == IF Deploys(c) THEN "readNonce" ELSE "returned"

AfterDeclare(c) == IF Deploys(c) THEN "waitDeclare" ELSE "returned"

SendDeclare(c) ==
  /\ pc[c] = "sendDeclare"
  /\ Submit(c, "declare")
  /\ GoTo(c, AfterDeclare(c))
  /\ UNCHANGED <<job, chain, nonce, address>>

DeclareRefused(c) ==
  /\ pc[c] = "sendDeclare"
  /\ Refuses(c, "declare")
  /\ GoTo(c, IF declared THEN "alreadyDeclared" ELSE "failed")
  /\ UNCHANGED <<job, chain, txs, nonce, address>>

------------------------------------------------------------------------------
(* waitForTransaction() with its default states.                            *)

\* Mutant: REJECTED is a success state, too.
AnyStatus == {"succeeded", "reverted", "rejected"}

\* Mutant: a reverted transaction is waited for.
OnlySucceeded == {"succeeded"}

Successes == {"succeeded", "reverted"}

WaitDeclare(c) ==
  /\ pc[c] = "waitDeclare"
  /\ txStatus[<<c, "declare">>] \in Successes
  /\ GoTo(c, "readNonce")
  /\ UNCHANGED <<job, chain, txs, nonce, address>>

\* Mutant: the address computed by buildUDCCall(), whatever became of the transaction.
ComputedAddress(c) == job[c].address

\* parseUDCEvent() takes the address from the event of the universal deployer; the
\* receipt of a reverted transaction has none, and the address is undefined.
UDCAddress(c) ==
  IF txStatus[<<c, "invoke">>] = "succeeded" THEN job[c].address ELSE NoAddress

WaitDeploy(c) ==
  /\ pc[c] = "waitDeploy"
  /\ txStatus[<<c, "invoke">>] \in Successes
  /\ address' = [address EXCEPT ![c] = UDCAddress(c)]
  /\ GoTo(c, "returned")
  /\ UNCHANGED <<job, chain, txs, nonce>>

WaitThrows(c) ==
  /\ \/ pc[c] = "waitDeclare" /\ txStatus[<<c, "declare">>] = "rejected"
     \/ pc[c] = "waitDeploy" /\ txStatus[<<c, "invoke">>] = "rejected"
  /\ GoTo(c, IF pc[c] = "waitDeclare" /\ declared THEN "alreadyDeclared" ELSE "failed")
  /\ UNCHANGED <<job, chain, txs, nonce, address>>

------------------------------------------------------------------------------
(* execute(), which deploy() calls with the call of the universal deployer. *)

ReadNonce(c) ==
  /\ pc[c] = "readNonce"
  /\ nonce' = [nonce EXCEPT ![c] = NonceRead(c)]
  /\ GoTo(c, "estimate")
  /\ UNCHANGED <<job, chain, txs, address>>

\* Mutant: no fee is ever estimated.
NeverEstimates(c) == TRUE

\* The estimate runs the calls on the node; a caller who gives the fee has none.
EstimatePasses(c) ==
  job[c].feeGiven \/ Effect(c, "invoke") = "succeeded"

Estimate(c) ==
  /\ pc[c] = "estimate"
  /\ GoTo(c, IF EstimatePasses(c) THEN "send" ELSE "failed")
  /\ UNCHANGED <<job, chain, txs, nonce, address>>

Send(c) ==
  /\ pc[c] = "send"
  /\ Submit(c, "invoke")
  /\ GoTo(c, IF Deploys(c) THEN "waitDeploy" ELSE "returned")
  /\ UNCHANGED <<job, chain, nonce, address>>

SendRefused(c) ==
  /\ pc[c] = "send"
  /\ Refuses(c, "invoke")
  /\ GoTo(c, "failed")
  /\ UNCHANGED <<job, chain, txs, nonce, address>>

\* Any other request may fail, and ends the call.  What is sent may have arrived
\* all the same; the waiter repeats its requests.
RequestFails(c) ==
  /\ pc[c] \in {"estimateDeclare", "readDeclareNonce", "sendDeclare",
                "readNonce", "estimate", "send"}
  /\ \/ UNCHANGED txs
     \/ pc[c] = "sendDeclare" /\ Submit(c, "declare")
     \/ pc[c] = "send" /\ Submit(c, "invoke")
  /\ GoTo(c, "failed")
  /\ UNCHANGED <<job, chain, nonce, address>>

------------------------------------------------------------------------------
Init ==
  /\ job \in JobChoices
  /\ declared \in BOOLEAN
  /\ contracts = {}
  /\ nonceOf = [a \in Accounts |-> 0]
  /\ txStatus = [t \in Calls \X Kinds |-> "none"]
  /\ txNonce = [t \in Calls \X Kinds |-> 0]
  /\ pc = [c \in Calls |-> IF DeclaresFirst(c) THEN "lookUp" ELSE "readNonce"]
  /\ nonce = [c \in Calls |-> 0]
  /\ address = [c \in Calls |-> NoAddress]

ChainStep == \E c \in Calls, kind \in Kinds : Include(c, kind) \/ Reject(c, kind)

CallStep(c) ==
  \/ ClassFound(c)
  \/ LookUpFails(c)
  \/ EstimateDeclare(c)
  \/ ReadDeclareNonce(c)
  \/ SendDeclare(c)
  \/ DeclareRefused(c)
  \/ WaitDeclare(c)
  \/ WaitDeploy(c)
  \/ WaitThrows(c)
  \/ ReadNonce(c)
  \/ Estimate(c)
  \/ Send(c)
  \/ SendRefused(c)
  \/ RequestFails(c)

Next == ChainStep \/ \E c \in Calls : CallStep(c)

Spec == Init /\ [][Next]_vars

\* Requests are answered, and the chain gets to every transaction.
FairSpec ==
  /\ Spec
  /\ WF_vars(ChainStep)
  /\ \A c \in Calls : WF_vars(CallStep(c))
------------------------------------------------------------------------------
(* Properties *)

Statuses == {"none", "received", "succeeded", "reverted", "rejected"}
IsSent(c, kind) == txStatus[<<c, kind>>] # "none"

TypeOK ==
  /\ job \in JobChoices
  /\ declared \in BOOLEAN
  /\ contracts \subseteq Addresses
  /\ nonceOf \in [Accounts -> Nat]
  /\ txStatus \in [Calls \X Kinds -> Statuses]
  /\ txNonce \in [Calls \X Kinds -> Nat]
  /\ pc \in [Calls -> {"lookUp", "estimateDeclare", "readDeclareNonce", "sendDeclare",
                       "waitDeclare", "readNonce", "estimate", "send", "waitDeploy"}
                        \union Ended]
  /\ nonce \in [Calls -> Nat]
  /\ address \in [Calls -> Addresses \union {NoAddress}]

\* The two transactions of one declareAndDeploy() never compete for a nonce, whatever
\* other calls do: the nonce of the second is read after the first was included.
OwnTransactionsApart ==
  \A c \in Calls : IsSent(c, "declare") /\ IsSent(c, "invoke")
    => txNonce[<<c, "declare">>] < txNonce[<<c, "invoke">>]

\* No nonce is left out: the chain can take, or reject, every transaction that waits,
\* whatever became of the other transactions of its account.
NoNonceGap ==
  \A c \in Calls, kind \in Kinds :
    IsSent(c, kind) => txNonce[<<c, kind>>] <= nonceOf[Account(c)]

\* No interleaving of calls, and no refused or rejected transaction, leaves a
\* transaction waiting for a nonce that will not come or that is taken by its own call.
NoncesFit == OwnTransactionsApart /\ NoNonceGap

\* Unless the caller gave the fee, no deployment of an undeclared class is sent, and
\* none can fail unless another call deploys to the same address meanwhile.
DeploymentsCanSucceed ==
  \A c \in Calls : Deploys(c) /\ ~job[c].feeGiven /\ IsSent(c, "invoke") =>
    /\ declared
    /\ txStatus[<<c, "invoke">>] = "reverted" => job[c].address \in contracts

\* What deployContract() and declareAndDeploy() return is true, although they read a
\* receipt that may be of a reverted transaction: the contract is there.
ReturnedAddressHolds ==
  \A c \in Calls : address[c] # NoAddress =>
    declared /\ job[c].address \in contracts /\ address[c] = job[c].address

\* Of several calls that race to the same address one at most returns it.
OneDeployerPerAddress ==
  \A c, d \in Calls :
    c # d /\ address[c] # NoAddress => address[c] # address[d]

\* An address that is returned is that of the contract which this very call deployed.
AddressesHold == ReturnedAddressHolds /\ OneDeployerPerAddress

\* A call of declareIfNot() that returns no transaction, and one of declareAndDeploy()
\* that goes on to deploy, has the class declared.
GoesOnIfDeclared ==
  \A c \in Calls : DeclaresFirst(c)
    /\ pc[c] \in {"readNonce", "estimate", "send", "waitDeploy", "returned"}
    => declared \/ (~Deploys(c) /\ IsSent(c, "declare"))

\* Every call returns or throws.
EveryCallEnds == \A c \in Calls : <>(pc[c] \in Ended)
==============================================================================
