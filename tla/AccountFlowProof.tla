--------------------------- MODULE AccountFlowProof ---------------------------
(***************************************************************************)
(* The safety of concurrent calls, for any calls, accounts and addresses.  *)
(* What the invariant says of a call is kept by the steps of the others    *)
(* because these only let the chain grow; so each step is proved for the   *)
(* call that takes it.                                                     *)
(***************************************************************************)
EXTENDS AccountFlow, TLAPS

Labels == {"lookUp", "estimateDeclare", "readDeclareNonce", "sendDeclare",
           "waitDeclare", "readNonce", "estimate", "send", "waitDeploy"} \union Ended

\* Where a call is tells what it has sent, and what it was made for.
SentWhere(c) ==
  /\ IsSent(c, "declare") =>
       pc[c] \notin {"lookUp", "estimateDeclare", "readDeclareNonce", "sendDeclare"}
  /\ IsSent(c, "invoke") => pc[c] \in {"waitDeploy"} \union Ended
  /\ pc[c] = "waitDeploy" => Deploys(c)
  /\ pc[c] = "waitDeclare" => Deploys(c) /\ IsSent(c, "declare")

\* The chain has counted every nonce that was read, sent or taken.
NonceCounted(c) ==
  /\ nonce[c] <= nonceOf[Account(c)]
  /\ \A kind \in Kinds :
       /\ IsSent(c, kind) => txNonce[<<c, kind>>] <= nonceOf[Account(c)]
       /\ txStatus[<<c, kind>>] \in {"succeeded", "reverted"} =>
            txNonce[<<c, kind>>] < nonceOf[Account(c)]

\* A call that goes on after its declaration has seen it included.
Apart(c) ==
  /\ IsSent(c, "declare") /\ pc[c] \in {"readNonce", "estimate", "send"} =>
       txStatus[<<c, "declare">>] \in {"succeeded", "reverted"}
  /\ IsSent(c, "declare") /\ pc[c] \in {"estimate", "send"} =>
       txNonce[<<c, "declare">>] < nonce[c]
  /\ IsSent(c, "declare") /\ IsSent(c, "invoke") =>
       txNonce[<<c, "declare">>] < txNonce[<<c, "invoke">>]

\* What became of the transactions of a call shows on the chain.
OnChain(c) ==
  /\ txStatus[<<c, "declare">>] # "reverted"
  /\ txStatus[<<c, "declare">>] = "succeeded" => declared
  /\ Deploys(c) /\ txStatus[<<c, "invoke">>] = "succeeded" =>
       declared /\ job[c].address \in contracts
  /\ Deploys(c) /\ ~job[c].feeGiven /\ (pc[c] = "send" \/ IsSent(c, "invoke")) => declared
  /\ Deploys(c) /\ ~job[c].feeGiven /\ txStatus[<<c, "invoke">>] = "reverted" =>
       job[c].address \in contracts
  /\ DeclaresFirst(c)
       /\ pc[c] \in {"readNonce", "estimate", "send", "waitDeploy", "returned"}
       => declared \/ (~Deploys(c) /\ IsSent(c, "declare"))

AddressReturned(c) ==
  address[c] # NoAddress =>
    /\ Deploys(c)
    /\ pc[c] = "returned"
    /\ txStatus[<<c, "invoke">>] = "succeeded"
    /\ address[c] = job[c].address

CallInv(c) ==
  SentWhere(c) /\ NonceCounted(c) /\ Apart(c) /\ OnChain(c) /\ AddressReturned(c)

\* No address was deployed to twice.
DeployedOnce ==
  \A c, d \in Calls :
    c # d /\ Deploys(c) /\ Deploys(d)
      /\ txStatus[<<c, "invoke">>] = "succeeded" /\ txStatus[<<d, "invoke">>] = "succeeded"
    => job[c].address # job[d].address

IInv == TypeOK /\ (\A c \in Calls : CallInv(c)) /\ DeployedOnce

\* What a step may do to the chain, and to a call that does not take it.
Grows ==
  /\ job' = job
  /\ declared => declared'
  /\ contracts \subseteq contracts'
  /\ \A a \in Accounts : nonceOf[a] <= nonceOf'[a]

Same(d) ==
  /\ pc'[d] = pc[d] /\ nonce'[d] = nonce[d] /\ address'[d] = address[d]
  /\ \A kind \in Kinds :
       txStatus'[<<d, kind>>] = txStatus[<<d, kind>>] /\ txNonce'[<<d, kind>>] = txNonce[<<d, kind>>]

LEMMA JobType ==
  ASSUME TypeOK, NEW c \in Calls
  PROVE  /\ Account(c) \in Accounts
         /\ job[c].address \in Addresses
         /\ job[c].address # NoAddress
<1>1. job[c] \in Jobs
  BY FlowAssumption DEF TypeOK
<1> QED BY <1>1, FlowAssumption DEF Jobs, Account

LEMMA OthersKeep ==
  ASSUME TypeOK, TypeOK', NEW d \in Calls, CallInv(d), Grows, Same(d)
  PROVE  CallInv(d)'
<1>1. /\ Account(d) \in Accounts /\ Account(d)' = Account(d)
      /\ (Deploys(d)' <=> Deploys(d)) /\ (DeclaresFirst(d)' <=> DeclaresFirst(d))
  BY JobType DEF Grows, Account, Deploys, DeclaresFirst
<1>2. \A kind \in Kinds : IsSent(d, kind)' <=> IsSent(d, kind)
  BY DEF Same, IsSent
<1>3. "declare" \in Kinds /\ "invoke" \in Kinds
  BY DEF Kinds
<1>4. SentWhere(d)'
  BY <1>1, <1>2, <1>3 DEF CallInv, SentWhere, Same
<1>5. NonceCounted(d)'
  <2>1. nonceOf[Account(d)] \in Nat /\ nonceOf'[Account(d)] \in Nat
        /\ nonceOf[Account(d)] <= nonceOf'[Account(d)] /\ nonce[d] \in Nat
    BY <1>1 DEF TypeOK, Grows
  <2>2. nonce'[d] <= nonceOf'[Account(d)]
    BY <2>1 DEF CallInv, NonceCounted, Same
  <2>3. ASSUME NEW kind \in Kinds
        PROVE  /\ IsSent(d, kind) => txNonce[<<d, kind>>] <= nonceOf'[Account(d)]
               /\ txStatus[<<d, kind>>] \in {"succeeded", "reverted"} =>
                    txNonce[<<d, kind>>] < nonceOf'[Account(d)]
    <3>1. txNonce[<<d, kind>>] \in Nat
      BY DEF TypeOK
    <3> QED BY <2>1, <3>1 DEF CallInv, NonceCounted
  <2> QED BY <1>1, <1>2, <2>2, <2>3 DEF NonceCounted, Same
<1>6. Apart(d)'
  BY <1>1, <1>2, <1>3 DEF CallInv, Apart, Same
<1>7. OnChain(d)'
  BY <1>1, <1>2, <1>3 DEF CallInv, OnChain, Same, Grows
<1>8. AddressReturned(d)'
  BY <1>1, <1>2, <1>3 DEF CallInv, AddressReturned, Same, Grows
<1> QED BY <1>4, <1>5, <1>6, <1>7, <1>8 DEF CallInv

LEMMA InitIInv == Init => IInv
<1> SUFFICES ASSUME Init PROVE IInv
  OBVIOUS
<1>1. TypeOK
  BY DEF Init, TypeOK, Statuses
<1>2. ASSUME NEW c \in Calls PROVE CallInv(c)
  <2>1. /\ ~IsSent(c, "declare") /\ ~IsSent(c, "invoke")
        /\ \A kind \in Kinds : txStatus[<<c, kind>>] = "none"
        /\ txStatus[<<c, "declare">>] = "none" /\ txStatus[<<c, "invoke">>] = "none"
    BY DEF Init, IsSent, Kinds
  <2>2. nonce[c] = 0 /\ nonceOf[Account(c)] = 0 /\ address[c] = NoAddress
    BY <1>1, JobType DEF Init
  <2>3. pc[c] = IF DeclaresFirst(c) THEN "lookUp" ELSE "readNonce"
    BY DEF Init
  <2> QED BY <2>1, <2>2, <2>3
          DEF CallInv, SentWhere, NonceCounted, Apart, OnChain, AddressReturned, IsSent
<1>3. DeployedOnce
  BY DEF Init, DeployedOnce, Kinds
<1> QED BY <1>1, <1>2, <1>3 DEF IInv

------------------------------------------------------------------------------
(* The steps of a call.                                                     *)

\* A step of c is one that moves c alone.
Moves(c, l) ==
  /\ pc' = [pc EXCEPT ![c] = l]
  /\ job' = job /\ declared' = declared /\ contracts' = contracts /\ nonceOf' = nonceOf
  /\ \A d \in Calls : d # c => /\ nonce'[d] = nonce[d]
                                /\ address'[d] = address[d]
  /\ \A d \in Calls, kind \in Kinds : d # c =>
       /\ txStatus'[<<d, kind>>] = txStatus[<<d, kind>>]
       /\ txNonce'[<<d, kind>>] = txNonce[<<d, kind>>]
  /\ \A kind \in Kinds :
       txStatus'[<<c, kind>>] \in {"received", txStatus[<<c, kind>>]}

LEMMA MoveIInv ==
  ASSUME IInv, TypeOK', NEW c \in Calls, NEW l \in Labels, Moves(c, l), CallInv(c)'
  PROVE  IInv'
<1>1. Grows
  BY DEF Moves, Grows, IInv, TypeOK
<1>2. ASSUME NEW d \in Calls PROVE CallInv(d)'
  <2>1. CASE d # c
    <3>1. Same(d)
      BY <2>1 DEF Moves, Same, IInv, TypeOK
    <3> QED BY <3>1, <1>1, OthersKeep DEF IInv
  <2> QED BY <2>1
<1>3. DeployedOnce'
  <2>1. \A d \in Calls : txStatus'[<<d, "invoke">>] = "succeeded" =>
          txStatus[<<d, "invoke">>] = "succeeded"
    BY DEF Moves, Kinds
  <2>2. \A d \in Calls : Deploys(d)' <=> Deploys(d)
    BY DEF Moves, Deploys
  <2> QED BY <2>1, <2>2 DEF IInv, DeployedOnce, Moves
<1> QED BY <1>2, <1>3 DEF IInv

\* Steps that only go on, to a place from which nothing more is promised.
LEMMA GoToIInv ==
  ASSUME IInv, NEW c \in Calls, NEW l \in Labels,
         GoTo(c, l), UNCHANGED <<job, chain, txs, nonce, address>>,
         pc[c] \notin Ended,
         l \in {"estimateDeclare", "readDeclareNonce"} => ~IsSent(c, "declare"),
         l \notin {"lookUp", "sendDeclare", "waitDeclare", "estimate", "waitDeploy"},
         IsSent(c, "invoke") => l \in Ended,
         l \in {"readNonce", "send"} /\ IsSent(c, "declare") =>
           txStatus[<<c, "declare">>] \in {"succeeded", "reverted"},
         l = "send" /\ IsSent(c, "declare") => txNonce[<<c, "declare">>] < nonce[c],
         l = "send" /\ Deploys(c) /\ ~job[c].feeGiven => declared,
         DeclaresFirst(c) /\ l \in {"readNonce", "send", "returned"} =>
           declared \/ (~Deploys(c) /\ IsSent(c, "declare"))
  PROVE  IInv'
<1>1. UNCHANGED job /\ UNCHANGED chain /\ UNCHANGED txs /\ UNCHANGED nonce
      /\ UNCHANGED address /\ pc' = [pc EXCEPT ![c] = l]
  BY DEF GoTo
<1>2. TypeOK'
  BY <1>1 DEF IInv, TypeOK, chain, txs, Labels
<1>3. pc'[c] = l
  BY <1>1 DEF IInv, TypeOK
<1>4. Moves(c, l)
  BY <1>1 DEF Moves, chain, txs
<1>5. /\ Account(c)' = Account(c) /\ (Deploys(c)' <=> Deploys(c))
      /\ (DeclaresFirst(c)' <=> DeclaresFirst(c))
      /\ \A kind \in Kinds : IsSent(c, kind)' <=> IsSent(c, kind)
      /\ (IsSent(c, "declare")' <=> IsSent(c, "declare"))
      /\ (IsSent(c, "invoke")' <=> IsSent(c, "invoke"))
  BY <1>1 DEF Account, Deploys, DeclaresFirst, IsSent, txs
<1>6. CallInv(c)
  BY DEF IInv
<1>7. SentWhere(c)'
  BY <1>3, <1>5, <1>6 DEF CallInv, SentWhere, Ended, Labels
<1>8. NonceCounted(c)'
  BY <1>1, <1>5, <1>6 DEF CallInv, NonceCounted, chain, txs
<1>9. Apart(c)'
  BY <1>1, <1>3, <1>5, <1>6 DEF CallInv, Apart, txs
<1>10. OnChain(c)'
  BY <1>1, <1>3, <1>5, <1>6 DEF CallInv, OnChain, txs, chain
<1>11. AddressReturned(c)'
  <2>1. address[c] = NoAddress
    BY <1>6 DEF CallInv, AddressReturned, Ended
  <2> QED BY <1>1, <2>1 DEF AddressReturned
<1> QED BY <1>2, <1>4, <1>7, <1>8, <1>9, <1>10, <1>11, MoveIInv DEF CallInv

\* A transaction is sent with the nonce that was read.
LEMMA SubmitIInv ==
  ASSUME IInv, NEW c \in Calls, NEW kind \in Kinds, NEW l \in Labels,
         Submit(c, kind), GoTo(c, l), UNCHANGED <<job, chain, nonce, address>>,
         \/ kind = "declare" /\ pc[c] = "sendDeclare"
              /\ (l = "waitDeclare" => Deploys(c)) /\ (l = "returned" => ~Deploys(c))
         \/ kind = "invoke" /\ pc[c] = "send"
              /\ (l = "waitDeploy" => Deploys(c)),
         l \in {"waitDeclare", "waitDeploy"} \union Ended,
         l = "waitDeclare" => kind = "declare",
         l = "waitDeploy" => kind = "invoke"
  PROVE  IInv'
<1>1. UNCHANGED job /\ UNCHANGED chain /\ UNCHANGED nonce
      /\ UNCHANGED address /\ pc' = [pc EXCEPT ![c] = l]
  BY DEF GoTo
<1>2. /\ txStatus' = [txStatus EXCEPT ![<<c, kind>>] = "received"]
      /\ txNonce' = [txNonce EXCEPT ![<<c, kind>>] = nonce[c]]
  BY DEF Submit
<1>3. TypeOK'
  BY <1>1, <1>2 DEF IInv, TypeOK, chain, Labels, Statuses
<1>4. pc'[c] = l
  BY <1>1 DEF IInv, TypeOK
<1>5. /\ txStatus'[<<c, kind>>] = "received" /\ txNonce'[<<c, kind>>] = nonce[c]
      /\ \A d \in Calls, k \in Kinds : <<d, k>> # <<c, kind>> =>
           /\ txStatus'[<<d, k>>] = txStatus[<<d, k>>]
           /\ txNonce'[<<d, k>>] = txNonce[<<d, k>>]
  BY <1>2 DEF IInv, TypeOK
<1>6. Moves(c, l)
  BY <1>1, <1>5 DEF Moves, chain
<1>7. /\ Account(c)' = Account(c) /\ (Deploys(c)' <=> Deploys(c))
      /\ (DeclaresFirst(c)' <=> DeclaresFirst(c))
  BY <1>1 DEF Account, Deploys, DeclaresFirst
<1>8. CallInv(c) /\ "declare" \in Kinds /\ "invoke" \in Kinds
  BY DEF IInv, Kinds
<1>9. \A k \in Kinds : k # kind =>
        /\ txStatus'[<<c, k>>] = txStatus[<<c, k>>] /\ txNonce'[<<c, k>>] = txNonce[<<c, k>>]
        /\ IsSent(c, k)' <=> IsSent(c, k)
  BY <1>5 DEF IsSent
<1>10. IsSent(c, kind)'
  BY <1>5 DEF IsSent
<1>11. (kind = "invoke" /\ Deploys(c) /\ ~job[c].feeGiven) => declared
  BY <1>8 DEF CallInv, OnChain
<1>12. kind = "declare" => ~IsSent(c, "invoke") /\ ~IsSent(c, "invoke")'
  BY <1>8, <1>9 DEF CallInv, SentWhere, Ended
<1>13. kind = "invoke" => ~IsSent(c, "invoke")
  BY <1>8 DEF CallInv, SentWhere, Ended
<1>14. SentWhere(c)'
  BY <1>4, <1>7, <1>8, <1>10, <1>12 DEF SentWhere, Ended, Labels
<1>15. NonceCounted(c)'
  BY <1>1, <1>5, <1>7, <1>8, <1>9 DEF CallInv, NonceCounted, chain
<1>16. Apart(c)'
  BY <1>4, <1>5, <1>8, <1>9, <1>12 DEF CallInv, Apart, Ended
<1>17. OnChain(c)'
  BY <1>1, <1>4, <1>5, <1>7, <1>8, <1>9, <1>10, <1>11, <1>12
     DEF CallInv, OnChain, chain, Ended
<1>18. AddressReturned(c)'
  <2>1. address[c] = NoAddress
    BY <1>8 DEF CallInv, AddressReturned
  <2> QED BY <1>1, <2>1 DEF AddressReturned
<1> QED BY <1>3, <1>6, <1>14, <1>15, <1>16, <1>17, <1>18, MoveIInv DEF CallInv

\* A nonce is read.
LEMMA ReadIInv ==
  ASSUME IInv, NEW c \in Calls, NEW l \in Labels,
         nonce' = [nonce EXCEPT ![c] = NonceRead(c)],
         GoTo(c, l), UNCHANGED <<job, chain, txs, address>>,
         \/ pc[c] = "readDeclareNonce" /\ l = "sendDeclare"
         \/ pc[c] = "readNonce" /\ l = "estimate"
  PROVE  IInv'
<1>1. UNCHANGED job /\ UNCHANGED chain /\ UNCHANGED txs
      /\ UNCHANGED address /\ pc' = [pc EXCEPT ![c] = l]
  BY DEF GoTo
<1>2. Account(c) \in Accounts
  BY JobType DEF IInv
<1>3. nonceOf[Account(c)] \in Nat
  BY <1>2 DEF IInv, TypeOK
<1>4. TypeOK'
  BY <1>1, <1>3 DEF IInv, TypeOK, chain, txs, Labels, NonceRead
<1>5. pc'[c] = l /\ nonce'[c] = nonceOf[Account(c)]
  BY <1>1 DEF IInv, TypeOK, NonceRead
<1>6. Moves(c, l)
  BY <1>1 DEF Moves, chain, txs, IInv, TypeOK
<1>7. /\ Account(c)' = Account(c) /\ (Deploys(c)' <=> Deploys(c))
      /\ (DeclaresFirst(c)' <=> DeclaresFirst(c))
      /\ (IsSent(c, "declare")' <=> IsSent(c, "declare"))
      /\ (IsSent(c, "invoke")' <=> IsSent(c, "invoke"))
      /\ \A kind \in Kinds : IsSent(c, kind)' <=> IsSent(c, kind)
  BY <1>1 DEF Account, Deploys, DeclaresFirst, IsSent, txs
<1>8. CallInv(c) /\ "declare" \in Kinds /\ "invoke" \in Kinds
  BY DEF IInv, Kinds
<1>9. SentWhere(c)'
  BY <1>5, <1>7, <1>8 DEF CallInv, SentWhere, Ended
<1>10. NonceCounted(c)'
  BY <1>1, <1>3, <1>5, <1>7, <1>8 DEF CallInv, NonceCounted, chain, txs
<1>11. Apart(c)'
  BY <1>1, <1>5, <1>7, <1>8 DEF CallInv, Apart, NonceCounted, SentWhere, Ended, txs
<1>12. OnChain(c)'
  BY <1>1, <1>5, <1>7, <1>8 DEF CallInv, OnChain, chain, txs
<1>13. AddressReturned(c)'
  <2>1. address[c] = NoAddress
    BY <1>8 DEF CallInv, AddressReturned
  <2> QED BY <1>1, <2>1 DEF AddressReturned
<1> QED BY <1>4, <1>6, <1>9, <1>10, <1>11, <1>12, <1>13, MoveIInv DEF CallInv

\* A deployment that has succeeded is returned with its address, any other without.
LEMMA WaitDeployIInv ==
  ASSUME IInv, NEW c \in Calls, WaitDeploy(c)
  PROVE  IInv'
<1>1. /\ pc[c] = "waitDeploy" /\ txStatus[<<c, "invoke">>] \in {"succeeded", "reverted"}
      /\ UNCHANGED job /\ UNCHANGED chain /\ UNCHANGED txs /\ UNCHANGED nonce
      /\ address' = [address EXCEPT ![c] = UDCAddress(c)]
      /\ pc' = [pc EXCEPT ![c] = "returned"]
  BY DEF WaitDeploy, GoTo, Successes
<1>2. UDCAddress(c) \in Addresses \union {NoAddress}
  BY JobType DEF UDCAddress, IInv
<1>3. TypeOK'
  BY <1>1, <1>2 DEF IInv, TypeOK, chain, txs, Ended
<1>4. pc'[c] = "returned" /\ address'[c] = UDCAddress(c)
  BY <1>1 DEF IInv, TypeOK
<1>5. Moves(c, "returned")
  BY <1>1 DEF Moves, chain, txs, IInv, TypeOK
<1>6. /\ Account(c)' = Account(c) /\ (Deploys(c)' <=> Deploys(c))
      /\ (DeclaresFirst(c)' <=> DeclaresFirst(c))
      /\ (IsSent(c, "declare")' <=> IsSent(c, "declare"))
      /\ (IsSent(c, "invoke")' <=> IsSent(c, "invoke"))
      /\ \A kind \in Kinds : IsSent(c, kind)' <=> IsSent(c, kind)
  BY <1>1 DEF Account, Deploys, DeclaresFirst, IsSent, txs
<1>7. CallInv(c)
  BY DEF IInv
<1>8. SentWhere(c)'
  BY <1>4, <1>6, <1>7 DEF SentWhere, Ended
<1>9. NonceCounted(c)'
  BY <1>1, <1>6, <1>7 DEF CallInv, NonceCounted, chain, txs
<1>10. Apart(c)'
  BY <1>1, <1>4, <1>6, <1>7 DEF CallInv, Apart, txs
<1>11. OnChain(c)'
  BY <1>1, <1>4, <1>6, <1>7 DEF CallInv, OnChain, chain, txs
<1>12. AddressReturned(c)'
  BY <1>1, <1>4, <1>6, <1>7 DEF CallInv, SentWhere, AddressReturned, UDCAddress, txs
<1> QED BY <1>3, <1>5, <1>8, <1>9, <1>10, <1>11, <1>12, MoveIInv DEF CallInv, Labels, Ended

LEMMA CallIInv ==
  ASSUME IInv, NEW c \in Calls, CallStep(c)
  PROVE  IInv'
<1>1. SentWhere(c) /\ NonceCounted(c) /\ Apart(c) /\ OnChain(c)
  BY DEF IInv, CallInv
<1>2. CASE ClassFound(c)
  <2>1. ~IsSent(c, "declare") /\ ~IsSent(c, "invoke") /\ pc[c] \notin Ended
    BY <1>1, <1>2 DEF ClassFound, SentWhere, Ended
  <2>2. CASE Deploys(c)
    BY <1>2, <2>1, <2>2, GoToIInv DEF ClassFound, Labels, Ended
  <2>3. CASE ~Deploys(c)
    BY <1>2, <2>1, <2>3, GoToIInv DEF ClassFound, Labels, Ended
  <2> QED BY <2>2, <2>3
<1>3. CASE LookUpFails(c)
  <2>1. ~IsSent(c, "declare") /\ ~IsSent(c, "invoke") /\ pc[c] \notin Ended
    BY <1>1, <1>3 DEF LookUpFails, SentWhere, Ended
  <2> QED BY <1>3, <2>1, GoToIInv DEF LookUpFails, Labels
<1>4. CASE EstimateDeclare(c)
  <2>1. ~IsSent(c, "declare") /\ ~IsSent(c, "invoke") /\ pc[c] \notin Ended
    BY <1>1, <1>4 DEF EstimateDeclare, SentWhere, Ended
  <2>2. CASE declared /\ ~job[c].feeGiven
    BY <1>4, <2>1, <2>2, GoToIInv DEF EstimateDeclare, Labels, Ended
  <2>3. CASE ~(declared /\ ~job[c].feeGiven)
    BY <1>4, <2>1, <2>3, GoToIInv DEF EstimateDeclare, Labels, Ended
  <2> QED BY <2>2, <2>3
<1>5. CASE ReadDeclareNonce(c)
  BY <1>5, ReadIInv DEF ReadDeclareNonce, Labels
<1>6. CASE SendDeclare(c)
  <2>1. AfterDeclare(c) \in {"waitDeclare", "returned"}
        /\ (AfterDeclare(c) = "waitDeclare" <=> Deploys(c))
    BY DEF AfterDeclare
  <2> QED BY <1>6, <2>1, SubmitIInv DEF SendDeclare, Labels, Ended, Kinds
<1>7. CASE DeclareRefused(c)
  <2>1. ~IsSent(c, "declare") /\ ~IsSent(c, "invoke") /\ pc[c] \notin Ended
    BY <1>1, <1>7 DEF DeclareRefused, SentWhere, Ended
  <2>2. CASE declared
    BY <1>7, <2>1, <2>2, GoToIInv DEF DeclareRefused, Labels, Ended
  <2>3. CASE ~declared
    BY <1>7, <2>1, <2>3, GoToIInv DEF DeclareRefused, Labels, Ended
  <2> QED BY <2>2, <2>3
<1>8. CASE WaitDeclare(c)
  <2>1. /\ ~IsSent(c, "invoke") /\ pc[c] \notin Ended
        /\ txStatus[<<c, "declare">>] = "succeeded" /\ declared
    BY <1>1, <1>8 DEF WaitDeclare, SentWhere, Ended, OnChain, Successes
  <2> QED BY <1>8, <2>1, GoToIInv DEF WaitDeclare, Labels
<1>9. CASE WaitDeploy(c)
  BY <1>9, WaitDeployIInv
<1>10. CASE WaitThrows(c)
  <2>1. pc[c] \notin Ended
    BY <1>10 DEF WaitThrows, Ended
  <2>2. ASSUME NEW l \in {"failed", "alreadyDeclared"}, GoTo(c, l) PROVE IInv'
    BY <1>10, <2>1, <2>2, GoToIInv DEF WaitThrows, Labels, Ended
  <2> QED BY <1>10, <2>2 DEF WaitThrows
<1>11. CASE ReadNonce(c)
  BY <1>11, ReadIInv DEF ReadNonce, Labels
<1>12. CASE Estimate(c)
  <2>1. ~IsSent(c, "invoke") /\ pc[c] \notin Ended /\ pc[c] = "estimate"
    BY <1>1, <1>12 DEF Estimate, SentWhere, Ended
  <2>2. CASE EstimatePasses(c)
    <3>1. Deploys(c) /\ ~job[c].feeGiven => declared
      BY <2>2 DEF EstimatePasses, Effect
    <3>2. /\ IsSent(c, "declare") => txStatus[<<c, "declare">>] \in {"succeeded", "reverted"}
          /\ IsSent(c, "declare") => txNonce[<<c, "declare">>] < nonce[c]
          /\ DeclaresFirst(c) => declared \/ (~Deploys(c) /\ IsSent(c, "declare"))
      BY <1>1, <2>1 DEF Apart, OnChain
    <3> QED BY <1>12, <2>1, <2>2, <3>1, <3>2, GoToIInv DEF Estimate, Labels, Ended
  <2>3. CASE ~EstimatePasses(c)
    BY <1>12, <2>1, <2>3, GoToIInv DEF Estimate, Labels, Ended
  <2> QED BY <2>2, <2>3
<1>13. CASE Send(c)
  <2>1. CASE Deploys(c)
    BY <1>13, <2>1, SubmitIInv DEF Send, Labels, Ended, Kinds
  <2>2. CASE ~Deploys(c)
    BY <1>13, <2>2, SubmitIInv DEF Send, Labels, Ended, Kinds
  <2> QED BY <2>1, <2>2
<1>14. CASE SendRefused(c)
  BY <1>14, GoToIInv DEF SendRefused, Labels, Ended
<1>15. CASE RequestFails(c)
  <2>1. GoTo(c, "failed") /\ UNCHANGED <<job, chain, nonce, address>> /\ pc[c] \notin Ended
    BY <1>15 DEF RequestFails, Ended
  <2>2. CASE UNCHANGED txs
    BY <2>1, <2>2, GoToIInv DEF Labels, Ended
  <2>3. CASE pc[c] = "sendDeclare" /\ Submit(c, "declare")
    BY <2>1, <2>3, SubmitIInv DEF Labels, Ended, Kinds
  <2>4. CASE pc[c] = "send" /\ Submit(c, "invoke")
    BY <2>1, <2>4, SubmitIInv DEF Labels, Ended, Kinds
  <2> QED BY <1>15, <2>2, <2>3, <2>4 DEF RequestFails
<1> QED BY <1>2, <1>3, <1>4, <1>5, <1>6, <1>7, <1>8, <1>9, <1>10, <1>11, <1>12, <1>13,
           <1>14, <1>15 DEF CallStep

------------------------------------------------------------------------------
(* The steps of the chain.                                                  *)

LEMMA IncludeIInv ==
  ASSUME IInv, NEW c \in Calls, NEW kind \in Kinds, Include(c, kind)
  PROVE  IInv'
<1>1. /\ txStatus[<<c, kind>>] = "received" /\ txNonce[<<c, kind>>] = nonceOf[Account(c)]
      /\ txStatus' = [txStatus EXCEPT ![<<c, kind>>] = Effect(c, kind)]
      /\ declared' = (declared \/ kind = "declare")
      /\ contracts' = IF kind = "invoke" /\ Deploys(c) /\ Effect(c, kind) = "succeeded"
                      THEN contracts \union {job[c].address} ELSE contracts
      /\ nonceOf' = IF Effect(c, kind) = "rejected" THEN nonceOf
                    ELSE [nonceOf EXCEPT ![Account(c)] = @ + 1]
      /\ job' = job /\ txNonce' = txNonce /\ pc' = pc /\ nonce' = nonce /\ address' = address
  BY DEF Include
<1>2. /\ Account(c) \in Accounts /\ job[c].address \in Addresses
      /\ nonceOf \in [Accounts -> Nat] /\ TypeOK
  BY JobType DEF IInv, TypeOK
<1>3. Effect(c, kind) \in {"succeeded", "reverted", "rejected"}
  BY DEF Effect
<1>4. /\ txStatus'[<<c, kind>>] = Effect(c, kind)
      /\ \A d \in Calls, k \in Kinds : <<d, k>> # <<c, kind>> =>
           txStatus'[<<d, k>>] = txStatus[<<d, k>>]
  BY <1>1, <1>2 DEF TypeOK
<1>5. TypeOK'
  <2>1. nonceOf' \in [Accounts -> Nat]
    BY <1>1, <1>2
  <2>2. contracts' \subseteq Addresses
    BY <1>1, <1>2 DEF TypeOK
  <2>3. txStatus' \in [Calls \X Kinds -> Statuses]
    BY <1>1, <1>2, <1>3 DEF TypeOK, Statuses
  <2>4. declared' \in BOOLEAN
    BY <1>1
  <2> QED BY <1>1, <1>2, <2>1, <2>2, <2>3, <2>4 DEF TypeOK
<1>6. Grows
  <2>1. declared => declared'
    BY <1>1
  <2>2. contracts \subseteq contracts'
    BY <1>1
  <2>3. \A a \in Accounts : nonceOf[a] <= nonceOf'[a]
    BY <1>1, <1>2
  <2> QED BY <1>1, <2>1, <2>2, <2>3 DEF Grows
<1>7. ASSUME NEW d \in Calls, d # c PROVE CallInv(d)'
  <2>1. Same(d)
    BY <1>1, <1>4, <1>7 DEF Same
  <2> QED BY <1>2, <1>5, <1>6, <2>1, OthersKeep DEF IInv
<1>8. CallInv(c)'
  <2>1. CallInv(c) /\ "declare" \in Kinds /\ "invoke" \in Kinds
    BY DEF IInv, Kinds
  <2>2. /\ Account(c)' = Account(c) /\ (Deploys(c)' <=> Deploys(c))
        /\ (DeclaresFirst(c)' <=> DeclaresFirst(c))
        /\ \A k \in Kinds : IsSent(c, k)' <=> IsSent(c, k)
        /\ IsSent(c, kind)
    BY <1>1, <1>3, <1>4 DEF Account, Deploys, DeclaresFirst, IsSent
  <2>3. SentWhere(c)'
    BY <1>1, <2>1, <2>2 DEF CallInv, SentWhere
  <2>4. NonceCounted(c)'
    <3>1. nonceOf[Account(c)] \in Nat /\ nonceOf'[Account(c)] \in Nat
          /\ nonceOf[Account(c)] <= nonceOf'[Account(c)]
          /\ (Effect(c, kind) # "rejected" => nonceOf[Account(c)] < nonceOf'[Account(c)])
      BY <1>1, <1>2
    <3>2. nonce'[c] <= nonceOf'[Account(c)]
      BY <1>1, <2>1, <3>1 DEF CallInv, NonceCounted, IInv, TypeOK
    <3>3. ASSUME NEW k \in Kinds
          PROVE  /\ IsSent(c, k) => txNonce[<<c, k>>] <= nonceOf'[Account(c)]
                 /\ txStatus'[<<c, k>>] \in {"succeeded", "reverted"} =>
                      txNonce[<<c, k>>] < nonceOf'[Account(c)]
      <4>1. txNonce[<<c, k>>] \in Nat
        BY <1>2 DEF TypeOK
      <4>2. CASE k = kind
        BY <1>1, <1>4, <3>1, <4>1, <4>2
      <4>3. CASE k # kind
        BY <1>4, <2>1, <3>1, <4>1, <4>3 DEF CallInv, NonceCounted
      <4> QED BY <4>2, <4>3
    <3> QED BY <1>1, <2>2, <3>2, <3>3 DEF NonceCounted
  <2>5. Apart(c)'
    <3>1. txStatus[<<c, "declare">>] \in {"succeeded", "reverted"} => kind # "declare"
      BY <1>1
    <3> QED BY <1>1, <1>4, <2>1, <2>2, <3>1 DEF CallInv, Apart
  <2>6. OnChain(c)'
    <3>1. CASE kind = "declare"
      <4>1. txStatus'[<<c, "declare">>] \in {"succeeded", "rejected"} /\ declared'
        BY <1>1, <1>4, <3>1 DEF Effect
      <4>2. txStatus'[<<c, "invoke">>] = txStatus[<<c, "invoke">>]
            /\ (IsSent(c, "invoke")' <=> IsSent(c, "invoke")) /\ contracts' = contracts
        BY <1>1, <1>4, <2>1, <2>2, <3>1
      <4> QED BY <1>1, <2>1, <2>2, <4>1, <4>2 DEF CallInv, OnChain
    <3>2. CASE kind = "invoke"
      <4>1. /\ txStatus'[<<c, "declare">>] = txStatus[<<c, "declare">>]
            /\ (IsSent(c, "declare")' <=> IsSent(c, "declare"))
            /\ (declared' <=> declared) /\ IsSent(c, "invoke")
        BY <1>1, <1>4, <2>1, <2>2, <3>2
      <4>2. Deploys(c) /\ txStatus'[<<c, "invoke">>] = "succeeded" =>
              declared /\ job[c].address \in contracts'
        BY <1>1, <1>4, <3>2 DEF Effect
      <4>3. Deploys(c) /\ ~job[c].feeGiven => declared
        BY <2>1, <4>1 DEF CallInv, OnChain
      <4>4. Deploys(c) /\ ~job[c].feeGiven /\ txStatus'[<<c, "invoke">>] = "reverted" =>
              job[c].address \in contracts'
        BY <1>1, <1>4, <3>2, <4>3 DEF Effect
      <4> QED BY <1>1, <2>1, <2>2, <4>1, <4>2, <4>3, <4>4 DEF CallInv, OnChain
    <3> QED BY <3>1, <3>2 DEF Kinds
  <2>7. AddressReturned(c)'
    <3>1. address[c] # NoAddress => kind # "invoke"
      BY <1>1, <2>1 DEF CallInv, AddressReturned
    <3> QED BY <1>1, <1>4, <2>1, <2>2, <3>1 DEF CallInv, AddressReturned
  <2> QED BY <2>3, <2>4, <2>5, <2>6, <2>7 DEF CallInv
<1>9. DeployedOnce'
  <2>1. \A d \in Calls : (Deploys(d)' <=> Deploys(d))
    BY <1>1 DEF Deploys
  <2>2. CASE kind = "invoke" /\ Deploys(c) /\ Effect(c, kind) = "succeeded"
    <3>1. job[c].address \notin contracts
      BY <2>2 DEF Effect
    <3>2. \A d \in Calls : d # c /\ Deploys(d) /\ txStatus'[<<d, "invoke">>] = "succeeded" =>
            /\ txStatus[<<d, "invoke">>] = "succeeded"
            /\ job[d].address \in contracts
      BY <1>4 DEF IInv, CallInv, OnChain, Kinds
    <3> QED BY <1>1, <2>1, <3>1, <3>2 DEF IInv, DeployedOnce
  <2>3. CASE ~(kind = "invoke" /\ Deploys(c) /\ Effect(c, kind) = "succeeded")
    <3>1. \A d \in Calls : Deploys(d) /\ txStatus'[<<d, "invoke">>] = "succeeded" =>
            txStatus[<<d, "invoke">>] = "succeeded"
      BY <1>4, <2>3 DEF Kinds
    <3> QED BY <1>1, <2>1, <3>1 DEF IInv, DeployedOnce
  <2> QED BY <2>2, <2>3
<1> QED BY <1>5, <1>7, <1>8, <1>9 DEF IInv

LEMMA RejectIInv ==
  ASSUME IInv, NEW c \in Calls, NEW kind \in Kinds, Reject(c, kind)
  PROVE  IInv'
<1>1. /\ txStatus[<<c, kind>>] = "received"
      /\ txStatus' = [txStatus EXCEPT ![<<c, kind>>] = "rejected"]
      /\ job' = job /\ declared' = declared /\ contracts' = contracts /\ nonceOf' = nonceOf
      /\ txNonce' = txNonce /\ pc' = pc /\ nonce' = nonce /\ address' = address
  BY DEF Reject, chain
<1>2. /\ txStatus'[<<c, kind>>] = "rejected"
      /\ \A d \in Calls, k \in Kinds : <<d, k>> # <<c, kind>> =>
           txStatus'[<<d, k>>] = txStatus[<<d, k>>]
  BY <1>1 DEF IInv, TypeOK
<1>3. TypeOK'
  BY <1>1 DEF IInv, TypeOK, Statuses
<1>4. Grows
  BY <1>1 DEF Grows, IInv, TypeOK
<1>5. ASSUME NEW d \in Calls, d # c PROVE CallInv(d)'
  <2>1. Same(d)
    BY <1>1, <1>2, <1>5 DEF Same
  <2> QED BY <1>3, <1>4, <2>1, OthersKeep DEF IInv
<1>6. CallInv(c)'
  <2>1. CallInv(c) /\ "declare" \in Kinds /\ "invoke" \in Kinds
    BY DEF IInv, Kinds
  <2>2. /\ Account(c)' = Account(c) /\ (Deploys(c)' <=> Deploys(c))
        /\ (DeclaresFirst(c)' <=> DeclaresFirst(c))
        /\ \A k \in Kinds : IsSent(c, k)' <=> IsSent(c, k)
    BY <1>1, <1>2 DEF Account, Deploys, DeclaresFirst, IsSent
  <2>3. SentWhere(c)'
    BY <1>1, <2>1, <2>2 DEF CallInv, SentWhere
  <2>4. NonceCounted(c)'
    BY <1>1, <1>2, <2>1, <2>2 DEF CallInv, NonceCounted
  <2>5. Apart(c)'
    BY <1>1, <1>2, <2>1, <2>2 DEF CallInv, Apart
  <2>6. OnChain(c)'
    BY <1>1, <1>2, <2>1, <2>2 DEF CallInv, OnChain
  <2>7. AddressReturned(c)'
    BY <1>1, <1>2, <2>1, <2>2 DEF CallInv, AddressReturned
  <2> QED BY <2>3, <2>4, <2>5, <2>6, <2>7 DEF CallInv
<1>7. DeployedOnce'
  <2>1. \A d \in Calls : (Deploys(d)' <=> Deploys(d))
          /\ (txStatus'[<<d, "invoke">>] = "succeeded" =>
                txStatus[<<d, "invoke">>] = "succeeded")
    BY <1>1, <1>2 DEF Deploys, Kinds
  <2> QED BY <1>1, <2>1 DEF IInv, DeployedOnce
<1> QED BY <1>3, <1>5, <1>6, <1>7 DEF IInv

LEMMA NextIInv == IInv /\ [Next]_vars => IInv'
<1> SUFFICES ASSUME IInv, [Next]_vars PROVE IInv'
  OBVIOUS
<1>1. CASE UNCHANGED vars
  BY <1>1 DEF vars, IInv, TypeOK, CallInv, SentWhere, NonceCounted, Apart, OnChain,
              AddressReturned, DeployedOnce, IsSent, Account, Deploys, DeclaresFirst
<1>2. CASE Next
  BY <1>2, CallIInv, IncludeIInv, RejectIInv DEF Next, ChainStep
<1> QED BY <1>1, <1>2

\* The invariant of the calls and the chain.
THEOREM Inductive == Spec => []IInv
BY InitIInv, NextIInv, PTL DEF Spec

------------------------------------------------------------------------------
(* The properties that TLC checks for three calls.                          *)

\* The types of the calls' and the chain's state, for any calls and accounts.
THEOREM TypeCorrect == Spec => []TypeOK
<1>1. IInv => TypeOK
  BY DEF IInv
<1> QED BY <1>1, Inductive, PTL

\* The two transactions of a declareAndDeploy() never have the same nonce, whatever
\* other calls of its account do, and none waits for a nonce that nobody uses.
THEOREM NoncesAlwaysFit == Spec => []NoncesFit
<1>1. IInv => OwnTransactionsApart
  BY DEF IInv, CallInv, Apart, OwnTransactionsApart
<1>2. IInv => NoNonceGap
  BY DEF IInv, CallInv, NonceCounted, NoNonceGap
<1>3. IInv => NoncesFit
  BY <1>1, <1>2 DEF NoncesFit
<1> QED BY <1>3, Inductive, PTL

\* A deployment whose fee was estimated fails only if its address was taken.
THEOREM OnlyRacesRevert == Spec => []DeploymentsCanSucceed
<1>1. IInv => DeploymentsCanSucceed
  BY DEF IInv, CallInv, OnChain, DeploymentsCanSucceed
<1> QED BY <1>1, Inductive, PTL

\* The address that a call returns holds the contract, and no two calls return it.
THEOREM AddressesAreTrue == Spec => []AddressesHold
<1>1. IInv => ReturnedAddressHolds
  BY DEF IInv, CallInv, OnChain, AddressReturned, ReturnedAddressHolds
<1>2. IInv => OneDeployerPerAddress
  <2> SUFFICES ASSUME IInv, NEW c \in Calls, NEW d \in Calls, c # d, address[c] # NoAddress
               PROVE  address[c] # address[d]
    BY DEF OneDeployerPerAddress
  <2>1. AddressReturned(c) /\ AddressReturned(d)
    BY DEF IInv, CallInv
  <2> QED BY <2>1 DEF AddressReturned, IInv, DeployedOnce
<1>3. IInv => AddressesHold
  BY <1>1, <1>2 DEF AddressesHold
<1> QED BY <1>3, Inductive, PTL

\* declareIfNot() and declareAndDeploy() go on only with the class declared, or return
\* the transaction that declares it.
THEOREM ClassIsThere == Spec => []GoesOnIfDeclared
<1>1. IInv => GoesOnIfDeclared
  BY DEF IInv, CallInv, OnChain, GoesOnIfDeclared
<1> QED BY <1>1, Inductive, PTL
==============================================================================
