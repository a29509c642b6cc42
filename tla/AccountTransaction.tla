------------------------- MODULE AccountTransaction -------------------------
(***************************************************************************)
(* One call of an Account of src/src/account/default.ts, from its          *)
(* arguments to the requests it makes of the node: which version, nonce    *)
(* and fee are estimated, signed and sent.  The methods compute them in    *)
(* several places, the channel once more; the node checks the signature    *)
(* against what it receives.                                               *)
(*                                                                         *)
(* Operations: "send" (execute, declare, deployAccount), "estimate" (the   *)
(* three estimates), "bulk" (estimateFeeBulk), "simulate"                  *)
(* (simulateTransaction).                                                  *)
(***************************************************************************)
EXTENDS Naturals, Sequences

CONSTANTS
  MaxNonce,    \* bound on the nonce of the account
  MaxBulk      \* bound on the number of invocations of a bulk

ASSUME AccountAssumption == MaxNonce \in Nat /\ MaxBulk \in Nat \ {0}

VARIABLES
  job,         \* the call: operation, invocations and details
  chainNonce,  \* the nonce the node knows; 0 if there is no account yet
  pc,
  nonce,       \* the nonce the call has read for what it sends
  money,       \* maxFee and resourceBounds once they are suggested
  requests,    \* what was sent to be estimated or simulated
  sent         \* what was sent to be executed: at most one

vars == <<job, chainNonce, pc, nonce, money, requests, sent>>

------------------------------------------------------------------------------
(* Versions: src/src/utils/stark.ts.                                        *)

V(n) == <<"tx", n>>
F(n) == <<"fee", n>>
NoVersion == <<"none", 0>>
Versions == {"tx", "fee"} \X (0 .. 3)

IsV3Tx(v) == v[2] = 3

toTransactionVersion(default, provided) ==
  IF provided = NoVersion THEN default ELSE provided

\* Throws on a version that is a fee version already.
CanBeFeeVersion(v) == v[1] # "fee"

toFeeVersion(v) == IF v = NoVersion THEN v ELSE F(v[2])

reduceV2(v) == IF v[2] = 2 THEN <<v[1], 1>> ELSE v

------------------------------------------------------------------------------
(* The call.                                                                *)

\* Declarations of Cairo 0 and of Cairo 1 classes differ; DEPLOY is an invoke of
\* the universal deployer: deploy() is execute(), estimateDeployFee() its estimate.
Kinds == {"INVOKE", "DEPLOY", "DECLARE0", "DECLARE1", "DEPLOY_ACCOUNT"}

Calls ==
  [op : {"send", "estimate"}, kinds : [{1} -> Kinds]]
    \union [op : {"bulk", "simulate"},
            kinds : UNION {[1 .. n -> Kinds] : n \in 1 .. MaxBulk}]

\* maxFee and resourceBounds given or not; skipValidate may be left out.
Details ==
  [account : {V(2), V(3)}, version : Versions \union {NoVersion},
   nonce : BOOLEAN, maxFee : BOOLEAN, bounds : BOOLEAN,
   skipValidate : {"unset", "true", "false"}]

Op == job.call.op
Bulk == Op \in {"bulk", "simulate"}
Kind == job.call.kinds[1]
Given == job.details

\* A bulk of an account that is not there starts with its deployment.
ReadyToRun(exists) == exists \/ Kind = "DEPLOY_ACCOUNT"

Preferred(type12, type3) == IF Given.account = V(3) THEN type3 ELSE type12

SendDefault(kind) ==
  IF kind = "DECLARE0" THEN V(1)
  ELSE IF kind = "DECLARE1" THEN Preferred(V(2), V(3))
  ELSE Preferred(V(1), V(3))

EstimateDefault(kind) ==
  IF kind = "DECLARE0" THEN F(1)
  ELSE IF kind = "DECLARE1" THEN Preferred(F(2), F(3))
  ELSE Preferred(F(1), F(3))

SendVersion == toTransactionVersion(SendDefault(Kind), Given.version)

\* execute() and declare() hand their version to the estimate; deployAccount() and
\* the callers of an estimate hand on what they were given.
EstimateGiven ==
  IF Op = "send" /\ Kind # "DEPLOY_ACCOUNT" THEN SendVersion ELSE Given.version

\* Mutant: the version is not handed to the estimate.
EstimateByDefault == EstimateDefault(Kind)

EstimateVersion ==
  toTransactionVersion(EstimateDefault(Kind), toFeeVersion(EstimateGiven))

\* The versions a bulk is given: of Cairo 0 declarations, and of all else.
BulkVersion(kind) ==
  LET others == toTransactionVersion(
                  IF Op = "bulk" THEN Preferred(F(2), F(3)) ELSE Preferred(V(2), V(3)),
                  Given.version)
  IN  IF kind = "DECLARE0" THEN (IF Op = "bulk" THEN F(1) ELSE V(1))
      ELSE IF kind = "DECLARE1" THEN others
      ELSE reduceV2(others)

\* The version the channel writes into what it sends to be executed.
WrittenVersion(kind, v) ==
  IF IsV3Tx(v) THEN V(3) ELSE IF kind = "DECLARE1" THEN V(2) ELSE V(1)

------------------------------------------------------------------------------
(* Transactions.                                                            *)

Zero == <<"zero", NoVersion>>
ByCaller == <<"given", NoVersion>>
Estimated(v) == <<"estimated", v>>

\* Only V3 transactions carry resource bounds, only the others a maximum fee.
SentKind(kind) == IF kind = "DEPLOY" THEN "INVOKE" ELSE kind

Tx(kind, version, n, fee, bounds) ==
  [kind |-> SentKind(kind),
   version |-> version,
   nonce |-> n,
   money |-> IF IsV3Tx(version) THEN bounds ELSE fee]

\* A signature is over everything a transaction holds.
NoSignature == <<>>
SignatureOf(tx) == <<tx>>

\* The account, its factory and the channel each fill in `true` where it is not given.
skipValidate == Given.skipValidate # "false"

PayloadSignature(tx) == IF skipValidate THEN NoSignature ELSE SignatureOf(tx)

\* What the channel makes of an invocation, which brings no maximum fee along.
buildTransaction(kind, version, n, bounds) ==
  [kind |-> SentKind(kind),
   version |-> version,
   nonce |-> n,
   money |-> IF IsV3Tx(version) THEN bounds ELSE Zero]

Request(signed, built) ==
  [tx |-> built, signature |-> PayloadSignature(signed), validate |-> ~skipValidate]

GivenBounds == IF Given.bounds THEN ByCaller ELSE Zero

NoMoney == [fee |-> Zero, bounds |-> Zero]

------------------------------------------------------------------------------
(* Steps, each ended by an await.                                           *)

Unsent == <<requests, sent>>

\* Other transactions of the account are included meanwhile.
OtherTransaction ==
  /\ chainNonce \in 1 .. MaxNonce - 1
  /\ chainNonce' = chainNonce + 1
  /\ UNCHANGED <<job, pc, nonce, money, Unsent>>

\* The nonce of what the call sends: given, that of the account, or 0 for a
\* deployment.
ReadNonce ==
  IF Kind = "DEPLOY_ACCOUNT" THEN 0
  ELSE IF Given.nonce THEN MaxNonce ELSE chainNonce

\* execute() reads its nonce first, declare() after the estimate.
NonceFirst == Kind # "DECLARE0" /\ Kind # "DECLARE1"

AsksForNonce == Kind # "DEPLOY_ACCOUNT" /\ ~Given.nonce

GetNonce ==
  /\ pc = "start" /\ Op = "send"
  /\ nonce' = IF NonceFirst THEN ReadNonce ELSE nonce
  /\ pc' = "suggest"
  /\ UNCHANGED <<job, chainNonce, money, Unsent>>

\* getUniversalSuggestedFee(): no estimate if the caller gave what it needs.
FeeGiven ==
  /\ pc = "suggest"
  /\ IF SendVersion = V(3) THEN Given.bounds ELSE Given.maxFee
  /\ money' = IF SendVersion = V(3) THEN [fee |-> Zero, bounds |-> ByCaller]
              ELSE [fee |-> ByCaller, bounds |-> Zero]
  /\ pc' = "sign"
  /\ UNCHANGED <<job, chainNonce, nonce, Unsent>>

NeedsEstimate ==
  \/ pc = "start" /\ Op = "estimate"
  \/ pc = "suggest" /\ ~(IF SendVersion = V(3) THEN Given.bounds ELSE Given.maxFee)

\* buildDeclarePayload() throws on a V3 declaration without a compiled class hash.
CanBuild(kind, version) == kind = "DECLARE0" => ~IsV3Tx(version)

EstimateThrows ==
  ~CanBeFeeVersion(EstimateGiven) \/ ~CanBuild(Kind, EstimateVersion)

\* The estimate reads a nonce of its own.
EstimateRequest ==
  Request(Tx(Kind, EstimateVersion, ReadNonce, Zero, GivenBounds),
          buildTransaction(Kind, EstimateVersion, ReadNonce, GivenBounds))

Estimate ==
  /\ NeedsEstimate
  /\ ~EstimateThrows
  /\ requests' = <<EstimateRequest>>
  /\ money' = IF Op = "estimate" THEN money
              ELSE IF SendVersion = V(3)
              THEN [fee |-> Zero, bounds |-> Estimated(EstimateVersion)]
              ELSE [fee |-> Estimated(EstimateVersion), bounds |-> Zero]
  /\ pc' = IF Op = "estimate" THEN "done" ELSE "sign"
  /\ UNCHANGED <<job, chainNonce, nonce, sent>>

GetNonceLate ==
  /\ pc = "sign" /\ ~NonceFirst
  /\ nonce' = ReadNonce
  /\ pc' = "signDeclare"
  /\ UNCHANGED <<job, chainNonce, money, Unsent>>

\* Mutant: the bounds of the estimate are signed, those of the caller sent.
SendGivenBounds == Tx(Kind, WrittenVersion(Kind, SendVersion), nonce, money.fee, GivenBounds)

\* What is signed and what is sent are built apart from the same values.
ToSign == Tx(Kind, SendVersion, nonce, money.fee, money.bounds)
ToSend == Tx(Kind, WrittenVersion(Kind, SendVersion), nonce, money.fee, money.bounds)

Send ==
  /\ pc = IF NonceFirst THEN "sign" ELSE "signDeclare"
  /\ CanBuild(Kind, SendVersion)
  /\ sent' = <<[tx |-> ToSend, signature |-> SignatureOf(ToSign)]>>
  /\ pc' = "done"
  /\ UNCHANGED <<job, chainNonce, nonce, money, requests>>

------------------------------------------------------------------------------
(* accountInvocationsFactory() and the request of the channel.              *)

\* getNonceSafe(): an account that is not there has no nonce; any other failure
\* counts as that too.
GetNonceSafe ==
  /\ pc = "start" /\ Bulk
  /\ \/ nonce' = IF Given.nonce THEN MaxNonce ELSE chainNonce
     \/ ~Given.nonce /\ nonce' = 0
  /\ pc' = "build"
  /\ UNCHANGED <<job, chainNonce, money, Unsent>>

NonceAt(i) == nonce + i - 1

BulkRequest(i) ==
  LET kind == job.call.kinds[i]
  IN  Request(Tx(kind, BulkVersion(kind), NonceAt(i), Zero, GivenBounds),
              buildTransaction(kind, BulkVersion(kind), NonceAt(i), GivenBounds))

\* A declaration is handed on without its V3 details, and buildTransaction() throws
\* on the first one that a V3 transaction needs.
HasDetails(kind) == kind \notin {"DECLARE0", "DECLARE1"}

BulkThrows ==
  \E i \in DOMAIN job.call.kinds :
    LET kind == job.call.kinds[i]
    IN  ~CanBuild(kind, BulkVersion(kind))
          \/ (IsV3Tx(BulkVersion(kind)) /\ ~HasDetails(kind))

BulkBuilds ==
  /\ pc = "build"
  /\ ~BulkThrows
  /\ requests' = [i \in DOMAIN job.call.kinds |-> BulkRequest(i)]
  /\ pc' = "done"
  /\ UNCHANGED <<job, chainNonce, nonce, money, sent>>

Throws ==
  /\ \/ NeedsEstimate /\ EstimateThrows
     \/ pc = "signDeclare" /\ ~CanBuild(Kind, SendVersion)
     \/ pc = "build" /\ BulkThrows
  /\ pc' = "failed"
  /\ UNCHANGED <<job, chainNonce, nonce, money, Unsent>>

\* The node does not answer, or answers with an error, on the way.
NodeFails ==
  /\ \/ pc = "start" /\ Op = "send" /\ AsksForNonce /\ NonceFirst
     \/ NeedsEstimate
     \/ pc = "sign" /\ AsksForNonce /\ ~NonceFirst
  /\ pc' = "unanswered"
  /\ UNCHANGED <<job, chainNonce, nonce, money, Unsent>>

------------------------------------------------------------------------------
Init ==
  /\ job \in [call : Calls, details : Details]
  /\ chainNonce \in 0 .. MaxNonce
  /\ ReadyToRun(chainNonce > 0)
  /\ pc = "start"
  /\ nonce = 0
  /\ money = NoMoney
  /\ requests = <<>>
  /\ sent = <<>>

Next ==
  \/ OtherTransaction
  \/ GetNonce
  \/ FeeGiven
  \/ Estimate
  \/ GetNonceLate
  \/ Send
  \/ GetNonceSafe
  \/ BulkBuilds
  \/ Throws
  \/ NodeFails

Spec == Init /\ [][Next]_vars
------------------------------------------------------------------------------
(* Properties *)

\* The versions the network has for a kind of transaction.
KnownVersions(kind) ==
  IF kind = "DECLARE0" THEN {1} ELSE IF kind = "DECLARE1" THEN {2, 3} ELSE {1, 3}

\* The caller gave no version, or one that its transaction may have.
Supported ==
  Given.version = NoVersion
    \/ (Given.version[1] = "tx" /\ Given.version[2] \in KnownVersions(Kind))

\* The node accepts the signature of what is sent, and of what it is asked to validate
\* of an estimate or a simulation: it is over the very version, nonce and fee that the
\* transaction carries, although the two are put together in different places and the
\* channel writes the transaction anew.
SentIsSigned ==
  /\ Supported => \A i \in DOMAIN sent : sent[i].signature = SignatureOf(sent[i].tx)
  /\ \A i \in DOMAIN requests :
       requests[i].validate => requests[i].signature = SignatureOf(requests[i].tx)

\* The fee that is sent is the one the caller gave or was estimated for a
\* transaction of the same version, hence in the same unit (wei or fri).
FeeIsForThisVersion ==
  Supported => \A i \in DOMAIN sent :
    sent[i].tx.money \in {ByCaller, Estimated(F(sent[i].tx.version[2]))}

\* What is estimated or simulated has a version the network knows for its kind: the
\* one version a bulk is given stands for 1 or 2 according to the invocation.
RequestVersionsExist ==
  (IF Bulk THEN Given.version = NoVersion \/ Given.version[2] \in {2, 3}
   ELSE Supported)
    => \A i \in DOMAIN requests :
         requests[i].tx.version[2] \in KnownVersions(job.call.kinds[i])

\* The versions that are computed apart, for the estimate, for the transaction and for
\* each invocation of a bulk, fit each other and the network.
VersionsFit == FeeIsForThisVersion /\ RequestVersionsExist
==============================================================================
