----------------------- MODULE AccountTransactionProof -----------------------
(* The two safety properties of AccountTransaction, for every bound on    *)
(* the nonces and on the length of a bulk.                                  *)
EXTENDS AccountTransaction, TLAPS

JobOK == job \in [call : Calls, details : Details]

\* Only what is sent asks for a fee, and only a bulk is put together.
PhaseFits ==
  /\ pc \in {"suggest", "sign", "signDeclare"} => Op = "send"
  /\ pc = "build" => Bulk

\* What is suggested is for the version that will be sent.
MoneyFits ==
  Supported /\ pc \in {"sign", "signDeclare"} =>
    (IF SendVersion = V(3) THEN money.bounds ELSE money.fee)
      \in {ByCaller, Estimated(F(SendVersion[2]))}

Inv ==
  /\ JobOK /\ PhaseFits /\ MoneyFits
  /\ SentIsSigned /\ VersionsFit

------------------------------------------------------------------------------
\* A version is a pair, given or by default.
LEMMA GivenVersion ==
  ASSUME JobOK
  PROVE  \/ Given.version = NoVersion
         \/ \E n \in 0 .. 3 : Given.version = <<"tx", n>> \/ Given.version = <<"fee", n>>
BY DEF JobOK, Details, Given, Versions

\* The version of what is sent is one of its kind, the channel writes the same again,
\* and the estimate has it as a fee version.
LEMMA SendVersionFits ==
  ASSUME JobOK, Supported
  PROVE  /\ \E n \in KnownVersions(Kind) : SendVersion = V(n)
         /\ WrittenVersion(Kind, SendVersion) = SendVersion
         /\ EstimateVersion = F(SendVersion[2])
<1>1. CASE Given.version = NoVersion
  BY <1>1 DEF SendVersion, SendDefault, toTransactionVersion, Preferred, KnownVersions, V, F,
    WrittenVersion, IsV3Tx, EstimateVersion, EstimateDefault, EstimateGiven, toFeeVersion, NoVersion
<1>2. CASE Given.version # NoVersion
  <2>1. PICK n \in KnownVersions(Kind) : Given.version = <<"tx", n>>
    BY <1>2, GivenVersion DEF Supported, NoVersion
  <2>2. n \in {1, 2, 3} /\ (n = 2 <=> Kind = "DECLARE1" /\ n # 3) /\ (Kind = "DECLARE0" => n = 1)
    BY <2>1 DEF KnownVersions
  <2>3. SendVersion = V(n)
    BY <1>2, <2>1 DEF SendVersion, toTransactionVersion, V
  <2>4. WrittenVersion(Kind, SendVersion) = SendVersion
    BY <2>2, <2>3 DEF WrittenVersion, IsV3Tx, V
  <2>5. EstimateVersion = F(n)
    <3>1. EstimateGiven = V(n)
      BY <2>1, <2>3 DEF EstimateGiven, V
    <3>2. V(n) # NoVersion /\ F(n) # NoVersion /\ V(n)[2] = n
      BY <2>2 DEF V, F, NoVersion
    <3>. QED  BY <3>1, <3>2 DEF EstimateVersion, toTransactionVersion, toFeeVersion
  <2>. QED  BY <2>3, <2>4, <2>5 DEF V
<1>. QED  BY <1>1, <1>2

\* One version for a whole bulk becomes one that each invocation may have.
LEMMA BulkVersionFits ==
  ASSUME JobOK, Given.version = NoVersion \/ Given.version[2] \in {2, 3}, NEW kind
  PROVE  BulkVersion(kind)[2] \in KnownVersions(kind)
<1>1. CASE Given.version = NoVersion
  BY <1>1 DEF BulkVersion, toTransactionVersion, Preferred, reduceV2, KnownVersions, V, F
<1>2. CASE Given.version # NoVersion
  <2>1. PICK n \in {2, 3} : Given.version = <<"tx", n>> \/ Given.version = <<"fee", n>>
    BY <1>2, GivenVersion DEF NoVersion
  <2>. QED
    BY <1>2, <2>1 DEF BulkVersion, toTransactionVersion, reduceV2, KnownVersions, V, F
<1>. QED  BY <1>1, <1>2

------------------------------------------------------------------------------
\* The channel writes the transaction that was signed, if any was.
LEMMA RequestIsSigned ==
  ASSUME NEW kind, NEW version, NEW n, NEW bounds,
         NEW request,
         request = Request(Tx(kind, version, n, Zero, bounds),
                           buildTransaction(kind, version, n, bounds))
  PROVE  /\ request.validate => request.signature = SignatureOf(request.tx)
         /\ request.tx.version = version
<1>1. buildTransaction(kind, version, n, bounds) = Tx(kind, version, n, Zero, bounds)
  BY DEF buildTransaction, Tx
<1>2. Tx(kind, version, n, Zero, bounds).version = version
  BY DEF Tx
<1>. QED  BY <1>1, <1>2 DEF Request, PayloadSignature

\* Of what is signed, the requests.
RequestsAreSigned ==
  \A i \in DOMAIN requests :
    requests[i].validate => requests[i].signature = SignatureOf(requests[i].tx)

LEMMA InitInv == Init => Inv
<1>. SUFFICES ASSUME Init PROVE Inv
  OBVIOUS
<1>1. JobOK /\ pc = "start" /\ requests = <<>> /\ sent = <<>>
  BY DEF Init, JobOK
<1>. QED
  BY <1>1 DEF Inv, PhaseFits, MoneyFits, SentIsSigned, VersionsFit,
    FeeIsForThisVersion, RequestVersionsExist

\* The call is given once.
LEMMA JobStays ==
  ASSUME [Next]_vars
  PROVE  job' = job
BY DEF Next, vars, OtherTransaction, GetNonce, FeeGiven, Estimate, GetNonceLate, Send,
  GetNonceSafe, BulkBuilds, Throws, NodeFails

\* What depends on the call alone.
LEMMA SameCall ==
  ASSUME job' = job
  PROVE  /\ JobOK' = JobOK /\ Supported' = Supported /\ SendVersion' = SendVersion
         /\ Op' = Op /\ Bulk' = Bulk /\ Given' = Given /\ Kind' = Kind
BY DEF JobOK, Supported, SendVersion, SendDefault, Preferred, Op, Bulk, Given, Kind

LEMMA NextPhase ==
  ASSUME Inv, [Next]_vars
  PROVE  PhaseFits'
<1>. USE JobStays, SameCall DEF Inv
<1>1. CASE OtherTransaction
  BY <1>1 DEF OtherTransaction, PhaseFits
<1>2. CASE GetNonce
  BY <1>2 DEF GetNonce, PhaseFits
<1>3. CASE FeeGiven
  BY <1>3 DEF FeeGiven, PhaseFits
<1>4. CASE Estimate
  BY <1>4 DEF Estimate, NeedsEstimate, PhaseFits
<1>5. CASE GetNonceLate
  BY <1>5 DEF GetNonceLate, PhaseFits
<1>6. CASE Send
  BY <1>6 DEF Send, PhaseFits
<1>7. CASE GetNonceSafe
  BY <1>7 DEF GetNonceSafe, PhaseFits
<1>8. CASE BulkBuilds
  BY <1>8 DEF BulkBuilds, PhaseFits
<1>9. CASE Throws \/ NodeFails
  BY <1>9 DEF Throws, NodeFails, PhaseFits
<1>10. CASE UNCHANGED vars
  BY <1>10 DEF vars, PhaseFits
<1>. QED  BY <1>1, <1>2, <1>3, <1>4, <1>5, <1>6, <1>7, <1>8, <1>9, <1>10 DEF Next

LEMMA NextMoney ==
  ASSUME Inv, [Next]_vars
  PROVE  MoneyFits'
<1>. SUFFICES ASSUME Supported, pc' \in {"sign", "signDeclare"}
              PROVE  (IF SendVersion = V(3) THEN money'.bounds ELSE money'.fee)
                       \in {ByCaller, Estimated(F(SendVersion[2]))}
  BY JobStays, SameCall DEF MoneyFits
<1>1. CASE FeeGiven
  BY <1>1 DEF FeeGiven
<1>2. CASE Estimate
  <2>1. EstimateVersion = F(SendVersion[2])
    BY SendVersionFits DEF Inv
  <2>. QED  BY <1>2, <2>1 DEF Estimate
<1>3. CASE GetNonceLate
  BY <1>3 DEF GetNonceLate, Inv, MoneyFits
<1>4. CASE OtherTransaction \/ UNCHANGED vars
  BY <1>4 DEF OtherTransaction, vars, Inv, MoneyFits
<1>5. CASE GetNonce \/ Send \/ GetNonceSafe \/ BulkBuilds \/ Throws \/ NodeFails
  BY <1>5 DEF GetNonce, Send, GetNonceSafe, BulkBuilds, Throws, NodeFails
<1>. QED  BY <1>1, <1>2, <1>3, <1>4, <1>5 DEF Next

\* What is sent changes with Send alone.
LEMMA NextSent ==
  ASSUME Inv, [Next]_vars
  PROVE  /\ Supported' => \A i \in DOMAIN sent' :
                           sent'[i].signature = SignatureOf(sent'[i].tx)
         /\ FeeIsForThisVersion'
<1>. USE JobStays, SameCall
<1>1. CASE Send
  <2>. SUFFICES ASSUME Supported
                PROVE  /\ ToSend = ToSign
                       /\ ToSend.money \in {ByCaller, Estimated(F(ToSend.version[2]))}
    BY <1>1 DEF Send, FeeIsForThisVersion
  <2>1. WrittenVersion(Kind, SendVersion) = SendVersion
    BY SendVersionFits DEF Inv
  <2>2. ToSend = ToSign
    BY <2>1 DEF ToSend, ToSign
  <2>3. PICK n \in KnownVersions(Kind) : SendVersion = V(n)
    BY SendVersionFits DEF Inv
  <2>4. n \in {1, 2, 3}
    BY <2>3 DEF KnownVersions
  <2>5. IsV3Tx(SendVersion) <=> SendVersion = V(3)
    BY <2>3, <2>4 DEF IsV3Tx, V
  <2>6. pc \in {"sign", "signDeclare"}
    BY <1>1 DEF Send
  <2>7. (IF SendVersion = V(3) THEN money.bounds ELSE money.fee)
          \in {ByCaller, Estimated(F(SendVersion[2]))}
    BY <2>6 DEF Inv, MoneyFits
  <2>8. /\ ToSend.version = SendVersion
        /\ ToSend.money = IF SendVersion = V(3) THEN money.bounds ELSE money.fee
    BY <2>1, <2>5 DEF ToSend, Tx
  <2>. QED  BY <2>2, <2>7, <2>8
<1>2. CASE ~Send
  <2>1. sent' = sent
    BY <1>2 DEF Next, vars, OtherTransaction, GetNonce, FeeGiven, Estimate, GetNonceLate,
      GetNonceSafe, BulkBuilds, Throws, NodeFails, Unsent
  <2>2. Supported' = Supported
    OBVIOUS
  <2>3. Supported' => \A i \in DOMAIN sent' :
                        sent'[i].signature = SignatureOf(sent'[i].tx)
    BY <2>1, <2>2 DEF Inv, SentIsSigned
  <2>4. FeeIsForThisVersion'
    BY <2>1, <2>2 DEF Inv, VersionsFit, FeeIsForThisVersion, Estimated, F
  <2>. QED  BY <2>3, <2>4
<1>. QED  BY <1>1, <1>2

\* Requests are made by Estimate and by BulkBuilds.
LEMMA NextRequests ==
  ASSUME Inv, [Next]_vars
  PROVE  RequestsAreSigned' /\ RequestVersionsExist'
<1>. USE JobStays, SameCall
<1>1. CASE Estimate
  <2>1. requests' = <<EstimateRequest>>
    BY <1>1 DEF Estimate
  <2>2. ~Bulk
    BY <1>1 DEF Estimate, NeedsEstimate, Inv, PhaseFits, Bulk
  <2>3. EstimateRequest.tx.version = EstimateVersion
    BY RequestIsSigned DEF EstimateRequest
  <2>4. Supported => EstimateVersion[2] \in KnownVersions(job.call.kinds[1])
    BY SendVersionFits DEF Inv, V, F, Kind
  <2>5. EstimateRequest.validate => EstimateRequest.signature = SignatureOf(EstimateRequest.tx)
    BY RequestIsSigned DEF EstimateRequest
  <2>6. RequestsAreSigned'
    BY <2>1, <2>5 DEF RequestsAreSigned, SignatureOf
  <2>. QED  BY <2>1, <2>2, <2>3, <2>4, <2>6 DEF RequestVersionsExist
<1>2. CASE BulkBuilds
  <2>1. requests' = [i \in DOMAIN job.call.kinds |-> BulkRequest(i)]
    BY <1>2 DEF BulkBuilds
  <2>2. Bulk
    BY <1>2 DEF BulkBuilds, Inv, PhaseFits
  <2>3. ASSUME NEW i \in DOMAIN job.call.kinds
        PROVE  /\ BulkRequest(i).tx.version = BulkVersion(job.call.kinds[i])
               /\ BulkRequest(i).validate
                    => BulkRequest(i).signature = SignatureOf(BulkRequest(i).tx)
    BY RequestIsSigned DEF BulkRequest
  <2>4. RequestsAreSigned'
    BY <2>1, <2>3 DEF RequestsAreSigned, SignatureOf
  <2>. QED  BY <2>1, <2>2, <2>3, <2>4, BulkVersionFits DEF RequestVersionsExist, Inv
<1>3. CASE ~Estimate /\ ~BulkBuilds
  <2>1. requests' = requests
    BY <1>3 DEF Next, vars, OtherTransaction, GetNonce, FeeGiven, Send, GetNonceLate,
      GetNonceSafe, Throws, NodeFails, Unsent
  <2>2. /\ job' = job /\ Supported' = Supported /\ Bulk' = Bulk /\ Given' = Given
    OBVIOUS
  <2>3. RequestsAreSigned'
    BY <2>1 DEF Inv, SentIsSigned, RequestsAreSigned, SignatureOf
  <2>4. RequestVersionsExist'
    BY <2>1, <2>2 DEF Inv, VersionsFit, RequestVersionsExist, KnownVersions
  <2>. QED  BY <2>3, <2>4
<1>. QED  BY <1>1, <1>2, <1>3

------------------------------------------------------------------------------
\* The strengthened invariant of all methods of an account.
THEOREM Invariance == Spec => []Inv
<1>1. Init => Inv
  BY InitInv
<1>2. Inv /\ [Next]_vars => Inv'
  <2>. SUFFICES ASSUME Inv, [Next]_vars PROVE Inv'
    OBVIOUS
  <2>1. JobOK'
    BY JobStays, SameCall DEF Inv
  <2>. QED
    BY <2>1, NextPhase, NextMoney, NextSent, NextRequests
      DEF Inv, VersionsFit, SentIsSigned, RequestsAreSigned, SignatureOf
<1>. QED  BY <1>1, <1>2, PTL DEF Spec

\* The signature of what is sent or validated is over the very transaction that the
\* channel writes.
THEOREM SentIsSignedAlways == Spec => []SentIsSigned
<1>1. Inv => SentIsSigned
  BY DEF Inv
<1>. QED  BY <1>1, Invariance, PTL

\* The fee is for the version that is sent, and every version exists for its kind.
THEOREM VersionsFitAlways == Spec => []VersionsFit
<1>1. Inv => VersionsFit
  BY DEF Inv
<1>. QED  BY <1>1, Invariance, PTL
==============================================================================
