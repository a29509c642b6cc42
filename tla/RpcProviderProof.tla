--------------------------- MODULE RpcProviderProof ---------------------------
(***************************************************************************)
(* What a call of an RpcProvider tells its caller, for every call that a   *)
(* caller can make (ProviderAssumption), every chain and every failure: of *)
(* a block that was waited for, of an estimate, of classes that are        *)
(* declared or taken for declared, of names and addresses, and of profiles.*)
(*                                                                         *)
(* Hashes come down to lists of rows that are written one after the other. *)
(* What holds along a list is proved from the least place where it would   *)
(* not, and the functions that the model defines by recursion are shown to *)
(* exist (RunExists) before their values are used.                         *)
(* A name comes down to numbers, whose digits are read back as they were   *)
(* written (TextIsReadBack), and to dots between labels that have none     *)
(* (LabelsAreApart).  A profile comes down to the answers of nine calls,   *)
(* each given what it refers to (AnswersFollow), and to parts of an answer *)
(* that are read where they stand (PartsAreRead).                          *)
(***************************************************************************)
EXTENDS RpcProvider, SequenceTheorems, WellFoundedInduction, TLAPS

------------------------------------------------------------------------------
(* Waiting for a block, for every number of retries and every height.       *)

WaitTypeOK ==
  /\ height \in Heights
  /\ wanted \in Blocks
  /\ target \in Nat /\ tries \in Nat /\ polls \in Nat

\* While it polls, every try that is gone was a poll.
TriesArePolls ==
  /\ pc = "start" => polls = 0
  /\ pc = "polling" => IF Retries > 0 THEN tries >= 1 /\ tries + polls = Retries
                       ELSE tries = 0 /\ polls = 0

WaitInv == WaitTypeOK /\ TriesArePolls /\ OutcomeTold

\* A wait begins as WaitInv says.
LEMMA WaitInitInv == Init => WaitInv
BY BlockAssumption DEF Init, WaitInv, WaitTypeOK, Heights, TriesArePolls, OutcomeTold, BlockExists,
  NoEarlyTimeout

\* A node that lags has seen no more than the chain has.
LEMMA AnswerIsBelow ==
  ASSUME WaitTypeOK, NEW current \in Heights, current \in Answers
  PROVE  current \in Nat /\ current <= height /\ height \in Nat /\ height \in Heights
BY BlockAssumption DEF WaitTypeOK, Heights, Answers

\* Each step of a wait, of the chain or of the node keeps it.
LEMMA WaitNextInv == WaitInv /\ [Next]_vars => WaitInv'
<1>. SUFFICES ASSUME WaitInv, [Next]_vars PROVE WaitInv'
  OBVIOUS
<1>. USE BlockAssumption DEF WaitInv, WaitTypeOK, TriesArePolls, OutcomeTold, BlockExists, NoEarlyTimeout
<1>1. CASE ChainGrows
  BY <1>1 DEF ChainGrows, Heights
<1>2. CASE StartLatest
  BY <1>2 DEF StartLatest
<1>3. ASSUME NEW current \in Heights, Start(current)
      PROVE  WaitInv'
  <2>1. current \in Nat /\ current <= height /\ height \in Nat
    BY <1>3, AnswerIsBelow DEF Start
  <2>2. target' \in Nat /\ (pc' = "returned" => target' <= height)
    BY <1>3, <2>1 DEF Start, TargetBlock, Blocks, Heights, Latest
  <2>3. polls' = 0 /\ tries' = Retries /\ pc' \in {"returned", "polling"}
    BY <1>3 DEF Start
  <2>. QED  BY <1>3, <2>2, <2>3 DEF Start
<1>4. ASSUME NEW current \in Heights, Turn(current)
      PROVE  WaitInv'
  <2>1. current \in Nat /\ current <= height /\ height \in Nat
    BY <1>4, AnswerIsBelow DEF Turn
  <2>2. /\ tries' \in Nat /\ polls' \in Nat
        /\ UNCHANGED <<height, wanted, target>>
    BY <1>4 DEF Turn, TriesAfter
  <2>3. CASE LastTry
    <3>1. pc' = "timedOut" /\ polls' = PollCap
      BY <1>4, <2>3 DEF Turn, LastTry, PollCap
    <3>. QED  BY <2>2, <3>1
  <2>4. CASE ~LastTry
    <3>1. tries > 1 /\ tries' = tries - 1 /\ Retries > 0 /\ polls' = polls + 1
      BY <1>4, <2>4 DEF Turn, LastTry, TriesAfter, PollCap
    <3>2. /\ pc' \in {"returned", "polling"}
          /\ pc' = "returned" => target <= height
      BY <1>4, <2>1, <2>4 DEF Turn, IsTargetBlock
    <3>3. tries' >= 1 /\ tries' + polls' = Retries
      BY <1>4, <3>1 DEF Turn
    <3>. QED  BY <2>2, <3>1, <3>2, <3>3
  <2>. QED  BY <2>3, <2>4
<1>5. CASE RequestFails
  BY <1>5 DEF RequestFails
<1>6. CASE UNCHANGED vars
  BY <1>6 DEF vars, PollCap
<1>. QED  BY <1>1, <1>2, <1>3, <1>4, <1>5, <1>6 DEF Next, Wait

\* A call of another kind leaves the wait alone.
LEMMA WaitStaysAsIs == ProviderNext => Next \/ UNCHANGED vars
BY Zenon DEF ProviderNext, Answered, GetChainId, GetStarkName, GetAddressFromStarkName, GetStarkProfile,
  GetEstimateFee, LookUpClass, Declare, KeepInvocation, LookUpDeclaration, NoAnswer, OtherDeclares,
  waiting

\* waitForBlock() returns of a block that exists, and times out only after all its tries.
THEOREM OutcomeToldAlways == Spec => []OutcomeTold
<1>1. WaitInv => OutcomeTold
  BY DEF WaitInv
<1>. QED  BY <1>1, WaitInitInv, WaitNextInv, PTL DEF Spec

\* The same of a wait among the calls of a provider, whatever the call is.
THEOREM OutcomeToldToCaller == ProviderSpec => []OutcomeTold
<1>1. ProviderInit => WaitInv
  <2>1. IdleWaiter => WaitInv
    BY BlockAssumption DEF IdleWaiter, WaitInv, WaitTypeOK, Heights, Blocks, TriesArePolls, OutcomeTold,
      BlockExists, NoEarlyTimeout
  <2>. QED  BY <2>1, WaitInitInv DEF ProviderInit
<1>2. WaitInv /\ [ProviderNext]_providerVars => WaitInv'
  <2>1. [ProviderNext]_providerVars => [Next]_vars
    BY WaitStaysAsIs DEF providerVars
  <2>. QED  BY <2>1, WaitNextInv
<1>3. WaitInv => OutcomeTold
  BY DEF WaitInv
<1>. QED  BY <1>1, <1>2, <1>3, PTL DEF ProviderSpec

------------------------------------------------------------------------------
(* Estimates.                                                               *)

\* What is added to a number is a share of it.
LEMMA PercentIsAdded ==
  ASSUME NEW number \in Nat, NEW percent \in Nat
  PROVE  /\ addPercent(number, percent) \in Nat /\ addPercent(number, percent) >= number
         /\ number * percent >= 100 => addPercent(number, percent) >= number + 1
<1>1. PICK share : share = number * percent
  OBVIOUS
<1>2. share \in Nat
  BY <1>1
<1>3. share \div 100 \in Nat /\ (share >= 100 => share \div 100 >= 1)
  BY <1>2
<1>. QED  BY <1>1, <1>3 DEF addPercent

\* The rest of a division.
LEMMA DivisionIs ==
  ASSUME NEW a \in Nat, NEW b \in Nat \ {0}
  PROVE  /\ a \div b \in Nat /\ a % b \in 0 .. b - 1
         /\ a = b * (a \div b) + (a % b)
OBVIOUS

\* A product grows with its factors.
LEMMA ProductGrows ==
  ASSUME NEW a \in Nat, NEW b \in Nat, NEW c \in Nat, NEW d \in Nat, a <= c, b <= d
  PROVE  a * b <= c * d
<1>1. a * b <= c * b
  <2>1. c = a + (c - a) /\ c - a \in Nat
    OBVIOUS
  <2>2. (a + (c - a)) * b = a * b + (c - a) * b /\ (c - a) * b \in Nat /\ a * b \in Nat
    BY <2>1
  <2>. QED  BY <2>1, <2>2
<1>2. c * b <= c * d
  <2>1. d = b + (d - b) /\ d - b \in Nat
    OBVIOUS
  <2>2. c * (b + (d - b)) = c * b + c * (d - b) /\ c * (d - b) \in Nat /\ c * b \in Nat
    BY <2>1
  <2>. QED  BY <2>1, <2>2
<1>3. a * b \in Nat /\ c * b \in Nat /\ c * d \in Nat
  OBVIOUS
<1>. QED  BY <1>1, <1>2, <1>3

\* What the units do not cover is less than one unit's price.
LEMMA BoundsCover ==
  ASSUME NEW estimate, IsEstimate(estimate), ~Throws(estimate), NEW margin, IsMargin(margin),
         \/ ~estimate.data_gas
         \/ estimate.overall_fee % estimate.gas_price = 0
         \/ Units(estimate) * margin.l1BoundMaxAmount >= 100
  PROVE  addPercent(Units(estimate), margin.l1BoundMaxAmount)
           * addPercent(estimate.gas_price, margin.l1BoundMaxPricePerUnit) >= estimate.overall_fee
<1>1. PICK fee \in Nat, price \in Nat, gas \in Nat :
        fee = estimate.overall_fee /\ price = estimate.gas_price /\ gas = estimate.gas_consumed
  BY DEF IsEstimate
<1>2. PICK m \in Nat, p \in Nat : m = margin.l1BoundMaxAmount /\ p = margin.l1BoundMaxPricePerUnit
  BY DEF IsMargin
<1>3. PICK units \in Nat : /\ units = Units(estimate)
                           /\ estimate.data_gas => price # 0 /\ units = fee \div price
                           /\ ~estimate.data_gas => units = gas
  <2>1. estimate.data_gas => price \in Nat \ {0}
    BY <1>1 DEF Throws
  <2>2. estimate.data_gas => fee \div price \in Nat
    BY <2>1, DivisionIs
  <2>. QED  BY <1>1, <2>1, <2>2 DEF Units, IsEstimate
<1>4. PICK amount \in Nat, most \in Nat :
        /\ amount = addPercent(units, m) /\ most = addPercent(price, p)
        /\ amount >= units /\ most >= price
        /\ units * m >= 100 => amount >= units + 1
  BY PercentIsAdded
<1>5. amount * most >= fee
  <2>1. CASE ~estimate.data_gas
    <3>1. fee = units * price
      BY <1>1, <1>3, <2>1 DEF IsEstimate
    <3>. QED  BY <1>4, <3>1, ProductGrows
  <2>2. CASE estimate.data_gas /\ fee % price = 0
    <3>1. fee = price * units
      <4>1. fee = price * (fee \div price) + (fee % price)
        BY <1>3, <2>2, DivisionIs
      <4>. QED  BY <1>3, <2>2, <4>1
    <3>2. units * price = price * units /\ price * units \in Nat
      OBVIOUS
    <3>3. units * price <= amount * most
      BY <1>4, ProductGrows
    <3>. QED  BY <3>1, <3>2, <3>3
  <2>3. CASE estimate.data_gas /\ units * m >= 100
    <3>1. fee = price * units + (fee % price) /\ fee % price \in 0 .. price - 1
      BY <1>3, <2>3, DivisionIs
    <3>2. (units + 1) * price = price * units + price /\ price * units \in Nat
      OBVIOUS
    <3>3. (units + 1) * price <= amount * most
      BY <1>4, <2>3, ProductGrows
    <3>4. amount * most \in Nat /\ (units + 1) * price \in Nat
      OBVIOUS
    <3>. QED  BY <3>1, <3>2, <3>3, <3>4
  <2>. QED  BY <1>1, <1>2, <1>3, <2>1, <2>2, <2>3
<1>. QED  BY <1>1, <1>2, <1>3, <1>4, <1>5

\* What a call is told begins with a tag.
Says(told, tag) == told = <<tag>> \/ \E rest : told = <<tag, rest>>

\* The tag is what the answer is told by.
LEMMA TagIsFirst ==
  ASSUME NEW told, NEW tag, Says(told, tag)
  PROVE  told[1] = tag
<1>1. told = <<tag>> => told[1] = tag
  OBVIOUS
<1>2. (\E rest : told = <<tag, rest>>) => told[1] = tag
  OBVIOUS
<1>. QED  BY <1>1, <1>2, Zenon DEF Says

\* What an estimate that is told was made of.
EstimateInv ==
  /\ job \in Jobs
  /\ answer[1] = "fee" =>
       /\ job.op = "estimate" /\ ~Throws(job.estimate)
       /\ answer = <<"fee", parseFeeEstimate(job.estimate, job.margin)>>

\* Only an estimate tells of a fee, and it tells the one that was parsed.
LEMMA EstimateNext == EstimateInv /\ [ProviderNext]_providerVars => EstimateInv'
<1>. SUFFICES ASSUME EstimateInv, [ProviderNext]_providerVars PROVE EstimateInv'
  OBVIOUS
<1>1. job' = job
  BY DEF ProviderNext, providerVars, calling, Answered, GetChainId, GetStarkName,
    GetAddressFromStarkName, GetStarkProfile, GetEstimateFee, LookUpClass, Declare, KeepInvocation,
    LookUpDeclaration, NoAnswer, OtherDeclares
<1>2. CASE GetEstimateFee
  <2>1. \/ answer' = <<"division by zero">>
        \/ /\ answer' = <<"fee", parseFeeEstimate(job.estimate, job.margin)>>
           /\ job.op = "estimate" /\ ~Throws(job.estimate)
    BY <1>2 DEF GetEstimateFee, Ends
  <2>2. CASE answer' = <<"division by zero">>
    <3>1. answer'[1] # "fee"
      BY <2>2
    <3>. QED  BY <1>1, <3>1 DEF EstimateInv
  <2>. QED  BY <1>1, <2>1, <2>2 DEF EstimateInv
<1>3. answer' = answer => EstimateInv'
  BY <1>1 DEF EstimateInv
<1>4. answer'[1] # "fee" => EstimateInv'
  BY <1>1 DEF EstimateInv
<1>5. CASE ~GetEstimateFee
  <2>. DEFINE Tags == {"undeployed", "name", "could not", "not found", "address", "profile",
                       "cannot extract", "present", "declared", "refused", "prepared", "at",
                       "no answer"}
  <2>1. GetChainId => answer' = answer \/ Says(answer', "undeployed")
    BY Zenon DEF GetChainId, Ends, Says
  <2>2. GetStarkName => Says(answer', "could not") \/ Says(answer', "not found") \/ Says(answer', "name")
    BY Zenon DEF GetStarkName, Ends, Says
  <2>3. GetAddressFromStarkName => Says(answer', "address") \/ Says(answer', "could not")
    BY Zenon DEF GetAddressFromStarkName, Ends, Says
  <2>4. GetStarkProfile => Says(answer', "profile") \/ Says(answer', "could not")
    BY Zenon DEF GetStarkProfile, Ends, Says
  <2>5. LookUpClass => Says(answer', "cannot extract") \/ Says(answer', "present") \/ answer' = answer
    BY Zenon DEF LookUpClass, Ends, Says
  <2>6. Declare => Says(answer', "refused") \/ Says(answer', "declared")
    BY Zenon DEF Declare, Ends, Says
  <2>7. \A invocations : GoesOnWith(invocations) => Says(answer', "prepared") \/ Says(answer', "at")
    BY Zenon DEF GoesOnWith, Ends, Says
  <2>8. KeepInvocation => Says(answer', "prepared") \/ Says(answer', "at")
    BY <2>7, Zenon DEF KeepInvocation
  <2>9. LookUpDeclaration =>
          Says(answer', "cannot extract") \/ Says(answer', "prepared") \/ Says(answer', "at")
    BY <2>7, Zenon DEF LookUpDeclaration, Ends, Says
  <2>10. NoAnswer => Says(answer', "no answer")
    BY Zenon DEF NoAnswer, Ends, Says
  <2>11. OtherDeclares \/ UNCHANGED calling => answer' = answer
    BY DEF OtherDeclares, calling
  <2>12. answer' = answer \/ \E tag \in Tags : Says(answer', tag)
    BY <1>5, <2>1, <2>2, <2>3, <2>4, <2>5, <2>6, <2>8, <2>9, <2>10, <2>11
    DEF ProviderNext, Answered, providerVars
  <2>13. \A tag \in Tags : Says(answer', tag) => answer'[1] # "fee"
    BY TagIsFirst
  <2>. QED  BY <1>3, <1>4, <2>12, <2>13
<1>. QED  BY <1>2, <1>3, <1>4, <1>5

\* The suggested fee and bounds pay what was estimated.
THEOREM EstimateIsAffordableAlways == ProviderSpec => []EstimateIsAffordable
<1>1. ProviderInit => EstimateInv
  BY DEF ProviderInit, EstimateInv, Nothing
<1>2. EstimateInv => EstimateIsAffordable
  <2>. SUFFICES ASSUME EstimateInv, answer[1] = "fee" PROVE EstimateIsAffordable
    BY DEF EstimateIsAffordable
  <2>1. /\ IsEstimate(job.estimate) /\ IsMargin(job.margin) /\ ~Throws(job.estimate)
        /\ answer[2] = parseFeeEstimate(job.estimate, job.margin)
    BY ProviderAssumption DEF EstimateInv, IsCall
  <2>2. /\ answer[2].suggestedMaxFee = addPercent(job.estimate.overall_fee, job.margin.maxFee)
        /\ answer[2].resourceBounds.l1_gas.max_amount
             = addPercent(Units(job.estimate), job.margin.l1BoundMaxAmount)
        /\ answer[2].resourceBounds.l1_gas.max_price_per_unit
             = addPercent(job.estimate.gas_price, job.margin.l1BoundMaxPricePerUnit)
    BY <2>1 DEF parseFeeEstimate, estimatedFeeToMaxFee, estimateFeeToBounds, Bounds
  <2>3. answer[2].suggestedMaxFee >= job.estimate.overall_fee
    BY <2>1, <2>2, PercentIsAdded DEF IsEstimate, IsMargin
  <2>. QED  BY <2>1, <2>2, <2>3, BoundsCover DEF EstimateIsAffordable
<1>. QED  BY <1>1, <1>2, EstimateNext, PTL DEF ProviderSpec

------------------------------------------------------------------------------
(* Lists written one after the other.                                       *)

NatLess == {ss \in Nat \X Nat : ss[1] < ss[2]}

\* A set of naturals that is not empty has a least one.
LEMMA LeastNatural ==
  ASSUME NEW T \in SUBSET Nat, T # {}
  PROVE  \E n \in T : \A m \in T : n <= m
<1>1. IsWellFoundedOn(NatLess, Nat)
  BY NatLessThanWellFounded DEF OpToRel, NatLess
<1>2. PICK n \in T : \A m \in T : ~ (<<m, n>> \in NatLess)
  BY <1>1, WFMin
<1>3. ASSUME NEW m \in T PROVE n <= m
  <2>1. m \in Nat /\ n \in Nat
    OBVIOUS
  <2>2. m < n => <<m, n>> \in NatLess
    BY <2>1 DEF NatLess
  <2>. QED BY <1>2, <2>1, <2>2
<1>. QED BY <1>3

\* What holds of 0, and of n + 1 when it holds of n, holds of all naturals.
LEMMA InductionOn ==
  ASSUME NEW T, 0 \in T, \A n \in Nat : n \in T => n + 1 \in T
  PROVE  Nat \subseteq T
<1>1. SUFFICES ASSUME Nat \ T # {} PROVE FALSE
  OBVIOUS
<1>2. PICK n \in Nat \ T : \A m \in Nat \ T : n <= m
  BY <1>1, LeastNatural
<1>3. n - 1 \in Nat
  BY <1>2
<1>. QED BY <1>2, <1>3

IsJoining(f, seqs, n) ==
  f = [i \in 1 .. n |-> IF i = 1 THEN seqs[i] ELSE f[i - 1] \o seqs[i]]

\* The function that FlattenSeq defines by recursion exists.
LEMMA JoiningExists ==
  ASSUME NEW seqs
  PROVE  \A n \in Nat : \E f : IsJoining(f, seqs, n)
<1>. DEFINE T == {n \in Nat : \E f : IsJoining(f, seqs, n)}
<1>1. 0 \in T
  <2>1. IsJoining([i \in 1 .. 0 |-> 0], seqs, 0)
    BY DEF IsJoining
  <2>. QED BY <2>1
<1>2. ASSUME NEW n \in Nat, n \in T
      PROVE  n + 1 \in T
  <2>1. PICK f : IsJoining(f, seqs, n)
    BY <1>2
  <2>. DEFINE g == [i \in 1 .. n + 1 |-> IF i = 1 THEN seqs[i] ELSE f[i - 1] \o seqs[i]]
  <2>2. \A i \in 1 .. n : f[i] = IF i = 1 THEN seqs[i] ELSE f[i - 1] \o seqs[i]
    BY <2>1, Zenon DEF IsJoining
  <2>3. \A i \in 1 .. n : g[i] = f[i]
    BY <2>2
  <2>4. ASSUME NEW i \in 1 .. n + 1
        PROVE  g[i] = IF i = 1 THEN seqs[i] ELSE g[i - 1] \o seqs[i]
    <3>1. g[i] = IF i = 1 THEN seqs[i] ELSE f[i - 1] \o seqs[i]
      OBVIOUS
    <3>2. i # 1 => i - 1 \in 1 .. n
      OBVIOUS
    <3>. HIDE DEF g
    <3>. QED  BY <2>3, <3>1, <3>2
  <2>5. DOMAIN g = 1 .. n + 1
    OBVIOUS
  <2>6. g = [i \in 1 .. n + 1 |-> g[i]]
    OBVIOUS
  <2>. HIDE DEF g
  <2>7. g = [i \in 1 .. n + 1 |-> IF i = 1 THEN seqs[i] ELSE g[i - 1] \o seqs[i]]
    BY <2>4, <2>6
  <2>8. IsJoining(g, seqs, n + 1)
    BY <2>7 DEF IsJoining
  <2>. QED  BY <2>8
<1>. HIDE DEF T
<1>3. Nat \subseteq T
  BY <1>1, <1>2, InductionOn
<1>. QED  BY <1>3 DEF T

\* FlattenSeq is the last value of that function.
LEMMA FlattenIsJoined ==
  ASSUME NEW seqs, Len(seqs) \in Nat \ {0}
  PROVE  \E f : IsJoining(f, seqs, Len(seqs)) /\ FlattenSeq(seqs) = f[Len(seqs)]
<1>. DEFINE f == CHOOSE f : IsJoining(f, seqs, Len(seqs))
<1>1. IsJoining(f, seqs, Len(seqs))
  BY JoiningExists
<1>2. FlattenSeq(seqs) = f[Len(seqs)]
  BY DEF FlattenSeq, IsJoining
<1>. QED  BY <1>1, <1>2

\* The list u is s, and then t.
IsConcatenation(u, s, t) ==
  /\ Len(s) \in Nat /\ Len(t) \in Nat /\ Len(u) = Len(s) + Len(t)
  /\ \A j \in 1 .. Len(s) : u[j] = s[j]
  /\ \A j \in 1 .. Len(t) : u[Len(s) + j] = t[j]

\* Where the elements of a concatenation stand.
LEMMA Concatenation ==
  ASSUME NEW S, NEW s \in Seq(S), NEW t \in Seq(S)
  PROVE  s \o t \in Seq(S) /\ IsConcatenation(s \o t, s, t)
BY DEF IsConcatenation

\* Each list that is joined begins with those before.
Grows(f, n) ==
  \A k \in 1 .. n : \A i \in 1 .. k :
    Len(f[i]) <= Len(f[k]) /\ \A j \in 1 .. Len(f[i]) : f[k][j] = f[i][j]

\* The lists that are joined on the way are lists, and grow.
LEMMA JoinedLists ==
  ASSUME NEW S, NEW n \in Nat \ {0}, NEW seqs, \A i \in 1 .. n : seqs[i] \in Seq(S),
         NEW f, IsJoining(f, seqs, n)
  PROVE  (\A k \in 1 .. n : f[k] \in Seq(S)) /\ Grows(f, n)
<1>0. \A i \in 1 .. n : f[i] = IF i = 1 THEN seqs[i] ELSE f[i - 1] \o seqs[i]
  BY Zenon DEF IsJoining
<1>. DEFINE Begins(i, k) ==
              Len(f[i]) <= Len(f[k]) /\ \A j \in 1 .. Len(f[i]) : f[k][j] = f[i][j]
            Keeps(k) == \A i \in 1 .. k : f[i] \in Seq(S) /\ Begins(i, k)
            T == {k \in Nat : k \in 1 .. n => Keeps(k)}
<1>1. 0 \in T
  OBVIOUS
<1>2. ASSUME NEW k \in Nat, k \in T
      PROVE  k + 1 \in T
  <2>. SUFFICES ASSUME k + 1 \in 1 .. n
                PROVE  Keeps(k + 1)
    OBVIOUS
  <2>1. CASE k = 0
    <3>1. f[1] = seqs[1] /\ f[1] \in Seq(S)
      BY <1>0
    <3>. QED  BY <2>1, <3>1
  <2>2. CASE k # 0
    <3>1. k \in 1 .. n /\ Keeps(k)
      BY <1>2, <2>2
    <3>2. f[k] \in Seq(S) /\ seqs[k + 1] \in Seq(S)
      BY <3>1
    <3>3. f[k + 1] = f[k] \o seqs[k + 1]
      <4>1. k + 1 # 1 /\ (k + 1) - 1 = k
        BY <2>2
      <4>. QED  BY <1>0, <4>1
    <3>4. f[k + 1] \in Seq(S) /\ Begins(k, k + 1)
      <4>1. PICK s \in Seq(S), t \in Seq(S) : s = f[k] /\ t = seqs[k + 1]
        BY <3>2
      <4>2. f[k + 1] = s \o t
        BY <3>3, <4>1
      <4>3. f[k + 1] \in Seq(S) /\ IsConcatenation(f[k + 1], s, t)
        BY <4>2, Concatenation
      <4>4. /\ Len(s) \in Nat /\ Len(t) \in Nat /\ Len(f[k + 1]) = Len(s) + Len(t)
            /\ \A j \in 1 .. Len(s) : f[k + 1][j] = s[j]
        BY <4>3, Zenon DEF IsConcatenation
      <4>5. Len(f[k]) <= Len(f[k + 1])
        <5>1. PICK a \in Nat, b \in Nat : a = Len(s) /\ b = Len(t)
          BY <4>4
        <5>2. Len(f[k + 1]) = a + b /\ Len(f[k]) = a
          BY <4>1, <4>4, <5>1
        <5>. QED  BY <5>2
      <4>6. \A j \in 1 .. Len(f[k]) : f[k + 1][j] = f[k][j]
        BY <4>1, <4>4, Zenon
      <4>. QED  BY <4>3, <4>5, <4>6
    <3>5. ASSUME NEW i \in 1 .. k
          PROVE  f[i] \in Seq(S) /\ Begins(i, k + 1)
      <4>1. f[i] \in Seq(S) /\ Begins(i, k) /\ Len(f[i]) \in Nat /\ Len(f[k]) \in Nat
            /\ Len(f[k + 1]) \in Nat
        BY <3>1, <3>2, <3>4
      <4>. QED  BY <3>4, <4>1
    <3>6. f[k + 1] \in Seq(S) /\ Begins(k + 1, k + 1)
      BY <3>4
    <3>. HIDE DEF Begins
    <3>. QED  BY <3>5, <3>6
  <2>. QED  BY <2>1, <2>2
<1>. HIDE DEF T
<1>3. Nat \subseteq T
  BY <1>1, <1>2, InductionOn
<1>4. ASSUME NEW k \in 1 .. n
      PROVE  Keeps(k)
  BY <1>3 DEF T
<1>5. \A k \in 1 .. n : f[k] \in Seq(S)
  BY <1>4
<1>. QED  BY <1>4, <1>5 DEF Grows

\* The lists of seqs stand in flat one after the other, the k-th up to end[k].
IsLaidOut(flat, seqs, end) ==
  /\ end \in [0 .. Len(seqs) -> Nat] /\ end[0] = 0 /\ end[Len(seqs)] = Len(flat)
  /\ \A k \in 1 .. Len(seqs) :
       /\ end[k] = end[k - 1] + Len(seqs[k]) /\ end[k] <= Len(flat)
       /\ \A j \in 1 .. Len(seqs[k]) : flat[end[k - 1] + j] = seqs[k][j]

\* FlattenSeq writes its lists one after the other.
LEMMA FlattenLaysOut ==
  ASSUME NEW S, NEW seqs \in Seq(Seq(S))
  PROVE  FlattenSeq(seqs) \in Seq(S) /\ \E end : IsLaidOut(FlattenSeq(seqs), seqs, end)
<1>1. CASE seqs = <<>>
  <2>1. FlattenSeq(seqs) = <<>>
    BY <1>1 DEF FlattenSeq
  <2>2. IsLaidOut(<<>>, <<>>, [k \in 0 .. 0 |-> 0])
    BY DEF IsLaidOut
  <2>. QED  BY <1>1, <2>1, <2>2
<1>2. CASE seqs # <<>>
  <2>1. PICK n \in Nat \ {0} : n = Len(seqs)
    BY <1>2
  <2>2. PICK f : IsJoining(f, seqs, n) /\ FlattenSeq(seqs) = f[n]
    BY <2>1, FlattenIsJoined
  <2>3. PICK flat : flat = FlattenSeq(seqs) /\ flat = f[n]
    BY <2>2
  <2>4. \A i \in 1 .. n : f[i] = IF i = 1 THEN seqs[i] ELSE f[i - 1] \o seqs[i]
    BY <2>2, Zenon DEF IsJoining
  <2>5. \A i \in 1 .. n : seqs[i] \in Seq(S)
    BY <2>1
  <2>6. (\A k \in 1 .. n : f[k] \in Seq(S)) /\ Grows(f, n)
    BY <2>2, <2>5, JoinedLists
  <2>7. PICK end : end = [k \in 0 .. n |-> IF k = 0 THEN 0 ELSE Len(f[k])]
    OBVIOUS
  <2>8. end \in [0 .. n -> Nat] /\ end[0] = 0 /\ end[n] = Len(flat) /\ flat \in Seq(S)
    BY <2>3, <2>6, <2>7
  <2>9. ASSUME NEW k \in 1 .. n
        PROVE  /\ end[k] = end[k - 1] + Len(seqs[k]) /\ end[k] <= Len(flat)
               /\ \A j \in 1 .. Len(seqs[k]) : flat[end[k - 1] + j] = seqs[k][j]
    <3>1. end[k] = Len(f[k]) /\ end[k] <= Len(flat)
          /\ \A j \in 1 .. Len(f[k]) : flat[j] = f[k][j]
      BY <2>3, <2>6, <2>7 DEF Grows
    <3>2. CASE k = 1
      <4>1. f[k] = seqs[k] /\ end[k - 1] = 0 /\ Len(f[k]) \in Nat
        BY <2>4, <2>6, <2>8, <3>2
      <4>. QED  BY <3>1, <4>1
    <3>3. CASE k # 1
      <4>1. k - 1 \in 1 .. n
        BY <3>3
      <4>2. PICK s \in Seq(S), t \in Seq(S) : s = f[k - 1] /\ t = seqs[k]
        BY <2>5, <2>6, <4>1
      <4>3. f[k] = s \o t
        BY <2>4, <3>3, <4>2
      <4>4. end[k - 1] = Len(s)
        BY <2>7, <3>3, <4>1, <4>2
      <4>5. IsConcatenation(f[k], s, t)
        BY <4>3, Concatenation
      <4>6. /\ Len(s) \in Nat /\ Len(t) \in Nat /\ Len(f[k]) = Len(s) + Len(t)
            /\ \A j \in 1 .. Len(t) : f[k][Len(s) + j] = t[j]
        BY <4>5, Zenon DEF IsConcatenation
      <4>7. end[k] = end[k - 1] + Len(seqs[k])
        BY <3>1, <4>2, <4>4, <4>6
      <4>8. ASSUME NEW j \in 1 .. Len(seqs[k])
            PROVE  flat[end[k - 1] + j] = seqs[k][j]
        <5>1. j \in 1 .. Len(t) /\ Len(s) + j \in 1 .. Len(f[k])
          <6>1. PICK a \in Nat, b \in Nat : a = Len(s) /\ b = Len(t)
            BY <4>6
          <6>2. Len(f[k]) = a + b /\ j \in 1 .. b
            BY <4>2, <4>6, <6>1
          <6>. QED  BY <6>1, <6>2
        <5>2. flat[Len(s) + j] = f[k][Len(s) + j]
          BY <3>1, <5>1
        <5>. QED  BY <4>2, <4>4, <4>6, <5>1, <5>2
      <4>. QED  BY <3>1, <4>7, <4>8
    <3>. QED  BY <3>2, <3>3
  <2>10. IsLaidOut(flat, seqs, end)
    BY <2>1, <2>8, <2>9 DEF IsLaidOut
  <2>. QED  BY <2>3, <2>8, <2>10
<1>. QED  BY <1>1, <1>2

\* A list of rows of two parts or three.
IsTable(rows, w, S) == w \in {2, 3} /\ rows \in Seq([1 .. w -> S])

IsSpread(flat, rows, w) ==
  /\ Len(flat) = w * Len(rows)
  /\ \A k \in 1 .. Len(rows) : \A j \in 1 .. w : flat[w * (k - 1) + j] = rows[k][j]

\* Rows of the same width, one after the other, are where the width puts them.
LEMMA RowsAreSpread ==
  ASSUME NEW w, NEW S, NEW rows, IsTable(rows, w, S)
  PROVE  IsSpread(FlattenSeq(rows), rows, w)
<1>0. w \in {2, 3} /\ rows \in Seq([1 .. w -> S])
  BY DEF IsTable
<1>. USE <1>0
<1>1. PICK m \in Nat : m = Len(rows) /\ DOMAIN rows = 1 .. m
  OBVIOUS
<1>2. \A k \in 1 .. m : rows[k] \in [1 .. w -> S]
  BY <1>1
<1>3. \A k \in 1 .. m : rows[k] \in Seq(S) /\ Len(rows[k]) = w
  BY <1>2
<1>4. rows \in Seq(Seq(S))
  BY <1>1, <1>3
<1>5. PICK flat, end : flat = FlattenSeq(rows) /\ IsLaidOut(flat, rows, end)
  BY <1>4, FlattenLaysOut
<1>6. /\ end[0] = 0 /\ end[m] = Len(flat)
      /\ \A k \in 1 .. m : /\ end[k] = end[k - 1] + w
                           /\ \A j \in 1 .. w : flat[end[k - 1] + j] = rows[k][j]
  BY <1>1, <1>3, <1>5 DEF IsLaidOut
<1>. DEFINE T == {k \in Nat : k \in 0 .. m => end[k] = w * k}
<1>7. 0 \in T
  BY <1>6
<1>8. ASSUME NEW k \in Nat, k \in T
      PROVE  k + 1 \in T
  <2>. SUFFICES ASSUME k + 1 \in 0 .. m
                PROVE  end[k + 1] = w * (k + 1)
    OBVIOUS
  <2>1. k + 1 \in 1 .. m /\ (k + 1) - 1 = k /\ k \in 0 .. m
    OBVIOUS
  <2>2. end[k + 1] = end[k] + w /\ end[k] = w * k
    BY <1>6, <1>8, <2>1
  <2>. QED  BY <2>2
<1>. HIDE DEF T
<1>9. Nat \subseteq T
  BY <1>7, <1>8, InductionOn
<1>10. \A k \in 0 .. m : end[k] = w * k
  BY <1>9 DEF T
<1>11. \A k \in 1 .. m : \A j \in 1 .. w : flat[w * (k - 1) + j] = rows[k][j]
  <2>. SUFFICES ASSUME NEW k \in 1 .. m, NEW j \in 1 .. w
                PROVE  flat[w * (k - 1) + j] = rows[k][j]
    OBVIOUS
  <2>1. k - 1 \in 0 .. m
    OBVIOUS
  <2>2. end[k - 1] = w * (k - 1)
    BY <1>10, <2>1
  <2>. QED  BY <1>6, <2>2
<1>12. Len(flat) = w * m
  BY <1>6, <1>10
<1>. QED  BY <1>1, <1>5, <1>11, <1>12 DEF IsSpread

\* So rows can be told apart.
LEMMA RowsAreApart ==
  ASSUME NEW w, NEW S, NEW rows, NEW others, IsTable(rows, w, S), IsTable(others, w, S),
         FlattenSeq(rows) = FlattenSeq(others)
  PROVE  rows = others
<1>1. PICK m \in Nat, n \in Nat :
        /\ m = Len(rows) /\ n = Len(others) /\ w \in {2, 3}
        /\ rows \in Seq([1 .. w -> S]) /\ others \in Seq([1 .. w -> S])
  BY DEF IsTable
<1>2. PICK flat : flat = FlattenSeq(rows) /\ flat = FlattenSeq(others)
  OBVIOUS
<1>3. Len(flat) = w * m /\ \A k \in 1 .. m : \A j \in 1 .. w : flat[w * (k - 1) + j] = rows[k][j]
  <2>1. IsSpread(flat, rows, w)
    BY <1>2, RowsAreSpread
  <2>. QED  BY <1>1, <2>1 DEF IsSpread
<1>4. Len(flat) = w * n /\ \A k \in 1 .. n : \A j \in 1 .. w : flat[w * (k - 1) + j] = others[k][j]
  <2>1. IsSpread(flat, others, w)
    BY <1>2, RowsAreSpread
  <2>. QED  BY <1>1, <2>1 DEF IsSpread
<1>5. m = n
  <2>1. w * m = w * n
    BY <1>3, <1>4
  <2>2. CASE w = 2
    <3>1. 2 * m = 2 * n
      BY <2>1, <2>2
    <3>. QED  BY <3>1
  <2>3. CASE w = 3
    <3>1. 3 * m = 3 * n
      BY <2>1, <2>3
    <3>. QED  BY <3>1
  <2>. QED  BY <1>1, <2>2, <2>3
<1>6. ASSUME NEW k \in 1 .. m PROVE rows[k] = others[k]
  <2>1. PICK Row : Row = [1 .. w -> S]
    OBVIOUS
  <2>2. rows \in Seq(Row) /\ others \in Seq(Row)
    BY <1>1, <2>1
  <2>3. k \in 1 .. Len(rows) /\ k \in 1 .. Len(others)
    BY <1>1, <1>5
  <2>4. PICK row \in Row, other \in Row : row = rows[k] /\ other = others[k]
    BY <2>2, <2>3
  <2>5. \A j \in 1 .. w : flat[w * (k - 1) + j] = row[j]
    BY <1>3, <2>4, Zenon
  <2>6. \A j \in 1 .. w : flat[w * (k - 1) + j] = other[j]
    BY <1>4, <1>5, <2>4, Zenon
  <2>7. \A j \in 1 .. w : row[j] = other[j]
    BY <2>5, <2>6, Zenon
  <2>8. row = [j \in 1 .. w |-> row[j]] /\ other = [j \in 1 .. w |-> other[j]]
    BY <2>1
  <2>. QED  BY <2>4, <2>7, <2>8
<1>7. rows = [k \in 1 .. m |-> rows[k]] /\ others = [k \in 1 .. n |-> others[k]]
  BY <1>1
<1>. QED  BY <1>5, <1>6, <1>7

\* f begins with a value, and goes on from each value to the next by a step.
IsRun(f, begin, stepping, n) ==
  f[0] = begin /\ \A i \in 1 .. n : f[i] = stepping[<<i, f[i - 1]>>]

\* Functions that are defined by such recursion exist.
LEMMA RunExists ==
  ASSUME NEW X, NEW begin \in X, NEW stepping \in [Nat \X X -> X]
  PROVE  \A n \in Nat : \E f \in [0 .. n -> X] : IsRun(f, begin, stepping, n)
<1>. DEFINE T == {n \in Nat : \E f \in [0 .. n -> X] : IsRun(f, begin, stepping, n)}
<1>1. 0 \in T
  <2>1. PICK f : f = [i \in 0 .. 0 |-> begin]
    OBVIOUS
  <2>2. f \in [0 .. 0 -> X] /\ f[0] = begin
    BY <2>1
  <2>3. IsRun(f, begin, stepping, 0)
    BY <2>2 DEF IsRun
  <2>. QED  BY <2>2, <2>3
<1>2. ASSUME NEW n \in Nat, n \in T
      PROVE  n + 1 \in T
  <2>1. PICK f \in [0 .. n -> X] : IsRun(f, begin, stepping, n)
    BY <1>2
  <2>2. f[0] = begin /\ \A i \in 1 .. n : f[i] = stepping[<<i, f[i - 1]>>]
    BY <2>1 DEF IsRun
  <2>3. PICK last \in X : last = stepping[<<n + 1, f[n]>>]
    <3>1. PICK x \in X : x = f[n]
      OBVIOUS
    <3>2. <<n + 1, x>> \in Nat \X X
      OBVIOUS
    <3>3. stepping[<<n + 1, x>>] \in X
      BY <3>2
    <3>. QED  BY <3>1, <3>3
  <2>4. PICK g : g = [i \in 0 .. n + 1 |-> IF i = n + 1 THEN last ELSE f[i]]
    OBVIOUS
  <2>5. g \in [0 .. n + 1 -> X]
    BY <2>4
  <2>6. g[n + 1] = last /\ \A i \in 0 .. n : g[i] = f[i]
    BY <2>4
  <2>7. g[0] = begin /\ \A i \in 1 .. n + 1 : g[i] = stepping[<<i, g[i - 1]>>]
    <3>1. ASSUME NEW i \in 1 .. n + 1
          PROVE  g[i] = stepping[<<i, g[i - 1]>>]
      <4>1. CASE i = n + 1
        <5>1. i - 1 = n /\ g[n] = f[n]
          BY <2>6, <4>1
        <5>. QED  BY <2>3, <2>6, <4>1, <5>1
      <4>2. CASE i # n + 1
        <5>1. i \in 1 .. n /\ i \in 0 .. n /\ i - 1 \in 0 .. n
          BY <4>2
        <5>. QED  BY <2>2, <2>6, <5>1
      <4>. QED  BY <4>1, <4>2
    <3>. QED  BY <2>2, <2>6, <3>1
  <2>8. IsRun(g, begin, stepping, n + 1)
    BY <2>7 DEF IsRun
  <2>. QED  BY <2>5, <2>8
<1>. HIDE DEF T
<1>3. Nat \subseteq T
  BY <1>1, <1>2, InductionOn
<1>. QED  BY <1>3 DEF T

------------------------------------------------------------------------------
(* Hashes of classes and of their assemblies.                               *)

ArePairs(list) == IsList(list) /\ \A i \in DOMAIN list : IsPair(list[i])

\* Entry points that are hashed alike are the same.
LEMMA PairsAreApart ==
  ASSUME NEW list, NEW other, ArePairs(list), ArePairs(other), FlattenSeq(list) = FlattenSeq(other)
  PROVE  list = other
<1>1. PICK m \in Nat, n \in Nat :
        /\ list = [i \in 1 .. m |-> list[i]] /\ other = [i \in 1 .. n |-> other[i]]
        /\ \A i \in 1 .. m : list[i] = <<list[i][1], list[i][2]>>
        /\ \A i \in 1 .. n : other[i] = <<other[i][1], other[i][2]>>
  BY DEF ArePairs, IsList, IsPair
<1>2. PICK S : /\ \A i \in 1 .. m : list[i][1] \in S /\ list[i][2] \in S
               /\ \A i \in 1 .. n : other[i][1] \in S /\ other[i][2] \in S
  <2>. DEFINE S == {list[i][1] : i \in 1 .. m} \union {list[i][2] : i \in 1 .. m}
                     \union {other[i][1] : i \in 1 .. n} \union {other[i][2] : i \in 1 .. n}
  <2>1. /\ \A i \in 1 .. m : list[i][1] \in S /\ list[i][2] \in S
        /\ \A i \in 1 .. n : other[i][1] \in S /\ other[i][2] \in S
    OBVIOUS
  <2>. QED  BY <2>1
<1>3. \A a \in S, b \in S : <<a, b>> \in [1 .. 2 -> S]
  OBVIOUS
<1>4. PICK Row : Row = [1 .. 2 -> S]
  OBVIOUS
<1>5. \A i \in 1 .. m : list[i] \in Row
  <2>1. ASSUME NEW i \in 1 .. m PROVE list[i] \in Row
    <3>1. PICK a \in S, b \in S : list[i] = <<a, b>>
      BY <1>1, <1>2
    <3>. QED  BY <1>3, <1>4, <3>1
  <2>. QED  BY <2>1
<1>6. \A i \in 1 .. n : other[i] \in Row
  <2>1. ASSUME NEW i \in 1 .. n PROVE other[i] \in Row
    <3>1. PICK a \in S, b \in S : other[i] = <<a, b>>
      BY <1>1, <1>2
    <3>. QED  BY <1>3, <1>4, <3>1
  <2>. QED  BY <2>1
<1>7. list \in [1 .. m -> Row] /\ other \in [1 .. n -> Row]
  BY <1>1, <1>5, <1>6
<1>8. list \in Seq(Row) /\ other \in Seq(Row)
  BY <1>7
<1>9. IsTable(list, 2, S) /\ IsTable(other, 2, S)
  BY <1>4, <1>8 DEF IsTable
<1>. QED  BY <1>9, RowsAreApart

\* Two classes with one hash have the same code and interface.
LEMMA ClassesAreApart ==
  ASSUME NEW class, NEW other, IsClass(class), IsClass(other),
         computeContractClassHash(class) = computeContractClassHash(other)
  PROVE  Same(class, other)
<1>1. /\ class.entryPoints = [type \in EntryPointTypes |-> class.entryPoints[type]]
      /\ other.entryPoints = [type \in EntryPointTypes |-> other.entryPoints[type]]
      /\ \A type \in EntryPointTypes :
           ArePairs(class.entryPoints[type]) /\ ArePairs(other.entryPoints[type])
  BY DEF IsClass, ArePairs
<1>2. ASSUME \A type \in EntryPointTypes :
               FlattenSeq(class.entryPoints[type]) = FlattenSeq(other.entryPoints[type])
      PROVE  class.entryPoints = other.entryPoints
  <2>1. \A type \in EntryPointTypes : class.entryPoints[type] = other.entryPoints[type]
    BY <1>1, <1>2, PairsAreApart
  <2>. QED  BY <1>1, <2>1
<1>3. CASE class.sierra /\ other.sierra
  <2>. DEFINE flat(c, type) == FlattenSeq(c.entryPoints[type])
  <2>1. computeSierraContractClassHash(class) = computeSierraContractClassHash(other)
    BY <1>3 DEF computeContractClassHash
  <2>2. /\ flat(class, "EXTERNAL") = flat(other, "EXTERNAL")
        /\ flat(class, "L1_HANDLER") = flat(other, "L1_HANDLER")
        /\ flat(class, "CONSTRUCTOR") = flat(other, "CONSTRUCTOR")
        /\ class.abi = other.abi /\ class.program = other.program
    BY <2>1 DEF computeSierraContractClassHash, hashEntryPointSierra, Poseidon, Keccak
  <2>3. class.entryPoints = other.entryPoints
    BY <1>2, <2>2 DEF EntryPointTypes
  <2>4. class = other
    BY <1>3, <2>2, <2>3 DEF IsClass
  <2>. QED  BY <1>3, <2>4 DEF Same
<1>4. CASE ~class.sierra /\ ~other.sierra
  <2>. DEFINE flat(c, type) == FlattenSeq(c.entryPoints[type])
  <2>1. computeLegacyContractClassHash(class) = computeLegacyContractClassHash(other)
    BY <1>4 DEF computeContractClassHash
  <2>2. /\ flat(class, "EXTERNAL") = flat(other, "EXTERNAL")
        /\ flat(class, "L1_HANDLER") = flat(other, "L1_HANDLER")
        /\ flat(class, "CONSTRUCTOR") = flat(other, "CONSTRUCTOR")
        /\ class.builtins = other.builtins /\ class.program = other.program
        /\ Serialized(class) = Serialized(other)
    BY <2>1 DEF computeLegacyContractClassHash, computeHintedClassHash, FlatEntryPoints, Pedersen, Keccak
  <2>3. class.entryPoints = other.entryPoints
    BY <1>2, <2>2 DEF EntryPointTypes
  <2>4. class.abi = other.abi /\ class.attributes = other.attributes
    BY <1>4, <2>2 DEF Serialized, IsClass, NoAttributes
  <2>. QED  BY <1>4, <2>2, <2>3, <2>4 DEF Same
<1>5. class.sierra <=> other.sierra
  <2>1. computeSierraContractClassHash(class) # computeLegacyContractClassHash(other)
    BY DEF computeSierraContractClassHash, computeLegacyContractClassHash, Pedersen, Poseidon
  <2>2. computeLegacyContractClassHash(class) # computeSierraContractClassHash(other)
    BY DEF computeSierraContractClassHash, computeLegacyContractClassHash, Pedersen, Poseidon
  <2>. QED  BY <2>1, <2>2 DEF computeContractClassHash
<1>. QED  BY <1>3, <1>4, <1>5

\* start begins the segments of these lengths.
IsStarting(start, lengths) ==
  start = [i \in 1 .. Len(lengths) + 1 |-> IF i = 1 THEN 0 ELSE start[i - 1] + lengths[i - 1]]

AreStarts(start, lengths) ==
  /\ start \in [1 .. Len(lengths) + 1 -> Nat] /\ start[1] = 0
  /\ \A i \in 1 .. Len(lengths) : start[i + 1] = start[i] + lengths[i]

\* SegmentStarts() gives where segments start.
LEMMA StartsAre ==
  ASSUME NEW lengths \in Seq(Nat)
  PROVE  AreStarts(SegmentStarts(lengths), lengths)
<1>1. PICK n \in Nat : n = Len(lengths) /\ \A i \in 1 .. n : lengths[i] \in Nat
  OBVIOUS
<1>2. PICK stepping :
        stepping = [p \in Nat \X Nat |-> IF p[1] \in 1 .. n THEN p[2] + lengths[p[1]] ELSE 0]
  OBVIOUS
<1>3. stepping \in [Nat \X Nat -> Nat]
  BY <1>1, <1>2
<1>4. PICK f \in [0 .. n -> Nat] : IsRun(f, 0, stepping, n)
  BY <1>3, RunExists
<1>5. f[0] = 0 /\ \A i \in 1 .. n : f[i] = f[i - 1] + lengths[i]
  <2>1. f[0] = 0 /\ \A i \in 1 .. n : f[i] = stepping[<<i, f[i - 1]>>]
    BY <1>4 DEF IsRun
  <2>2. ASSUME NEW i \in 1 .. n PROVE f[i] = f[i - 1] + lengths[i]
    <3>1. PICK x \in Nat : x = f[i - 1]
      OBVIOUS
    <3>2. stepping[<<i, x>>] = x + lengths[i]
      BY <1>2
    <3>. QED  BY <2>1, <3>1, <3>2
  <2>. QED  BY <2>1, <2>2
<1>6. PICK g : g = [i \in 1 .. n + 1 |-> f[i - 1]]
  OBVIOUS
<1>7. \A i \in 1 .. n + 1 : g[i] = IF i = 1 THEN 0 ELSE g[i - 1] + lengths[i - 1]
  <2>1. ASSUME NEW i \in 1 .. n + 1
        PROVE  g[i] = IF i = 1 THEN 0 ELSE g[i - 1] + lengths[i - 1]
    <3>1. CASE i = 1
      BY <1>5, <1>6, <3>1
    <3>2. CASE i # 1
      <4>1. i - 1 \in 1 .. n /\ i - 1 \in 1 .. n + 1
        BY <3>2
      <4>2. g[i] = f[i - 1] /\ g[i - 1] = f[(i - 1) - 1]
        BY <1>6, <4>1
      <4>3. f[i - 1] = f[(i - 1) - 1] + lengths[i - 1]
        BY <1>5, <4>1
      <4>. QED  BY <3>2, <4>2, <4>3
    <3>. QED  BY <3>1, <3>2
  <2>. QED  BY <2>1
<1>8. g = [i \in 1 .. n + 1 |-> IF i = 1 THEN 0 ELSE g[i - 1] + lengths[i - 1]]
  <2>1. g = [i \in 1 .. n + 1 |-> g[i]]
    BY <1>6
  <2>. QED  BY <1>7, <2>1
<1>9. \E start : IsStarting(start, lengths)
  BY <1>1, <1>8 DEF IsStarting
<1>10. PICK start : start = SegmentStarts(lengths) /\ IsStarting(start, lengths)
  <2>. DEFINE chosen == CHOOSE start : IsStarting(start, lengths)
  <2>1. SegmentStarts(lengths) = chosen
    BY Zenon DEF SegmentStarts, IsStarting
  <2>2. IsStarting(chosen, lengths)
    BY <1>9, Zenon
  <2>. QED  BY <2>1, <2>2
<1>11. start = [i \in 1 .. n + 1 |-> IF i = 1 THEN 0 ELSE start[i - 1] + lengths[i - 1]]
  BY <1>1, <1>10, Zenon DEF IsStarting
<1>12. \A i \in 1 .. n + 1 : start[i] = IF i = 1 THEN 0 ELSE start[i - 1] + lengths[i - 1]
  BY <1>11, Zenon
<1>13. start[1] = 0
  <2>1. 1 \in 1 .. n + 1
    OBVIOUS
  <2>. QED  BY <1>12, <2>1
<1>14. \A i \in 1 .. n : start[i + 1] = start[i] + lengths[i]
  <2>1. ASSUME NEW i \in 1 .. n PROVE start[i + 1] = start[i] + lengths[i]
    <3>1. i + 1 \in 1 .. n + 1 /\ i + 1 # 1 /\ (i + 1) - 1 = i
      OBVIOUS
    <3>2. start[i + 1] = IF i + 1 = 1 THEN 0 ELSE start[(i + 1) - 1] + lengths[(i + 1) - 1]
      BY <1>12, <3>1, Zenon
    <3>. QED  BY <3>1, <3>2
  <2>. QED  BY <2>1
<1>. DEFINE T == {k \in Nat : k \in 1 .. n + 1 => start[k] \in Nat}
<1>15. 0 \in T
  OBVIOUS
<1>16. ASSUME NEW k \in Nat, k \in T
       PROVE  k + 1 \in T
  <2>. SUFFICES ASSUME k + 1 \in 1 .. n + 1
                PROVE  start[k + 1] \in Nat
    OBVIOUS
  <2>1. CASE k = 0
    BY <1>13, <2>1
  <2>2. CASE k # 0
    <3>1. k \in 1 .. n /\ k \in 1 .. n + 1
      BY <2>2
    <3>2. start[k + 1] = start[k] + lengths[k]
      BY <1>14, <3>1
    <3>. QED  BY <1>1, <1>16, <3>1, <3>2
  <2>. QED  BY <2>1, <2>2
<1>. HIDE DEF T
<1>17. Nat \subseteq T
  BY <1>15, <1>16, InductionOn
<1>18. start \in [1 .. n + 1 -> Nat]
  <2>1. \A i \in 1 .. n + 1 : start[i] \in Nat
    BY <1>17 DEF T
  <2>2. start = [i \in 1 .. n + 1 |-> start[i]]
    BY <1>11, <1>12
  <2>. QED  BY <2>1, <2>2
<1>. QED  BY <1>1, <1>10, <1>13, <1>14, <1>18, Zenon DEF AreStarts

\* The code in each segment is the same.
SameInSegments(code, other, lengths, start) ==
  \A i \in 1 .. Len(lengths) :
    SubSeq(code, start[i] + 1, start[i] + lengths[i])
      = SubSeq(other, start[i] + 1, start[i] + lengths[i])

AreAlike(code, other, size) == \A p \in 1 .. size : code[p] = other[p]

\* Segments that are the same make up the same code.
LEMMA SegmentsMakeCode ==
  ASSUME NEW lengths \in Seq(Nat), NEW code, NEW other, NEW start, AreStarts(start, lengths),
         SameInSegments(code, other, lengths, start)
  PROVE  AreAlike(code, other, start[Len(lengths) + 1])
<1>2. PICK n \in Nat : n = Len(lengths) /\ \A i \in 1 .. n : lengths[i] \in Nat
  OBVIOUS
<1>3. /\ start \in [1 .. n + 1 -> Nat] /\ start[1] = 0
      /\ \A i \in 1 .. n : start[i + 1] = start[i] + lengths[i]
  BY <1>2 DEF AreStarts
<1>4. \A i \in 1 .. n : SubSeq(code, start[i] + 1, start[i] + lengths[i])
                          = SubSeq(other, start[i] + 1, start[i] + lengths[i])
  BY <1>2, Zenon DEF SameInSegments
<1>. DEFINE T == {k \in Nat : k \in 0 .. n => \A p \in 1 .. start[k + 1] : code[p] = other[p]}
<1>5. 0 \in T
  BY <1>3
<1>6. ASSUME NEW k \in Nat, k \in T
      PROVE  k + 1 \in T
  <2>. SUFFICES ASSUME k + 1 \in 0 .. n, NEW p \in 1 .. start[(k + 1) + 1]
                PROVE  code[p] = other[p]
    OBVIOUS
  <2>1. k + 1 \in 1 .. n /\ k \in 0 .. n
    OBVIOUS
  <2>2. PICK a \in Nat, l \in Nat : /\ a = start[k + 1] /\ l = lengths[k + 1]
                                    /\ start[(k + 1) + 1] = a + l
    <3>1. start[k + 1] \in Nat /\ lengths[k + 1] \in Nat
      BY <1>2, <1>3, <2>1, SMTT(30)
    <3>2. start[(k + 1) + 1] = start[k + 1] + lengths[k + 1]
      BY <1>3, <2>1, Zenon
    <3>. QED  BY <3>1, <3>2
  <2>3. CASE p <= a
    BY <1>6, <2>1, <2>2, <2>3
  <2>4. CASE p > a
    <3>1. PICK j \in 1 .. l : p = a + j
      <4>1. p \in 1 .. a + l
        BY <2>2, Zenon
      <4>2. \A x, y, z \in Nat : x \in 1 .. y + z /\ x > y => x - y \in 1 .. z /\ x = y + (x - y)
        OBVIOUS
      <4>3. p \in Nat
        BY <4>1
      <4>4. p - a \in 1 .. l /\ p = a + (p - a)
        BY <2>4, <4>1, <4>2, <4>3, Zenon
      <4>. QED  BY <4>4, Zenon
    <3>2. SubSeq(code, a + 1, a + l)[j] = code[p] /\ SubSeq(other, a + 1, a + l)[j] = other[p]
      BY <3>1
    <3>3. SubSeq(code, a + 1, a + l) = SubSeq(other, a + 1, a + l)
      BY <1>4, <2>1, <2>2
    <3>. QED  BY <3>2, <3>3
  <2>. QED  BY <2>2, <2>3, <2>4
<1>. HIDE DEF T
<1>7. Nat \subseteq T
  BY <1>5, <1>6, InductionOn
<1>8. \A p \in 1 .. start[n + 1] : code[p] = other[p]
  BY <1>7 DEF T
<1>. QED  BY <1>2, <1>8 DEF AreAlike

\* A hash tells its input.
LEMMA PoseidonIsApart ==
  ASSUME NEW input, NEW other, Poseidon(input) = Poseidon(other)
  PROVE  input = other
BY DEF Poseidon

AreTriples(list) ==
  IsList(list) /\ \A i \in DOMAIN list : list[i] = <<list[i][1], list[i][2], list[i][3]>>

\* The same of rows of three.
LEMMA TriplesAreApart ==
  ASSUME NEW list, NEW other, AreTriples(list), AreTriples(other), FlattenSeq(list) = FlattenSeq(other)
  PROVE  list = other
<1>1. PICK m \in Nat, n \in Nat :
        /\ list = [i \in 1 .. m |-> list[i]] /\ other = [i \in 1 .. n |-> other[i]]
        /\ \A i \in 1 .. m : list[i] = <<list[i][1], list[i][2], list[i][3]>>
        /\ \A i \in 1 .. n : other[i] = <<other[i][1], other[i][2], other[i][3]>>
  BY DEF AreTriples, IsList
<1>2. PICK S : /\ \A i \in 1 .. m : list[i][1] \in S /\ list[i][2] \in S /\ list[i][3] \in S
               /\ \A i \in 1 .. n : other[i][1] \in S /\ other[i][2] \in S /\ other[i][3] \in S
  <2>. DEFINE S == {list[i][1] : i \in 1 .. m} \union {list[i][2] : i \in 1 .. m}
                     \union {list[i][3] : i \in 1 .. m}
                     \union {other[i][1] : i \in 1 .. n} \union {other[i][2] : i \in 1 .. n}
                     \union {other[i][3] : i \in 1 .. n}
  <2>1. /\ \A i \in 1 .. m : list[i][1] \in S /\ list[i][2] \in S /\ list[i][3] \in S
        /\ \A i \in 1 .. n : other[i][1] \in S /\ other[i][2] \in S /\ other[i][3] \in S
    OBVIOUS
  <2>. QED  BY <2>1
<1>3. \A a \in S, b \in S, c \in S : <<a, b, c>> \in [1 .. 3 -> S]
  OBVIOUS
<1>4. PICK Row : Row = [1 .. 3 -> S]
  OBVIOUS
<1>5. \A i \in 1 .. m : list[i] \in Row
  <2>1. ASSUME NEW i \in 1 .. m PROVE list[i] \in Row
    <3>1. PICK a \in S, b \in S, c \in S : list[i] = <<a, b, c>>
      BY <1>1, <1>2
    <3>. QED  BY <1>3, <1>4, <3>1
  <2>. QED  BY <2>1
<1>6. \A i \in 1 .. n : other[i] \in Row
  <2>1. ASSUME NEW i \in 1 .. n PROVE other[i] \in Row
    <3>1. PICK a \in S, b \in S, c \in S : other[i] = <<a, b, c>>
      BY <1>1, <1>2
    <3>. QED  BY <1>3, <1>4, <3>1
  <2>. QED  BY <2>1
<1>7. list \in [1 .. m -> Row] /\ other \in [1 .. n -> Row]
  BY <1>1, <1>5, <1>6
<1>8. list \in Seq(Row) /\ other \in Seq(Row)
  BY <1>7
<1>9. IsTable(list, 3, S) /\ IsTable(other, 3, S)
  BY <1>4, <1>8 DEF IsTable
<1>. QED  BY <1>9, RowsAreApart

ArePoints(list) == IsList(list) /\ \A i \in DOMAIN list : IsEntryPoint(list[i])

PointRows(list) ==
  [i \in DOMAIN list |-> <<list[i].selector, list[i].offset, hashBuiltins(list[i].builtins)>>]

\* Entry points of assemblies that are hashed alike are the same.
LEMMA PointsAreApart ==
  ASSUME NEW list, NEW other, ArePoints(list), ArePoints(other),
         hashEntryPoint(list) = hashEntryPoint(other)
  PROVE  list = other
<1>1. PICK m \in Nat, n \in Nat :
        /\ list = [i \in 1 .. m |-> list[i]] /\ other = [i \in 1 .. n |-> other[i]]
        /\ DOMAIN list = 1 .. m /\ DOMAIN other = 1 .. n
  BY DEF ArePoints, IsList
<1>2. /\ \A i \in 1 .. m : IsEntryPoint(list[i])
      /\ \A i \in 1 .. n : IsEntryPoint(other[i])
  BY <1>1, Zenon DEF ArePoints
<1>3. PICK rows, others : rows = PointRows(list) /\ others = PointRows(other)
  OBVIOUS
<1>4. /\ rows = [i \in 1 .. m |-> rows[i]] /\ others = [i \in 1 .. n |-> others[i]]
      /\ \A i \in 1 .. m :
           rows[i] = <<list[i].selector, list[i].offset, hashBuiltins(list[i].builtins)>>
      /\ \A i \in 1 .. n :
           others[i] = <<other[i].selector, other[i].offset, hashBuiltins(other[i].builtins)>>
  BY <1>1, <1>3 DEF PointRows
<1>5. Len(rows) = m /\ Len(others) = n
  BY <1>4
<1>6. AreTriples(rows) /\ AreTriples(others)
  BY <1>4, <1>5 DEF AreTriples, IsList
<1>7. FlattenSeq(rows) = FlattenSeq(others)
  <2>1. hashEntryPoint(list) = Poseidon(FlattenSeq(rows))
    BY <1>3, Zenon DEF hashEntryPoint, PointRows
  <2>2. hashEntryPoint(other) = Poseidon(FlattenSeq(others))
    BY <1>3, Zenon DEF hashEntryPoint, PointRows
  <2>3. Poseidon(FlattenSeq(rows)) = Poseidon(FlattenSeq(others))
    BY <2>1, <2>2, Zenon
  <2>. QED  BY <2>3, PoseidonIsApart
<1>8. rows = others
  BY <1>6, <1>7, TriplesAreApart
<1>9. m = n
  BY <1>5, <1>8
<1>10. ASSUME NEW i \in 1 .. m PROVE list[i] = other[i]
  <2>1. <<list[i].selector, list[i].offset, hashBuiltins(list[i].builtins)>>
          = <<other[i].selector, other[i].offset, hashBuiltins(other[i].builtins)>>
    BY <1>4, <1>8, <1>9, Zenon
  <2>2. /\ list[i].selector = other[i].selector /\ list[i].offset = other[i].offset
        /\ list[i].builtins = other[i].builtins
    BY <2>1 DEF hashBuiltins, Poseidon
  <2>3. IsEntryPoint(list[i]) /\ IsEntryPoint(other[i])
    BY <1>2, <1>9
  <2>. QED  BY <2>2, <2>3, Zenon DEF IsEntryPoint
<1>. QED  BY <1>1, <1>9, <1>10

Leaves(casm, start) ==
  [i \in DOMAIN casm.segments |->
     <<casm.segments[i], Poseidon(SubSeq(casm.bytecode, start[i] + 1, start[i] + casm.segments[i]))>>]

\* Code whose segments are hashed alike is the same, and cut alike.
LEMMA CodesAreApart ==
  ASSUME NEW casm, NEW other, IsAssembly(casm), IsAssembly(other),
         casm.segments # <<>>, other.segments # <<>>,
         hashByteCodeSegments(casm) = hashByteCodeSegments(other)
  PROVE  casm.segments = other.segments /\ casm.bytecode = other.bytecode
<1>1. PICK start, starts : /\ start = SegmentStarts(casm.segments)
                           /\ starts = SegmentStarts(other.segments)
  OBVIOUS
<1>2. PICK leaves, others : leaves = Leaves(casm, start) /\ others = Leaves(other, starts)
  OBVIOUS
<1>3. PICK m \in Nat, n \in Nat :
        /\ m = Len(casm.segments) /\ n = Len(other.segments)
        /\ DOMAIN casm.segments = 1 .. m /\ DOMAIN other.segments = 1 .. n
        /\ casm.segments = [i \in 1 .. m |-> casm.segments[i]]
        /\ other.segments = [i \in 1 .. n |-> other.segments[i]]
  <2>1. casm.segments \in Seq(Nat) /\ other.segments \in Seq(Nat)
    BY Zenon DEF IsAssembly
  <2>2. ASSUME NEW list \in Seq(Nat)
        PROVE  /\ Len(list) \in Nat /\ DOMAIN list = 1 .. Len(list)
               /\ list = [i \in 1 .. Len(list) |-> list[i]]
    OBVIOUS
  <2>. QED  BY <2>1, <2>2, Zenon
<1>4. /\ leaves = [i \in 1 .. m |-> leaves[i]] /\ others = [i \in 1 .. n |-> others[i]]
      /\ \A i \in 1 .. m :
           leaves[i] = <<casm.segments[i],
                         Poseidon(SubSeq(casm.bytecode, start[i] + 1, start[i] + casm.segments[i]))>>
      /\ \A i \in 1 .. n :
           others[i] = <<other.segments[i],
                         Poseidon(SubSeq(other.bytecode, starts[i] + 1, starts[i] + other.segments[i]))>>
  BY <1>2, <1>3 DEF Leaves
<1>5. Len(leaves) = m /\ Len(others) = n
  BY <1>4
<1>6. ArePairs(leaves) /\ ArePairs(others)
  BY <1>4, <1>5 DEF ArePairs, IsList, IsPair
<1>7. FlattenSeq(leaves) = FlattenSeq(others)
  <2>1. hashByteCodeSegments(casm) = <<"1 +", Poseidon(FlattenSeq(leaves))>>
    BY <1>1, <1>2, Zenon DEF hashByteCodeSegments, Leaves
  <2>2. hashByteCodeSegments(other) = <<"1 +", Poseidon(FlattenSeq(others))>>
    BY <1>1, <1>2, Zenon DEF hashByteCodeSegments, Leaves
  <2>3. <<"1 +", Poseidon(FlattenSeq(leaves))>> = <<"1 +", Poseidon(FlattenSeq(others))>>
    BY <2>1, <2>2, Zenon
  <2>4. Poseidon(FlattenSeq(leaves)) = Poseidon(FlattenSeq(others))
    BY <2>3
  <2>. QED  BY <2>4, PoseidonIsApart
<1>8. leaves = others
  BY <1>6, <1>7, PairsAreApart
<1>9. m = n
  BY <1>5, <1>8
<1>10. \A i \in 1 .. m :
         <<casm.segments[i],
           Poseidon(SubSeq(casm.bytecode, start[i] + 1, start[i] + casm.segments[i]))>>
         = <<other.segments[i],
             Poseidon(SubSeq(other.bytecode, starts[i] + 1, starts[i] + other.segments[i]))>>
  BY <1>4, <1>8, <1>9, Zenon
<1>11. casm.segments = other.segments
  <2>1. \A i \in 1 .. m : casm.segments[i] = other.segments[i]
    BY <1>10
  <2>. QED  BY <1>3, <1>9, <2>1
<1>12. start = starts
  BY <1>1, <1>11
<1>13. casm.segments \in Seq(Nat)
  BY DEF IsAssembly
<1>14. AreStarts(start, casm.segments)
  BY <1>1, <1>13, StartsAre
<1>15. SameInSegments(casm.bytecode, other.bytecode, casm.segments, start)
  <2>1. ASSUME NEW i \in 1 .. m
        PROVE  SubSeq(casm.bytecode, start[i] + 1, start[i] + casm.segments[i])
                 = SubSeq(other.bytecode, start[i] + 1, start[i] + casm.segments[i])
    <3>1. Poseidon(SubSeq(casm.bytecode, start[i] + 1, start[i] + casm.segments[i]))
            = Poseidon(SubSeq(other.bytecode, starts[i] + 1, starts[i] + other.segments[i]))
      BY <1>10
    <3>2. Poseidon(SubSeq(casm.bytecode, start[i] + 1, start[i] + casm.segments[i]))
            = Poseidon(SubSeq(other.bytecode, start[i] + 1, start[i] + casm.segments[i]))
      BY <1>11, <1>12, <3>1
    <3>. QED  BY <3>2, PoseidonIsApart
  <2>. QED  BY <1>3, <2>1, Zenon DEF SameInSegments
<1>16. \A p \in 1 .. start[m + 1] : casm.bytecode[p] = other.bytecode[p]
  <2>1. AreAlike(casm.bytecode, other.bytecode, start[Len(casm.segments) + 1])
    BY <1>13, <1>14, <1>15, SegmentsMakeCode
  <2>. QED  BY <1>3, <2>1, Zenon DEF AreAlike
<1>17. start[m + 1] = Len(casm.bytecode) /\ start[m + 1] = Len(other.bytecode)
  BY <1>1, <1>3, <1>9, <1>11, <1>12 DEF IsAssembly
<1>18. IsList(casm.bytecode) /\ IsList(other.bytecode)
  BY DEF IsAssembly
<1>. QED  BY <1>11, <1>16, <1>17, <1>18 DEF IsList

\* Two assemblies with one hash are the same.
LEMMA AssembliesAreApart ==
  ASSUME NEW casm, NEW other, IsAssembly(casm), IsAssembly(other),
         computeCompiledClassHash(casm) = computeCompiledClassHash(other)
  PROVE  casm = other
<1>. DEFINE code(c) == IF c.segments = <<>> THEN Poseidon(c.bytecode) ELSE hashByteCodeSegments(c)
<1>1. /\ hashEntryPoint(casm.entryPoints["EXTERNAL"]) = hashEntryPoint(other.entryPoints["EXTERNAL"])
      /\ hashEntryPoint(casm.entryPoints["L1_HANDLER"])
           = hashEntryPoint(other.entryPoints["L1_HANDLER"])
      /\ hashEntryPoint(casm.entryPoints["CONSTRUCTOR"])
           = hashEntryPoint(other.entryPoints["CONSTRUCTOR"])
      /\ code(casm) = code(other)
  BY DEF computeCompiledClassHash, Poseidon
<1>2. \A type \in EntryPointTypes :
        ArePoints(casm.entryPoints[type]) /\ ArePoints(other.entryPoints[type])
  BY DEF IsAssembly, ArePoints
<1>3. \A type \in EntryPointTypes : casm.entryPoints[type] = other.entryPoints[type]
  BY <1>1, <1>2, PointsAreApart DEF EntryPointTypes
<1>4. casm.entryPoints = other.entryPoints
  BY <1>3 DEF IsAssembly
<1>5. casm.segments = other.segments /\ casm.bytecode = other.bytecode
  <2>1. CASE casm.segments = <<>> /\ other.segments = <<>>
    BY <1>1, <2>1 DEF Poseidon
  <2>2. CASE casm.segments # <<>> /\ other.segments # <<>>
    <3>1. hashByteCodeSegments(casm) = hashByteCodeSegments(other)
      BY <1>1, <2>2
    <3>. QED  BY <2>2, <3>1, CodesAreApart
  <2>3. Poseidon(casm.bytecode) # hashByteCodeSegments(other)
    BY DEF Poseidon, hashByteCodeSegments
  <2>4. hashByteCodeSegments(casm) # Poseidon(other.bytecode)
    BY DEF Poseidon, hashByteCodeSegments
  <2>. QED  BY <1>1, <2>1, <2>2, <2>3, <2>4
<1>6. /\ casm = [entryPoints |-> casm.entryPoints, bytecode |-> casm.bytecode,
                 segments |-> casm.segments]
      /\ other = [entryPoints |-> other.entryPoints, bytecode |-> other.bytecode,
                  segments |-> other.segments]
  BY DEF IsAssembly
<1>. QED  BY <1>4, <1>5, <1>6, Zenon

------------------------------------------------------------------------------
(* Declarations.                                                            *)

Given(invocations) == {invocations[i] : i \in 1 .. Len(invocations)}

AreOthers(others, invocations) ==
  /\ others[0] = <<>>
  /\ \A n \in 1 .. Len(invocations) :
       /\ invocations[n].type = "DECLARE" => others[n] = others[n - 1]
       /\ invocations[n].type # "DECLARE" => others[n] = Append(others[n - 1], invocations[n])
  /\ \A n \in 0 .. Len(invocations) : others[n] \in Seq(Given(invocations))

IsOthers(others, invocations) ==
  others = [n \in 0 .. Len(invocations) |->
              IF n = 0 THEN <<>>
              ELSE IF invocations[n].type = "DECLARE" THEN others[n - 1]
              ELSE Append(others[n - 1], invocations[n])]

\* The invocations that do not declare, of the first n, are what they are said to be.
LEMMA OthersAre ==
  ASSUME NEW invocations, IsList(invocations)
  PROVE  AreOthers(OthersUpTo(invocations), invocations)
<1>1. PICK n \in Nat : n = Len(invocations)
  BY DEF IsList
<1>2. PICK S : S = Given(invocations)
  OBVIOUS
<1>3. \A i \in 1 .. n : invocations[i] \in S
  BY <1>1, <1>2 DEF Given
<1>4. PICK X : X = Seq(S)
  OBVIOUS
<1>5. PICK stepping : stepping = [p \in Nat \X X |->
        IF p[1] \in 1 .. n
        THEN IF invocations[p[1]].type = "DECLARE" THEN p[2] ELSE Append(p[2], invocations[p[1]])
        ELSE p[2]]
  OBVIOUS
<1>6. stepping \in [Nat \X X -> X]
  <2>1. ASSUME NEW i \in Nat, NEW x \in X
        PROVE  (IF i \in 1 .. n
                THEN IF invocations[i].type = "DECLARE" THEN x ELSE Append(x, invocations[i])
                ELSE x) \in X
    BY <1>3, <1>4
  <2>2. ASSUME NEW p \in Nat \X X PROVE stepping[p] \in X
    <3>1. PICK i \in Nat, x \in X : p = <<i, x>>
      OBVIOUS
    <3>2. p[1] = i /\ p[2] = x
      BY <3>1
    <3>3. stepping[p] = (IF i \in 1 .. n
                         THEN IF invocations[i].type = "DECLARE" THEN x
                              ELSE Append(x, invocations[i])
                         ELSE x)
      BY <1>5, <3>2, Zenon
    <3>. QED  BY <2>1, <3>3
  <2>. QED  BY <1>5, <2>2
<1>7. <<>> \in X
  BY <1>4
<1>8. PICK f \in [0 .. n -> X] : IsRun(f, <<>>, stepping, n)
  BY <1>6, <1>7, RunExists
<1>9. /\ f[0] = <<>>
      /\ \A i \in 1 .. n : f[i] = IF invocations[i].type = "DECLARE" THEN f[i - 1]
                                  ELSE Append(f[i - 1], invocations[i])
  <2>1. f[0] = <<>> /\ \A i \in 1 .. n : f[i] = stepping[<<i, f[i - 1]>>]
    BY <1>8, Zenon DEF IsRun
  <2>2. ASSUME NEW i \in 1 .. n
        PROVE  f[i] = IF invocations[i].type = "DECLARE" THEN f[i - 1]
                      ELSE Append(f[i - 1], invocations[i])
    <3>1. PICK x \in X : x = f[i - 1]
      OBVIOUS
    <3>2. PICK p \in Nat \X X : p = <<i, x>> /\ p[1] = i /\ p[2] = x
      <4>1. <<i, x>> \in Nat \X X /\ <<i, x>>[1] = i /\ <<i, x>>[2] = x
        OBVIOUS
      <4>. QED  BY <4>1
    <3>3. stepping[p] = IF invocations[i].type = "DECLARE" THEN x ELSE Append(x, invocations[i])
      BY <1>5, <3>2
    <3>. QED  BY <2>1, <3>1, <3>2, <3>3
  <2>. QED  BY <2>1, <2>2
<1>10. f = [i \in 0 .. n |->
              IF i = 0 THEN <<>>
              ELSE IF invocations[i].type = "DECLARE" THEN f[i - 1]
              ELSE Append(f[i - 1], invocations[i])]
  <2>1. f = [i \in 0 .. n |-> f[i]]
    OBVIOUS
  <2>2. ASSUME NEW i \in 0 .. n
        PROVE  f[i] = IF i = 0 THEN <<>>
                      ELSE IF invocations[i].type = "DECLARE" THEN f[i - 1]
                      ELSE Append(f[i - 1], invocations[i])
    <3>1. i = 0 \/ i \in 1 .. n
      OBVIOUS
    <3>. QED  BY <1>9, <3>1
  <2>. QED  BY <2>1, <2>2
<1>11. \E others : IsOthers(others, invocations)
  BY <1>1, <1>10, Zenon DEF IsOthers
<1>12. PICK others : others = OthersUpTo(invocations) /\ IsOthers(others, invocations)
  <2>. DEFINE chosen == CHOOSE others : IsOthers(others, invocations)
  <2>1. OthersUpTo(invocations) = chosen
    BY Zenon DEF OthersUpTo, IsOthers
  <2>2. IsOthers(chosen, invocations)
    BY <1>11, Zenon
  <2>. QED  BY <2>1, <2>2
<1>13. \A i \in 0 .. n :
         others[i] = IF i = 0 THEN <<>>
                     ELSE IF invocations[i].type = "DECLARE" THEN others[i - 1]
                     ELSE Append(others[i - 1], invocations[i])
  BY <1>1, <1>12, Zenon DEF IsOthers
<1>14. others[0] = <<>>
  <2>1. 0 \in 0 .. n
    OBVIOUS
  <2>. QED  BY <1>13, <2>1, Zenon
<1>15. ASSUME NEW i \in 1 .. n
       PROVE  /\ invocations[i].type = "DECLARE" => others[i] = others[i - 1]
              /\ invocations[i].type # "DECLARE" =>
                   others[i] = Append(others[i - 1], invocations[i])
  <2>1. i \in 0 .. n /\ i # 0
    OBVIOUS
  <2>. QED  BY <1>13, <2>1, Zenon
<1>. DEFINE T == {k \in Nat : k \in 0 .. n => others[k] \in X}
<1>16. 0 \in T
  BY <1>7, <1>14
<1>17. ASSUME NEW k \in Nat, k \in T
       PROVE  k + 1 \in T
  <2>. SUFFICES ASSUME k + 1 \in 0 .. n
                PROVE  others[k + 1] \in X
    OBVIOUS
  <2>1. k \in 0 .. n /\ k + 1 \in 1 .. n /\ (k + 1) - 1 = k
    OBVIOUS
  <2>2. others[k] \in X
    BY <1>17, <2>1
  <2>3. others[k + 1] = others[k] \/ others[k + 1] = Append(others[k], invocations[k + 1])
    BY <1>15, <2>1
  <2>4. invocations[k + 1] \in S
    BY <1>3, <2>1
  <2>5. Append(others[k], invocations[k + 1]) \in X
    BY <1>4, <2>2, <2>4
  <2>. QED  BY <2>2, <2>3, <2>5
<1>. HIDE DEF T
<1>18. Nat \subseteq T
  BY <1>16, <1>17, InductionOn
<1>19. \A i \in 0 .. n : others[i] \in X
  BY <1>18 DEF T
<1>. QED  BY <1>1, <1>2, <1>4, <1>12, <1>14, <1>15, <1>19, Zenon DEF AreOthers

\* The part of a list after its first d elements.
LEMMA PartIs ==
  ASSUME NEW list, NEW d \in Nat, NEW n \in Nat, d <= n
  PROVE  SubSeq(list, d + 1, n) = [i \in 1 .. n - d |-> list[d + i]]
<1>1. SubSeq(list, d + 1, n) = [i \in 1 .. n - (d + 1) + 1 |-> list[(d + 1) + i - 1]]
  OBVIOUS
<1>2. n - (d + 1) + 1 = n - d /\ \A i \in 1 .. n - d : (d + 1) + i - 1 = d + i
  OBVIOUS
<1>. QED  BY <1>1, <1>2

\* list begins with d declarations, and rest follows.
IsSplit(list, d, rest) ==
  /\ d \in 0 .. Len(list)
  /\ \A i \in 1 .. d : list[i].type = "DECLARE"
  /\ SubSeq(list, d + 1, Len(list)) = rest

\* What is added behind is behind the rest, and has all that was there.
LEMMA AddedBehind ==
  ASSUME NEW S, NEW list \in Seq(S), NEW rest \in Seq(S), NEW d, NEW e \in S, IsSplit(list, d, rest)
  PROVE  IsSplit(Append(list, e), d, Append(rest, e))
<1>1. PICK n \in Nat : n = Len(list) /\ list = [i \in 1 .. n |-> list[i]]
  OBVIOUS
<1>2. PICK longer \in Seq(S) : longer = Append(list, e)
  <2>1. Append(list, e) \in Seq(S)
    OBVIOUS
  <2>. QED  BY <2>1
<1>3. Len(longer) = n + 1 /\ longer[n + 1] = e /\ \A i \in 1 .. n : longer[i] = list[i]
  BY <1>1, <1>2
<1>4. d \in 0 .. n /\ (\A i \in 1 .. d : list[i].type = "DECLARE") /\ SubSeq(list, d + 1, n) = rest
  BY <1>1, Zenon DEF IsSplit
<1>5. rest = [i \in 1 .. n - d |-> list[d + i]] /\ Len(rest) = n - d
  <2>1. rest = [i \in 1 .. n - d |-> list[d + i]]
    <3>1. d \in Nat /\ d <= n
      BY <1>4
    <3>2. SubSeq(list, d + 1, n) = [i \in 1 .. n - d |-> list[d + i]]
      BY <3>1, PartIs
    <3>. QED  BY <1>4, <3>2, Zenon
  <2>2. n - d \in Nat
    BY <1>4
  <2>. QED  BY <2>1, <2>2
<1>6. SubSeq(longer, d + 1, n + 1) = Append(rest, e)
  <2>1. PICK whole \in Seq(S) : whole = Append(rest, e)
    <3>1. Append(rest, e) \in Seq(S)
      OBVIOUS
    <3>. QED  BY <3>1
  <2>2. PICK r \in Nat : r = n - d
    BY <1>4
  <2>3. /\ Len(whole) = r + 1 /\ whole[r + 1] = e
        /\ \A i \in 1 .. r : whole[i] = list[d + i]
    BY <1>5, <2>1, <2>2
  <2>4. PICK part : part = SubSeq(longer, d + 1, n + 1)
    OBVIOUS
  <2>5. part = [i \in 1 .. r + 1 |-> longer[d + i]]
    <3>1. d \in Nat /\ n + 1 \in Nat /\ d <= n + 1 /\ (n + 1) - d = r + 1
      BY <1>4, <2>2
    <3>2. part = [i \in 1 .. (n + 1) - d |-> longer[d + i]]
      BY <2>4, <3>1, PartIs
    <3>. QED  BY <3>1, <3>2
  <2>6. \A i \in 1 .. r + 1 : longer[d + i] = whole[i]
    <3>1. ASSUME NEW i \in 1 .. r + 1 PROVE longer[d + i] = whole[i]
      <4>1. CASE i = r + 1
        <5>1. d + i = n + 1
          BY <1>4, <2>2, <4>1, SMTT(30)
        <5>. QED  BY <1>3, <2>3, <4>1, <5>1
      <4>2. CASE i # r + 1
        <5>1. i \in 1 .. r /\ d + i \in 1 .. n
          <6>1. d \in Nat /\ d <= n
            BY <1>4
          <6>. QED  BY <2>2, <4>2, <6>1
        <5>2. longer[d + i] = list[d + i] /\ whole[i] = list[d + i]
          BY <1>3, <2>3, <5>1, Zenon
        <5>. QED  BY <5>2
      <4>. QED  BY <4>1, <4>2
    <3>. QED  BY <3>1
  <2>7. whole = [i \in 1 .. r + 1 |-> whole[i]]
    BY <2>3
  <2>. QED  BY <2>1, <2>4, <2>5, <2>6, <2>7
<1>7. \A i \in 1 .. d : longer[i].type = "DECLARE"
  BY <1>3, <1>4
<1>8. d \in 0 .. n + 1
  BY <1>4
<1>. QED  BY <1>2, <1>3, <1>6, <1>7, <1>8, Zenon DEF IsSplit

\* A declaration put in front is one declaration more.
LEMMA PutInFront ==
  ASSUME NEW S, NEW list \in Seq(S), NEW rest \in Seq(S), NEW d, NEW e \in S, IsSplit(list, d, rest),
         e.type = "DECLARE"
  PROVE  IsSplit(<<e>> \o list, d + 1, rest)
<1>1. PICK n \in Nat : n = Len(list) /\ list = [i \in 1 .. n |-> list[i]]
  OBVIOUS
<1>2. PICK longer \in Seq(S) : longer = <<e>> \o list
  <2>1. <<e>> \o list \in Seq(S)
    OBVIOUS
  <2>. QED  BY <2>1
<1>3. Len(longer) = n + 1 /\ longer[1] = e /\ \A i \in 1 .. n : longer[i + 1] = list[i]
  BY <1>1, <1>2
<1>4. d \in 0 .. n /\ (\A i \in 1 .. d : list[i].type = "DECLARE") /\ SubSeq(list, d + 1, n) = rest
  BY <1>1, Zenon DEF IsSplit
<1>5. SubSeq(longer, d + 2, n + 1) = rest
  <2>1. SubSeq(longer, d + 2, n + 1) = [i \in 1 .. n - d |-> longer[d + 1 + i]]
    <3>1. /\ d + 1 \in Nat /\ n + 1 \in Nat /\ d + 1 <= n + 1 /\ (n + 1) - (d + 1) = n - d
          /\ (d + 1) + 1 = d + 2
      BY <1>4
    <3>2. SubSeq(longer, (d + 1) + 1, n + 1) = [i \in 1 .. (n + 1) - (d + 1) |-> longer[(d + 1) + i]]
      BY <3>1, PartIs, SMTT(30)
    <3>. QED  BY <3>1, <3>2
  <2>2. rest = [i \in 1 .. n - d |-> list[d + i]]
    <3>1. d \in Nat /\ d <= n
      BY <1>4
    <3>2. SubSeq(list, d + 1, n) = [i \in 1 .. n - d |-> list[d + i]]
      BY <3>1, PartIs
    <3>. QED  BY <1>4, <3>2, Zenon
  <2>3. \A i \in 1 .. n - d : longer[d + 1 + i] = list[d + i]
    <3>1. ASSUME NEW i \in 1 .. n - d PROVE longer[d + 1 + i] = list[d + i]
      <4>1. d + i \in 1 .. n /\ (d + i) + 1 = d + 1 + i
        BY <1>4
      <4>. QED  BY <1>3, <4>1
    <3>. QED  BY <3>1
  <2>. QED  BY <2>1, <2>2, <2>3
<1>6. \A i \in 1 .. d + 1 : longer[i].type = "DECLARE"
  <2>1. ASSUME NEW i \in 1 .. d + 1 PROVE longer[i].type = "DECLARE"
    <3>1. CASE i = 1
      BY <1>3, <3>1
    <3>2. CASE i # 1
      <4>1. i - 1 \in 1 .. d /\ i - 1 \in 1 .. n /\ (i - 1) + 1 = i
        BY <1>4, <3>2
      <4>. QED  BY <1>3, <1>4, <4>1, ZenonT(30)
    <3>. QED  BY <3>1, <3>2
  <2>. QED  BY <2>1
<1>7. d + 1 \in 0 .. n + 1 /\ (d + 1) + 1 = d + 2
  BY <1>4
<1>. QED  BY <1>2, <1>3, <1>5, <1>6, <1>7, Zenon DEF IsSplit

\* A class that the node knows by the hash of a payload is the class of the payload.
LEMMA KnownIsSame ==
  ASSUME NEW payload, IsPayload(payload), NEW classes, \A class \in classes : IsClass(class),
         IsKnown(extractContractHashes(payload).classHash, classes)
  PROVE  \E class \in classes : Same(payload.contract, class)
<1>1. extractContractHashes(payload).classHash = computeContractClassHash(payload.contract)
  <2>1. payload.classHash = <<>> \/ payload.classHash = computeContractClassHash(payload.contract)
    BY DEF IsPayload
  <2>. QED  BY <2>1 DEF extractContractHashes
<1>2. PICK class \in classes :
        computeContractClassHash(class) = computeContractClassHash(payload.contract)
  BY <1>1 DEF IsKnown
<1>3. Same(payload.contract, class)
  BY <1>2, ClassesAreApart DEF IsPayload
<1>. QED  BY <1>3

Declares == job.op \in {"declareIfNot", "prepareInvocations"}

\* An invocation that has been dealt with.
IsDealtWith(i) ==
  job.invocations[i] \in ToSet(bulk) \/ SameClassDeclared(job.invocations[i].payload.contract)

\* How far prepareInvocations() is.
PreparedSoFar ==
  /\ At \in 1 .. Len(job.invocations)
  /\ bulk \in Seq(Given(job.invocations))
  /\ \A i \in 1 .. At - 1 : IsDealtWith(i)
  /\ IsPreparedUpTo(At - 1)

DeclarationInv ==
  /\ job \in Jobs
  /\ Declares => \A class \in declared : IsClass(class)
  /\ step = "declare" => job.op = "declareIfNot"
  /\ IsPreparing => PreparedSoFar
  /\ DeclarationsAreRight

\* The answers that tell of a declaration.
Telling == {"present", "prepared", "declared", "refused"}

\* More classes on the chain change nothing of what has been told.
LEMMA DeclarationsStayRight ==
  ASSUME DeclarationsAreRight, UNCHANGED <<job, answer, bulk>>, declared \subseteq declared'
  PROVE  DeclarationsAreRight'
<1>1. \A class : SameClassDeclared(class) => SameClassDeclared(class)'
  BY DEF SameClassDeclared
<1>2. SameClassIsFound'
  <2>. SUFFICES ASSUME SameClassIsFound PROVE SameClassIsFound'
    BY DEF DeclarationsAreRight
  <2>1. answer'[1] = "present" => SameClassDeclared(job.payload.contract)'
    BY <1>1 DEF SameClassIsFound, SameClassDeclared
  <2>. QED  BY <1>1, <2>1 DEF SameClassIsFound, SameClassDeclared
<1>3. BulkIsPrepared'
  BY DEF DeclarationsAreRight, BulkIsPrepared, IsPreparedUpTo
<1>. QED  BY <1>2, <1>3 DEF DeclarationsAreRight

\* A step that changes nothing of the classes, and leaves prepareInvocations().
LEMMA OtherStepsKeep ==
  ASSUME DeclarationInv, UNCHANGED <<job, bulk, declared>>, step' \notin {"start", "declare"},
         answer' = answer \/ answer'[1] \notin Telling
  PROVE  DeclarationInv'
<1>1. DeclarationsAreRight'
  <2>1. CASE answer' = answer
    BY <2>1, DeclarationsStayRight DEF DeclarationInv
  <2>2. CASE answer'[1] \notin Telling
    BY <2>2 DEF Telling, DeclarationsAreRight, SameClassIsFound, BulkIsPrepared
  <2>. QED  BY <2>1, <2>2
<1>. QED  BY <1>1 DEF DeclarationInv, Declares, IsPreparing

\* prepareInvocations() takes the next invocation.
LEMMA GoesOnRight ==
  ASSUME DeclarationInv, IsPreparing, UNCHANGED <<job, declared>>, NEW more, GoesOnWith(more),
         more \in Seq(Given(job.invocations)), ToSet(bulk) \subseteq ToSet(more),
         Invocation \in ToSet(more) \/ SameClassDeclared(Invocation.payload.contract),
         \E d : IsSplit(more, d, OthersUpTo(job.invocations)[At])
  PROVE  DeclarationInv'
<1>1. PICK at, n \in Nat : /\ at = At /\ n = Len(job.invocations) /\ at \in 1 .. n
  <2>1. IsList(job.invocations)
    BY ProviderAssumption DEF DeclarationInv, IsPreparing, IsCall
  <2>. QED  BY <2>1 DEF IsList, DeclarationInv, PreparedSoFar
<1>2. bulk' = more
  BY DEF GoesOnWith
<1>3. \A i \in 1 .. at : IsDealtWith(i)'
  <2>1. ASSUME NEW i \in 1 .. at PROVE IsDealtWith(i)'
    <3>1. CASE i = at
      BY <1>1, <1>2, <3>1 DEF IsDealtWith, Invocation, SameClassDeclared
    <3>2. CASE i # at
      <4>1. i \in 1 .. at - 1
        BY <1>1, <3>2
      <4>2. IsDealtWith(i)
        BY <1>1, <4>1 DEF DeclarationInv, PreparedSoFar
      <4>. QED  BY <1>2, <4>2 DEF IsDealtWith, SameClassDeclared
    <3>. QED  BY <3>1, <3>2
  <2>. QED  BY <2>1
<1>4. IsPreparedUpTo(at)'
  <2>1. \E d : IsSplit(bulk', d, OthersUpTo(job'.invocations)[at])
    BY <1>1, <1>2
  <2>. QED  BY <2>1, Zenon DEF IsPreparedUpTo, IsSplit
<1>5. CASE at = n
  <2>1. step' = "done" /\ answer' = <<"prepared", at>>
    BY <1>1, <1>5 DEF GoesOnWith, Ends
  <2>2. answer'[1] = "prepared"
    BY <2>1
  <2>3. SameClassIsFound'
    <3>1. \A i \in DOMAIN job'.invocations : IsDealtWith(i)'
      <4>1. DOMAIN job.invocations = 1 .. n
        <5>1. IsList(job.invocations)
          BY ProviderAssumption DEF DeclarationInv, IsPreparing, IsCall
        <5>. QED  BY <1>1, <5>1 DEF IsList
      <4>. QED  BY <1>3, <1>5, <4>1
    <3>. QED  BY <2>2, <3>1 DEF SameClassIsFound, IsDealtWith
  <2>4. BulkIsPrepared'
    BY <1>1, <1>4, <1>5 DEF BulkIsPrepared
  <2>. QED  BY <2>1, <2>3, <2>4 DEF DeclarationInv, Declares, IsPreparing, DeclarationsAreRight
<1>6. CASE at # n
  <2>1. step' = step /\ answer' = <<"at", at + 1>>
    BY <1>1, <1>6 DEF GoesOnWith
  <2>2. answer'[1] = "at" /\ At' = at + 1
    BY <2>1 DEF At
  <2>3. DeclarationsAreRight'
    BY <2>2 DEF Telling, DeclarationsAreRight, SameClassIsFound, BulkIsPrepared
  <2>4. At' \in 1 .. n /\ At' - 1 = at
    BY <1>1, <1>6, <2>2
  <2>5. PreparedSoFar'
    BY <1>1, <1>2, <1>3, <1>4, <2>4 DEF PreparedSoFar
  <2>. QED  BY <2>1, <2>3, <2>5 DEF DeclarationInv, Declares, IsPreparing
<1>. QED  BY <1>5, <1>6

\* Each step of a call, and each declaration of others, keeps what is known of classes.
LEMMA DeclarationNext == DeclarationInv /\ [ProviderNext]_providerVars => DeclarationInv'
<1>. SUFFICES ASSUME DeclarationInv, [ProviderNext]_providerVars PROVE DeclarationInv'
  OBVIOUS
<1>1. CASE UNCHANGED calling
  <2>1. DeclarationsAreRight'
    BY <1>1, DeclarationsStayRight DEF calling, DeclarationInv
  <2>. QED  BY <1>1, <2>1 DEF calling, DeclarationInv, Declares, IsPreparing, PreparedSoFar, At,
    IsDealtWith, SameClassDeclared, IsPreparedUpTo
<1>2. CASE OtherDeclares
  <2>1. UNCHANGED <<job, step, answer, bulk>> /\ declared \subseteq declared'
    BY <1>2 DEF OtherDeclares
  <2>2. DeclarationsAreRight'
    BY <2>1, DeclarationsStayRight DEF DeclarationInv
  <2>3. Declares => \A class \in declared' : IsClass(class)
    BY <1>2, ProviderAssumption DEF OtherDeclares, DeclarationInv, Declares, IsCall
  <2>4. PreparedSoFar => PreparedSoFar'
    BY <2>1 DEF PreparedSoFar, At, IsDealtWith, SameClassDeclared, IsPreparedUpTo
  <2>. QED  BY <2>1, <2>2, <2>3, <2>4 DEF DeclarationInv, Declares, IsPreparing
<1>3. CASE GetChainId \/ GetStarkName \/ GetAddressFromStarkName \/ GetStarkProfile \/ GetEstimateFee
             \/ NoAnswer
  <2>1. UNCHANGED <<job, bulk, declared>> /\ step' \in {"ask", "back", "done"}
    BY <1>3 DEF GetChainId, GetStarkName, GetAddressFromStarkName, GetStarkProfile, GetEstimateFee,
      NoAnswer, Ends
  <2>. DEFINE Tags == {"undeployed", "name", "could not", "not found", "address", "profile",
                       "division by zero", "fee", "no answer"}
  <2>2. GetChainId => answer' = answer \/ Says(answer', "undeployed")
    BY Zenon DEF GetChainId, Ends, Says
  <2>3. GetStarkName => Says(answer', "could not") \/ Says(answer', "not found") \/ Says(answer', "name")
    BY Zenon DEF GetStarkName, Ends, Says
  <2>4. GetAddressFromStarkName => Says(answer', "address") \/ Says(answer', "could not")
    BY Zenon DEF GetAddressFromStarkName, Ends, Says
  <2>5. GetStarkProfile => Says(answer', "profile") \/ Says(answer', "could not")
    BY Zenon DEF GetStarkProfile, Ends, Says
  <2>6. GetEstimateFee => Says(answer', "division by zero") \/ Says(answer', "fee")
    BY Zenon DEF GetEstimateFee, Ends, Says
  <2>7. NoAnswer => Says(answer', "no answer")
    BY Zenon DEF NoAnswer, Ends, Says
  <2>8. answer' = answer \/ \E tag \in Tags : Says(answer', tag)
    BY <1>3, <2>2, <2>3, <2>4, <2>5, <2>6, <2>7
  <2>9. \A tag \in Tags : Says(answer', tag) => answer'[1] \notin Telling
    BY TagIsFirst DEF Telling
  <2>10. answer' = answer \/ answer'[1] \notin Telling
    BY <2>8, <2>9
  <2>11. step' \notin {"start", "declare"}
    BY <2>1
  <2>. QED  BY <2>1, <2>10, <2>11, OtherStepsKeep
<1>4. CASE LookUpClass
  <2>1. /\ step = "start" /\ job.op = "declareIfNot" /\ UNCHANGED <<job, bulk, declared>>
        /\ IsPayload(job.payload) /\ \A class \in declared : IsClass(class)
    BY <1>4, ProviderAssumption DEF LookUpClass, DeclarationInv, IsCall, Declares
  <2>2. \/ Ends(<<"cannot extract">>)
        \/ Ends(<<"present">>) /\ IsKnown(extractContractHashes(job.payload).classHash, declared)
        \/ step' = "declare" /\ UNCHANGED answer
    BY <1>4, Zenon DEF LookUpClass
  <2>3. CASE Ends(<<"cannot extract">>)
    <3>1. step' = "done" /\ answer'[1] \notin Telling
      BY <2>3 DEF Ends, Telling
    <3>. QED  BY <2>1, <3>1, OtherStepsKeep
  <2>4. CASE Ends(<<"present">>) /\ IsKnown(extractContractHashes(job.payload).classHash, declared)
    <3>1. SameClassDeclared(job.payload.contract)
      BY <2>1, <2>4, KnownIsSame DEF SameClassDeclared
    <3>2. step' = "done" /\ answer'[1] = "present"
      BY <2>4 DEF Ends
    <3>3. DeclarationsAreRight'
      BY <2>1, <3>1, <3>2 DEF DeclarationsAreRight, SameClassIsFound, BulkIsPrepared, SameClassDeclared
    <3>. QED  BY <2>1, <3>2, <3>3 DEF DeclarationInv, Declares, IsPreparing
  <2>5. CASE step' = "declare" /\ UNCHANGED answer
    <3>1. DeclarationsAreRight'
      BY <2>1, <2>5, DeclarationsStayRight DEF DeclarationInv
    <3>. QED  BY <2>1, <2>5, <3>1 DEF DeclarationInv, Declares, IsPreparing
  <2>. QED  BY <2>2, <2>3, <2>4, <2>5
<1>5. CASE Declare
  <2>1. /\ job.op = "declareIfNot" /\ UNCHANGED <<job, bulk>>
        /\ IsPayload(job.payload) /\ IsAssembly(job.compiled) /\ \A class \in declared : IsClass(class)
    BY <1>5, ProviderAssumption DEF Declare, DeclarationInv, IsCall, Declares
  <2>2. PICK hashes : hashes = extractContractHashes(job.payload)
    OBVIOUS
  <2>. DEFINE Asked == job.payload.contract.sierra /\ job.payload.compiledClassHash = <<>>
                         /\ job.payload.casm # <<>>
              fits == job.payload.casm[1] = job.compiled
  <2>3. Asked => hashes.compiledClassHash = computeCompiledClassHash(job.payload.casm[1])
                   /\ IsAssembly(job.payload.casm[1])
    BY <2>1, <2>2 DEF extractContractHashes, CompiledClassHash, IsPayload
  <2>4. CASE IsKnown(hashes.classHash, declared) \/ ~CompiledHashFits(hashes)
    <3>1. step' = "done" /\ answer' = <<"refused">> /\ declared' = declared
      BY <1>5, <2>2, <2>4 DEF Declare, Ends
    <3>2. IsKnown(hashes.classHash, declared) => SameClassDeclared(job.payload.contract)
      BY <2>1, <2>2, KnownIsSame DEF SameClassDeclared
    <3>3. ~CompiledHashFits(hashes) => (Asked => ~fits)
      BY <2>3 DEF CompiledHashFits
    <3>4. answer'[1] = "refused"
      BY <3>1
    <3>5. Asked => ~fits \/ SameClassDeclared(job.payload.contract)
      BY <2>4, <3>2, <3>3
    <3>6. DeclarationsAreRight'
      BY <2>1, <3>1, <3>4, <3>5 DEF DeclarationsAreRight, SameClassIsFound, BulkIsPrepared,
        SameClassDeclared
    <3>. QED  BY <2>1, <3>1, <3>6 DEF DeclarationInv, Declares, IsPreparing
  <2>5. CASE ~IsKnown(hashes.classHash, declared) /\ CompiledHashFits(hashes)
    <3>1. /\ step' = "done" /\ answer' = <<"declared">>
          /\ declared' = declared \union {job.payload.contract}
      BY <1>5, <2>2, <2>5 DEF Declare, Ends
    <3>2. Asked => computeCompiledClassHash(job.payload.casm[1]) = computeCompiledClassHash(job.compiled)
      BY <2>3, <2>5 DEF CompiledHashFits
    <3>3. Asked => fits
      BY <2>1, <2>3, <3>2, AssembliesAreApart
    <3>4. answer'[1] = "declared"
      BY <3>1
    <3>5. DeclarationsAreRight'
      BY <2>1, <3>3, <3>4 DEF DeclarationsAreRight, SameClassIsFound, BulkIsPrepared
    <3>6. \A class \in declared' : IsClass(class)
      BY <2>1, <3>1 DEF IsPayload
    <3>. QED  BY <2>1, <3>1, <3>5, <3>6 DEF DeclarationInv, Declares, IsPreparing
  <2>. QED  BY <2>4, <2>5
<1>6. ASSUME KeepInvocation \/ LookUpDeclaration
      PROVE  DeclarationInv'
  <2>1. IsPreparing /\ UNCHANGED <<job, declared>>
    BY <1>6 DEF KeepInvocation, LookUpDeclaration
  <2>2. /\ PreparedSoFar /\ job \in Jobs /\ IsList(job.invocations)
        /\ \A class \in declared : IsClass(class)
        /\ \A i \in DOMAIN job.invocations :
             job.invocations[i].type = "DECLARE" => IsPayload(job.invocations[i].payload)
    BY <2>1, ProviderAssumption DEF DeclarationInv, IsPreparing, IsCall, Declares
  <2>3. PICK at, n \in Nat : at = At /\ n = Len(job.invocations) /\ at \in 1 .. n
                             /\ DOMAIN job.invocations = 1 .. n
    <3>1. Len(job.invocations) \in Nat /\ DOMAIN job.invocations = 1 .. Len(job.invocations)
      BY <2>2 DEF IsList
    <3>2. At \in 1 .. Len(job.invocations)
      BY <2>2 DEF PreparedSoFar
    <3>. QED  BY <3>1, <3>2
  <2>4. PICK S : S = Given(job.invocations)
    OBVIOUS
  <2>5. PICK e \in S : e = Invocation /\ e = job.invocations[at]
    BY <2>3, <2>4 DEF Given, Invocation
  <2>6. bulk \in Seq(S)
    BY <2>2, <2>4 DEF PreparedSoFar
  <2>7. PICK others : others = OthersUpTo(job.invocations)
    OBVIOUS
  <2>8. AreOthers(others, job.invocations)
    BY <2>2, <2>7, OthersAre
  <2>9. /\ others[at - 1] \in Seq(S)
        /\ e.type = "DECLARE" => others[at] = others[at - 1]
        /\ e.type # "DECLARE" => others[at] = Append(others[at - 1], e)
    BY <2>3, <2>4, <2>5, <2>8 DEF AreOthers
  <2>10. PICK d : IsSplit(bulk, d, others[at - 1])
    <3>1. IsPreparedUpTo(at - 1)
      BY <2>2, <2>3 DEF PreparedSoFar
    <3>. QED  BY <2>7, <3>1, Zenon DEF IsPreparedUpTo, IsSplit
  <2>11. CASE KeepInvocation
    <3>1. PICK more : more = Append(bulk, e)
      OBVIOUS
    <3>2. GoesOnWith(more) /\ e.type # "DECLARE"
      BY <2>5, <2>11, <3>1 DEF KeepInvocation
    <3>3. more \in Seq(S) /\ ToSet(bulk) \subseteq ToSet(more) /\ e \in ToSet(more)
      <4>1. /\ more \in Seq(S) /\ Len(more) = Len(bulk) + 1 /\ more[Len(bulk) + 1] = e
            /\ \A i \in 1 .. Len(bulk) : more[i] = bulk[i]
            /\ DOMAIN bulk = 1 .. Len(bulk) /\ DOMAIN more = 1 .. Len(bulk) + 1 /\ Len(bulk) \in Nat
        BY <2>6, <3>1
      <4>. QED  BY <4>1 DEF ToSet
    <3>4. IsSplit(more, d, others[at])
      BY <2>6, <2>9, <2>10, <3>1, <3>2, AddedBehind
    <3>5. /\ more \in Seq(Given(job.invocations))
          /\ Invocation \in ToSet(more)
          /\ \E c : IsSplit(more, c, OthersUpTo(job.invocations)[At])
      BY <2>3, <2>4, <2>5, <2>7, <3>3, <3>4
    <3>. QED  BY <2>1, <3>2, <3>3, <3>5, GoesOnRight
  <2>12. CASE LookUpDeclaration
    <3>1. e.type = "DECLARE" /\ IsPayload(e.payload)
      BY <2>2, <2>3, <2>5, <2>12 DEF LookUpDeclaration
    <3>2. \/ Ends(<<"cannot extract">>) /\ UNCHANGED bulk
          \/ /\ IsKnown(extractContractHashes(e.payload).classHash, declared)
             /\ GoesOnWith(bulk)
          \/ GoesOnWith(<<e>> \o bulk)
      BY <2>5, <2>12, Zenon DEF LookUpDeclaration, InFront
    <3>3. CASE Ends(<<"cannot extract">>) /\ UNCHANGED bulk
      <4>1. step' = "done" /\ answer'[1] \notin Telling
        BY <3>3 DEF Ends, Telling
      <4>. QED  BY <2>1, <3>3, <4>1, OtherStepsKeep
    <3>4. CASE IsKnown(extractContractHashes(e.payload).classHash, declared) /\ GoesOnWith(bulk)
      <4>1. SameClassDeclared(e.payload.contract)
        BY <2>2, <3>1, <3>4, KnownIsSame DEF SameClassDeclared
      <4>2. PICK more : more = bulk
        OBVIOUS
      <4>3. /\ GoesOnWith(more) /\ more \in Seq(Given(job.invocations))
            /\ ToSet(bulk) \subseteq ToSet(more)
            /\ SameClassDeclared(Invocation.payload.contract)
            /\ \E c : IsSplit(more, c, OthersUpTo(job.invocations)[At])
        BY <2>3, <2>4, <2>5, <2>6, <2>7, <2>9, <2>10, <3>1, <3>4, <4>1, <4>2
      <4>. QED  BY <2>1, <4>3, GoesOnRight
    <3>5. CASE GoesOnWith(<<e>> \o bulk)
      <4>1. PICK more : more = <<e>> \o bulk
        OBVIOUS
      <4>2. more \in Seq(S) /\ ToSet(bulk) \subseteq ToSet(more) /\ e \in ToSet(more)
        <5>1. /\ more \in Seq(S) /\ Len(more) = Len(bulk) + 1 /\ more[1] = e
              /\ \A i \in 1 .. Len(bulk) : more[i + 1] = bulk[i]
              /\ DOMAIN bulk = 1 .. Len(bulk) /\ DOMAIN more = 1 .. Len(bulk) + 1 /\ Len(bulk) \in Nat
          BY <2>6, <4>1
        <5>2. \A i \in DOMAIN bulk : i + 1 \in DOMAIN more /\ more[i + 1] = bulk[i]
          BY <5>1
        <5>3. 1 \in DOMAIN more
          BY <5>1
        <5>. QED  BY <5>1, <5>2, <5>3 DEF ToSet
      <4>3. IsSplit(more, d + 1, others[at])
        BY <2>6, <2>9, <2>10, <3>1, <4>1, PutInFront
      <4>4. /\ more \in Seq(Given(job.invocations))
            /\ Invocation \in ToSet(more)
            /\ \E c : IsSplit(more, c, OthersUpTo(job.invocations)[At])
        BY <2>3, <2>4, <2>5, <2>7, <4>2, <4>3
      <4>5. GoesOnWith(more)
        BY <3>5, <4>1
      <4>. QED  BY <2>1, <4>2, <4>4, <4>5, GoesOnRight
    <3>. QED  BY <3>2, <3>3, <3>4, <3>5
  <2>. QED  BY <1>6, <2>11, <2>12
<1>. QED  BY <1>1, <1>2, <1>3, <1>4, <1>5, <1>6 DEF ProviderNext, Answered, providerVars

\* A call begins with no answer, and with classes on the chain.
LEMMA DeclarationInit == ProviderInit => DeclarationInv
<1>. SUFFICES ASSUME ProviderInit PROVE DeclarationInv
  OBVIOUS
<1>1. job \in Jobs /\ step # "declare" /\ bulk = <<>>
  BY DEF ProviderInit
<1>2. Declares => \A class \in declared : IsClass(class)
  BY <1>1, ProviderAssumption DEF ProviderInit, Declares, IsCall
<1>3. job.op # "prepareInvocations" => answer = <<"nothing">>
  BY DEF ProviderInit, Nothing
<1>4. job.op = "prepareInvocations" => answer = <<"at", 1>>
  BY DEF ProviderInit
<1>5. DeclarationsAreRight
  <2>1. answer = <<"nothing">> => answer[1] = "nothing"
    OBVIOUS
  <2>2. answer = <<"at", 1>> => answer[1] = "at"
    OBVIOUS
  <2>. QED  BY <1>3, <1>4, <2>1, <2>2 DEF DeclarationsAreRight, SameClassIsFound, BulkIsPrepared
<1>6. IsPreparing => PreparedSoFar
  <2>. SUFFICES ASSUME IsPreparing PROVE PreparedSoFar
    OBVIOUS
  <2>1. At = 1
    BY <1>4 DEF IsPreparing, At
  <2>2. IsList(job.invocations) /\ job.invocations # <<>>
    BY <1>1, ProviderAssumption DEF IsPreparing, IsCall
  <2>3. 1 \in 1 .. Len(job.invocations)
    BY <2>2 DEF IsList
  <2>4. bulk \in Seq(Given(job.invocations))
    BY <1>1
  <2>5. PICK others : others = OthersUpTo(job.invocations)
    OBVIOUS
  <2>6. others[0] = <<>>
    BY <2>2, <2>5, OthersAre DEF AreOthers
  <2>7. SubSeq(<<>>, 1, 0) = <<>> /\ Len(<<>>) = 0
    OBVIOUS
  <2>8. IsPreparedUpTo(0)
    BY <1>1, <2>5, <2>6, <2>7 DEF IsPreparedUpTo
  <2>. QED  BY <2>1, <2>3, <2>4, <2>8 DEF PreparedSoFar
<1>. QED  BY <1>1, <1>2, <1>5, <1>6 DEF DeclarationInv

\* A class is taken for declared only if it is on the chain, one given with its assembly
\* is declared only if it compiles to it, and what is put together to be sent begins with
\* the declarations and keeps the order of the rest.
THEOREM DeclarationsAreRightAlways == ProviderSpec => []DeclarationsAreRight
<1>1. DeclarationInv => DeclarationsAreRight
  BY DEF DeclarationInv
<1>. QED  BY <1>1, DeclarationInit, DeclarationNext, PTL DEF ProviderSpec

------------------------------------------------------------------------------
(* The numeral system of names.                                             *)

Letters == Basic \union Big
Plus == BasicSize + 1

\* The lowest digit of a number and the rest of it.
LEMMA DigitsAre ==
  ASSUME NEW b \in Nat \ {0}, NEW c \in 0 .. b - 1, NEW r \in Nat
  PROVE  /\ c + b * r \in Nat /\ b * r \in Nat
         /\ (c + b * r) % b = c /\ (c + b * r) \div b = r
<1>1. PICK n \in Nat : n = c + b * r
  OBVIOUS
<1>2. PICK q \in Nat, m \in 0 .. b - 1 : q = n \div b /\ m = n % b /\ n = b * q + m
  BY <1>1, DivisionIs
<1>3. ASSUME NEW x \in Nat, NEW y \in Nat, x < y PROVE b * x + b <= b * y
  <2>1. b * (x + 1) <= b * y
    BY <1>3, ProductGrows
  <2>. QED  BY <2>1
<1>4. ~ (q < r)
  BY <1>1, <1>2, <1>3
<1>5. ~ (r < q)
  BY <1>1, <1>2, <1>3
<1>6. q = r
  BY <1>4, <1>5
<1>. QED  BY <1>1, <1>2, <1>6

\* A quotient is smaller than what is divided.
LEMMA QuotientIsSmaller ==
  ASSUME NEW n \in Nat, NEW b \in Nat, b > 1
  PROVE  n \div b \in Nat /\ n \div b <= n /\ (n > 0 => n \div b < n)
<1>1. PICK q \in Nat, m \in 0 .. b - 1 : q = n \div b /\ m = n % b /\ n = b * q + m
  BY DivisionIs
<1>2. 2 * q <= b * q
  BY <1>1, ProductGrows
<1>3. PICK p \in Nat : p = b * q
  OBVIOUS
<1>. QED  BY <1>1, <1>2, <1>3

\* What the number n of a letter before the number `rest` has for digits.
IsLetterAs(letter, last, rest, n) ==
  /\ n \in Nat /\ n >= rest
  /\ (~last /\ rest >= 1) \/ last => n >= 1
  /\ letter \in Basic =>
       IF letter = 0 /\ last THEN n % Plus = BasicSize /\ n \div Plus = 0
       ELSE n % Plus = letter /\ n \div Plus = rest
  /\ letter \notin Basic =>
       /\ letter - BasicSize \in 0 .. BigSize - 1 /\ n % Plus = BasicSize
       /\ n \div Plus = IF last THEN (letter - BasicSize) + 1
                        ELSE (letter - BasicSize) + BigSize * rest
  /\ n = 1 => (letter = 1 /\ last) \/ (rest = 0 /\ ~last)

\* How a letter is written.
LEMMA LetterIsWritten ==
  ASSUME NEW letter \in Letters, NEW last \in BOOLEAN, NEW rest \in Nat, last => rest = 0
  PROVE  IsLetterAs(letter, last, rest, WithLetter(letter, last, rest))
<1>1. PICK b \in Nat, g \in Nat, p \in Nat \ {0} :
        b = BasicSize /\ g = BigSize /\ p = Plus /\ b > 1 /\ g > 1 /\ p = b + 1
  BY AlphabetAssumption DEF Plus
<1>2. letter \in Nat /\ (letter \in Basic <=> letter < b)
      /\ (letter \notin Basic => letter - b \in 0 .. g - 1)
      /\ (letter \notin Basic => letter \in Big)
  BY <1>1 DEF Letters, Basic, Big
<1>3. PICK n : n = WithLetter(letter, last, rest)
  OBVIOUS
<1>. SUFFICES IsLetterAs(letter, last, rest, n)
  BY <1>3, Zenon
<1>4. CASE letter \in Basic /\ ~(letter = 0 /\ last)
  <2>1. n = letter + p * rest
    BY <1>1, <1>3, <1>4 DEF WithLetter, IsHiddenZero, Plus
  <2>2. n \in Nat /\ n % p = letter /\ n \div p = rest
    BY <1>1, <1>2, <1>4, <2>1, DigitsAre
  <2>3. 3 * rest <= p * rest
    BY <1>1, ProductGrows
  <2>4. PICK x \in Nat : x = p * rest
    BY <1>1
  <2>5. n >= rest /\ ((~last /\ rest >= 1) \/ last => n >= 1)
        /\ (n = 1 => (letter = 1 /\ last) \/ (rest = 0 /\ ~last))
    BY <1>2, <1>4, <2>1, <2>3, <2>4
  <2>. QED  BY <1>1, <1>4, <2>2, <2>5 DEF IsLetterAs
<1>5. CASE letter = 0 /\ last
  <2>1. letter \in Basic
    BY <1>1, <1>2, <1>5
  <2>2. n = b
    BY <1>1, <1>3, <1>5, <2>1 DEF WithLetter, IsHiddenZero
  <2>3. b = b + p * 0 /\ b \in 0 .. p - 1
    BY <1>1
  <2>4. n % p = b /\ n \div p = 0
    BY <1>1, <2>2, <2>3, DigitsAre
  <2>5. n \in Nat /\ rest = 0 /\ n > 1
    BY <1>1, <1>5, <2>2
  <2>6. n >= rest /\ n >= 1 /\ n # 1
    BY <2>5
  <2>. QED  BY <1>1, <1>5, <2>1, <2>2, <2>4, <2>5, <2>6 DEF IsLetterAs
<1>6. CASE letter \notin Basic
  <2>1. PICK big \in 0 .. g - 1 : big = letter - b
    BY <1>2, <1>6
  <2>2. PICK r \in Nat : r = big + (IF last THEN 1 ELSE 0) + g * rest
    BY <1>1, <2>1
  <2>3. n = b + p * r
    <3>1. n = b + p * ((big + (IF last THEN 1 ELSE 0)) + g * rest)
      BY <1>1, <1>2, <1>3, <1>6, <2>1 DEF WithLetter, Plus
    <3>. QED  BY <1>1, <2>1, <2>2, <3>1
  <2>4. b \in 0 .. p - 1
    BY <1>1
  <2>5. n \in Nat /\ n % p = b /\ n \div p = r
    BY <1>1, <2>2, <2>3, <2>4, DigitsAre
  <2>6. r = IF last THEN big + 1 ELSE big + g * rest
    BY <1>1, <2>1, <2>2
  <2>7. r >= rest
    <3>1. 1 * rest <= g * rest
      BY <1>1, ProductGrows
    <3>2. PICK x \in Nat : x = g * rest
      BY <1>1
    <3>. QED  BY <2>2, <2>1, <3>1, <3>2
  <2>8. n >= rest /\ n > 1
    <3>1. 1 * r <= p * r
      BY <1>1, ProductGrows
    <3>2. PICK x \in Nat : x = p * r
      BY <1>1
    <3>. QED  BY <1>1, <2>3, <2>7, <3>1, <3>2
  <2>. QED  BY <1>1, <1>6, <2>1, <2>5, <2>6, <2>8 DEF IsLetterAs
<1>. QED  BY <1>4, <1>5, <1>6

IsNumbering(number, text) ==
  number = [i \in 1 .. Len(text) + 1 |->
              IF i > Len(text) THEN 0 ELSE WithLetter(text[i], i = Len(text), number[i + 1])]

AreNumbers(number, text) ==
  /\ number \in [1 .. Len(text) + 1 -> Nat] /\ number[Len(text) + 1] = 0
  /\ \A i \in 1 .. Len(text) : number[i] = WithLetter(text[i], i = Len(text), number[i + 1])

\* The numbers of a text are what the model says they are.
LEMMA NumbersAre ==
  ASSUME NEW text \in Seq(Letters)
  PROVE  AreNumbers(Numbers(text), text)
<1>1. PICK n \in Nat : n = Len(text) /\ \A i \in 1 .. n : text[i] \in Letters
  OBVIOUS
<1>2. PICK stepping : stepping = [p \in Nat \X Nat |->
        IF p[1] \in 1 .. n /\ (p[1] = 1 => p[2] = 0)
        THEN WithLetter(text[n + 1 - p[1]], p[1] = 1, p[2]) ELSE 0]
  OBVIOUS
<1>3. stepping \in [Nat \X Nat -> Nat]
  <2>1. ASSUME NEW k \in Nat, NEW r \in Nat
        PROVE  (IF k \in 1 .. n /\ (k = 1 => r = 0)
                THEN WithLetter(text[n + 1 - k], k = 1, r) ELSE 0) \in Nat
    <3>1. CASE k \in 1 .. n /\ (k = 1 => r = 0)
      <4>1. PICK letter \in Letters, last \in BOOLEAN : letter = text[n + 1 - k] /\ last = (k = 1)
        <5>1. n + 1 - k \in 1 .. n
          BY <3>1
        <5>. QED  BY <1>1, <5>1
      <4>2. WithLetter(letter, last, r) \in Nat
        BY <3>1, <4>1, LetterIsWritten DEF IsLetterAs
      <4>. QED  BY <3>1, <4>1, <4>2
    <3>2. CASE ~(k \in 1 .. n /\ (k = 1 => r = 0))
      BY <3>2
    <3>. QED  BY <3>1, <3>2
  <2>2. ASSUME NEW p \in Nat \X Nat PROVE stepping[p] \in Nat
    <3>1. PICK k \in Nat, r \in Nat : p = <<k, r>> /\ p[1] = k /\ p[2] = r
      OBVIOUS
    <3>2. stepping[p] = IF k \in 1 .. n /\ (k = 1 => r = 0)
                        THEN WithLetter(text[n + 1 - k], k = 1, r) ELSE 0
      BY <1>2, <3>1, Zenon
    <3>. QED  BY <2>1, <3>2
  <2>. QED  BY <1>2, <2>2
<1>4. PICK f \in [0 .. n -> Nat] : IsRun(f, 0, stepping, n)
  BY <1>3, RunExists
<1>5. /\ f[0] = 0
      /\ \A k \in 1 .. n : f[k] = WithLetter(text[n + 1 - k], k = 1, f[k - 1])
  <2>1. f[0] = 0 /\ \A k \in 1 .. n : f[k] = stepping[<<k, f[k - 1]>>]
    BY <1>4, Zenon DEF IsRun
  <2>2. ASSUME NEW k \in 1 .. n
        PROVE  f[k] = WithLetter(text[n + 1 - k], k = 1, f[k - 1])
    <3>1. PICK r \in Nat : r = f[k - 1]
      OBVIOUS
    <3>2. k = 1 => r = 0
      BY <2>1, <3>1
    <3>3. PICK p \in Nat \X Nat : p = <<k, r>> /\ p[1] = k /\ p[2] = r
      <4>1. <<k, r>> \in Nat \X Nat /\ <<k, r>>[1] = k /\ <<k, r>>[2] = r
        OBVIOUS
      <4>. QED  BY <4>1
    <3>4. stepping[p] = WithLetter(text[n + 1 - k], k = 1, r)
      BY <1>2, <3>2, <3>3
    <3>. QED  BY <2>1, <3>1, <3>3, <3>4
  <2>. QED  BY <2>1, <2>2
<1>6. PICK g : g = [i \in 1 .. n + 1 |-> f[n + 1 - i]]
  OBVIOUS
<1>7. g = [i \in 1 .. n + 1 |-> IF i > n THEN 0 ELSE WithLetter(text[i], i = n, g[i + 1])]
  <2>1. ASSUME NEW i \in 1 .. n + 1
        PROVE  g[i] = IF i > n THEN 0 ELSE WithLetter(text[i], i = n, g[i + 1])
    <3>1. CASE i > n
      <4>1. n + 1 - i = 0
        BY <3>1
      <4>. QED  BY <1>5, <1>6, <3>1, <4>1
    <3>2. CASE ~ (i > n)
      <4>1. PICK k \in 1 .. n : k = n + 1 - i /\ n + 1 - k = i
                          /\ (k = 1 <=> i = n) /\ k - 1 = n + 1 - (i + 1)
        BY <3>2
      <4>2. f[k] = WithLetter(text[n + 1 - k], k = 1, f[k - 1])
        BY <1>5
      <4>3. (k = 1) = (i = n)
        BY <4>1
      <4>4. g[i] = f[k] /\ g[i + 1] = f[k - 1]
        BY <1>6, <3>2, <4>1
      <4>5. f[k] = WithLetter(text[i], i = n, f[k - 1])
        BY <4>1, <4>2, <4>3
      <4>. QED  BY <3>2, <4>4, <4>5
    <3>. QED  BY <3>1, <3>2
  <2>2. g = [i \in 1 .. n + 1 |-> g[i]]
    BY <1>6
  <2>. QED  BY <2>1, <2>2
<1>8. \E number : IsNumbering(number, text)
  <2>1. n = Len(text)
    BY <1>1
  <2>2. g = [i \in 1 .. Len(text) + 1 |->
               IF i > Len(text) THEN 0 ELSE WithLetter(text[i], i = Len(text), g[i + 1])]
    BY <1>7, <2>1
  <2>3. IsNumbering(g, text)
    BY <2>2, Zenon DEF IsNumbering
  <2>. QED  BY <2>3
<1>9. PICK number : number = Numbers(text) /\ IsNumbering(number, text)
  <2>. DEFINE chosen == CHOOSE number : IsNumbering(number, text)
  <2>1. Numbers(text) = chosen
    BY Zenon DEF Numbers, IsNumbering
  <2>2. IsNumbering(chosen, text)
    BY <1>8, Zenon
  <2>. QED  BY <2>1, <2>2
<1>10. number = [i \in 1 .. n + 1 |-> IF i > n THEN 0 ELSE WithLetter(text[i], i = n, number[i + 1])]
  BY <1>1, <1>9, Zenon DEF IsNumbering
<1>11. \A i \in 1 .. n + 1 :
         number[i] = IF i > n THEN 0 ELSE WithLetter(text[i], i = n, number[i + 1])
  BY <1>10, Zenon
<1>12. number[n + 1] = 0
  <2>1. n + 1 \in 1 .. n + 1 /\ n + 1 > n
    OBVIOUS
  <2>. QED  BY <1>11, <2>1, Zenon
<1>13. \A i \in 1 .. n : number[i] = WithLetter(text[i], i = n, number[i + 1])
  <2>1. ASSUME NEW i \in 1 .. n PROVE number[i] = WithLetter(text[i], i = n, number[i + 1])
    <3>1. i \in 1 .. n + 1 /\ ~ (i > n)
      OBVIOUS
    <3>. QED  BY <1>11, <3>1, Zenon
  <2>. QED  BY <2>1
<1>. DEFINE T == {k \in Nat : k \in 0 .. n => number[n + 1 - k] \in Nat}
<1>14. 0 \in T
  BY <1>12
<1>15. ASSUME NEW k \in Nat, k \in T
       PROVE  k + 1 \in T
  <2>. SUFFICES ASSUME k + 1 \in 0 .. n
                PROVE  number[n + 1 - (k + 1)] \in Nat
    OBVIOUS
  <2>1. PICK i \in 1 .. n : i = n + 1 - (k + 1) /\ i + 1 = n + 1 - k /\ k \in 0 .. n /\ (i = n => k = 0)
    OBVIOUS
  <2>2. PICK letter \in Letters, last \in BOOLEAN, r \in Nat :
          letter = text[i] /\ last = (i = n) /\ r = number[i + 1]
    BY <1>1, <1>15, <2>1
  <2>3. last => r = 0
    BY <1>12, <2>1, <2>2
  <2>4. WithLetter(letter, last, r) \in Nat
    BY <2>3, LetterIsWritten DEF IsLetterAs
  <2>. QED  BY <1>13, <2>1, <2>2, <2>4
<1>. HIDE DEF T
<1>16. Nat \subseteq T
  BY <1>14, <1>15, InductionOn
<1>17. \A i \in 1 .. n + 1 : number[i] \in Nat
  <2>1. ASSUME NEW i \in 1 .. n + 1 PROVE number[i] \in Nat
    <3>1. PICK k \in 0 .. n : i = n + 1 - k
      <4>1. n + 1 - i \in 0 .. n /\ i = n + 1 - (n + 1 - i)
        OBVIOUS
      <4>. QED  BY <4>1
    <3>. QED  BY <1>16, <3>1 DEF T
  <2>. QED  BY <2>1
<1>18. number \in [1 .. n + 1 -> Nat]
  <2>1. number = [i \in 1 .. n + 1 |-> number[i]]
    BY <1>10, <1>11
  <2>. QED  BY <1>17, <2>1
<1>. QED  BY <1>1, <1>9, <1>12, <1>13, <1>18, Zenon DEF AreNumbers

\* What a number is read as, given what smaller ones are.
ReadAs(m, letters) ==
  IF m = 0 THEN <<>>
  ELSE IF m % Plus # BasicSize THEN <<m % Plus>> \o letters[m \div Plus]
  ELSE IF IsLastBig(m \div Plus) THEN <<LastBig((m \div Plus) % (BigSize + 1))>>
  ELSE <<BasicSize + ((m \div Plus) % BigSize)>> \o letters[(m \div Plus) \div BigSize]

AreRead(letters, n) == \A m \in 0 .. n : letters[m] = ReadAs(m, letters)

IsReading(letters, n) == letters = [m \in 0 .. n |-> ReadAs(m, letters)]

\* Only what is smaller is asked for.
LEMMA SmallerAreAsked ==
  ASSUME NEW m \in Nat \ {0}
  PROVE  m \div Plus \in 0 .. m - 1 /\ (m \div Plus) \div BigSize \in 0 .. m - 1
<1>1. PICK b \in Nat, p \in Nat : b = BigSize /\ p = Plus /\ b > 1 /\ p > 1
  BY AlphabetAssumption DEF Plus
<1>2. PICK q \in Nat : q = m \div p /\ q < m
  BY <1>1, QuotientIsSmaller
<1>3. q \div b \in Nat /\ q \div b <= q
  BY <1>1, QuotientIsSmaller
<1>. QED  BY <1>1, <1>2, <1>3

\* The letters of all numbers up to one exist.
LEMMA ReadingExists == \A n \in Nat : \E letters : IsReading(letters, n)
<1>. DEFINE T == {n \in Nat : \E letters : IsReading(letters, n)}
<1>1. 0 \in T
  <2>1. PICK f : f = [m \in 0 .. 0 |-> <<>>]
    OBVIOUS
  <2>2. f = [m \in 0 .. 0 |-> ReadAs(m, f)]
    BY <2>1 DEF ReadAs
  <2>3. IsReading(f, 0)
    BY <2>2, Zenon DEF IsReading
  <2>. QED  BY <2>3
<1>2. ASSUME NEW n \in Nat, n \in T
      PROVE  n + 1 \in T
  <2>1. PICK f : f = [m \in 0 .. n |-> ReadAs(m, f)]
    BY <1>2, Zenon DEF IsReading
  <2>2. PICK value : value = ReadAs(n + 1, f)
    OBVIOUS
  <2>3. PICK g : g = [m \in 0 .. n + 1 |-> IF m = n + 1 THEN value ELSE f[m]]
    OBVIOUS
  <2>4. \A m \in 0 .. n : g[m] = f[m]
    BY <2>3
  <2>5. \A m \in 0 .. n + 1 : ReadAs(m, g) = ReadAs(m, f)
    <3>1. ASSUME NEW m \in 0 .. n + 1 PROVE ReadAs(m, g) = ReadAs(m, f)
      <4>1. CASE m = 0
        BY <4>1 DEF ReadAs
      <4>2. CASE m # 0
        <5>1. m \div Plus \in 0 .. m - 1 /\ (m \div Plus) \div BigSize \in 0 .. m - 1
          BY <4>2, SmallerAreAsked
        <5>2. m \div Plus \in 0 .. n /\ (m \div Plus) \div BigSize \in 0 .. n
          BY <5>1
        <5>3. g[m \div Plus] = f[m \div Plus]
              /\ g[(m \div Plus) \div BigSize] = f[(m \div Plus) \div BigSize]
          BY <2>4, <5>2
        <5>. QED  BY <5>3, Zenon DEF ReadAs
      <4>. QED  BY <4>1, <4>2
    <3>. QED  BY <3>1
  <2>6. g = [m \in 0 .. n + 1 |-> ReadAs(m, g)]
    <3>1. ASSUME NEW m \in 0 .. n + 1 PROVE g[m] = ReadAs(m, g)
      <4>1. CASE m = n + 1
        BY <2>2, <2>3, <2>5, <4>1
      <4>2. CASE m # n + 1
        <5>1. m \in 0 .. n
          BY <4>2
        <5>2. f[m] = ReadAs(m, f)
          BY <2>1, <5>1, Zenon
        <5>. QED  BY <2>4, <2>5, <5>1, <5>2
      <4>. QED  BY <4>1, <4>2
    <3>2. g = [m \in 0 .. n + 1 |-> g[m]]
      BY <2>3
    <3>. QED  BY <3>1, <3>2
  <2>7. IsReading(g, n + 1)
    BY <2>6, Zenon DEF IsReading
  <2>. QED  BY <2>7
<1>. HIDE DEF T
<1>3. Nat \subseteq T
  BY <1>1, <1>2, InductionOn
<1>. QED  BY <1>3 DEF T

\* decodedLetters() reads as the model says.
LEMMA LettersAreRead ==
  ASSUME NEW n \in Nat
  PROVE  \E letters : AreRead(letters, n) /\ decodedLetters(n) = letters[n]
<1>1. PICK letters : /\ decodedLetters(n) = letters[n] /\ IsReading(letters, n)
  <2>. DEFINE chosen == CHOOSE letters : IsReading(letters, n)
  <2>1. decodedLetters(n) = chosen[n]
    BY Zenon DEF decodedLetters, IsReading, ReadAs, Plus
  <2>2. IsReading(chosen, n)
    BY ReadingExists, Zenon
  <2>. QED  BY <2>1, <2>2
<1>2. AreRead(letters, n)
  BY <1>1, Zenon DEF IsReading, AreRead
<1>. QED  BY <1>1, <1>2

EndsInEven(text) ==
  Len(text) >= 2 /\ text[Len(text) - 1] = BasicSize /\ text[Len(text)] = 1

\* One letter more is read.
LEMMA LetterIsRead ==
  ASSUME NEW letter \in Letters, NEW last \in BOOLEAN, NEW rest \in Nat, NEW letters, NEW n \in Nat,
         last => rest = 0, ~last => rest >= 1,
         ~last /\ letter = BasicSize => rest # 1,
         AreRead(letters, n), WithLetter(letter, last, rest) <= n,
         last => letters[rest] = <<>>
  PROVE  letters[WithLetter(letter, last, rest)] = <<letter>> \o letters[rest]
<1>1. PICK b \in Nat, g \in Nat : b = BasicSize /\ g = BigSize /\ b > 1 /\ g > 1
  BY AlphabetAssumption
<1>2. /\ letter \in Nat /\ (letter \in Basic <=> letter < b)
      /\ letter \notin Basic => letter - b \in 0 .. g - 1
  BY <1>1 DEF Letters, Basic, Big
<1>3. PICK m : m = WithLetter(letter, last, rest)
  OBVIOUS
<1>4. /\ m \in Nat /\ m >= 1
      /\ letter \in Basic =>
           IF letter = 0 /\ last THEN m % Plus = b /\ m \div Plus = 0
           ELSE m % Plus = letter /\ m \div Plus = rest
      /\ letter \notin Basic =>
           /\ m % Plus = b
           /\ m \div Plus = IF last THEN (letter - b) + 1 ELSE (letter - b) + g * rest
  <2>1. IsLetterAs(letter, last, rest, m)
    BY <1>3, LetterIsWritten, Zenon
  <2>2. /\ m \in Nat /\ (~last \/ last => m >= 1)
        /\ letter \in Basic =>
             IF letter = 0 /\ last THEN m % Plus = b /\ m \div Plus = 0
             ELSE m % Plus = letter /\ m \div Plus = rest
        /\ letter \notin Basic => m % Plus = b
        /\ letter \notin Basic /\ last => m \div Plus = (letter - b) + 1
        /\ letter \notin Basic /\ ~last => m \div Plus = (letter - b) + g * rest
    BY <1>1, <2>1, Zenon DEF IsLetterAs
  <2>3. m >= 1
    BY <2>2, Zenon
  <2>. QED  BY <2>2, <2>3, Zenon
<1>5. letters[m] = ReadAs(m, letters) /\ m # 0
  BY <1>3, <1>4 DEF AreRead
<1>6. last => <<letter>> \o letters[rest] = <<letter>>
  <2>1. <<letter>> \o <<>> = <<letter>>
    OBVIOUS
  <2>. QED  BY <2>1
<1>7. CASE letter \in Basic /\ ~(letter = 0 /\ last)
  <2>1. m % Plus = letter /\ m \div Plus = rest /\ m % Plus # BasicSize
    BY <1>1, <1>2, <1>4, <1>7
  <2>. QED  BY <1>3, <1>5, <2>1, Zenon DEF ReadAs
<1>8. CASE letter = 0 /\ last
  <2>1. m % Plus = BasicSize /\ m \div Plus = 0
    BY <1>1, <1>2, <1>4, <1>8
  <2>2. 0 = 0 + (g + 1) * 0 /\ g + 1 \in Nat \ {0} /\ 0 \in 0 .. (g + 1) - 1
    BY <1>1
  <2>3. 0 \div (BigSize + 1) = 0 /\ 0 % (BigSize + 1) = 0
    BY <1>1, <2>2, DigitsAre
  <2>4. letters[m] = <<LastBig(0)>>
    BY <1>5, <2>1, <2>3, Zenon DEF ReadAs, IsLastBig
  <2>. QED  BY <1>3, <1>6, <1>8, <2>4 DEF LastBig
<1>9. CASE letter \notin Basic /\ last
  <2>1. PICK code \in 1 .. g : code = (letter - b) + 1 /\ letter = b + code - 1
    BY <1>1, <1>2, <1>9
  <2>2. m % Plus = BasicSize /\ m \div Plus = code
    BY <1>1, <1>4, <1>9, <2>1
  <2>3. code = code + (g + 1) * 0 /\ g + 1 \in Nat \ {0} /\ code \in 0 .. (g + 1) - 1
    BY <1>1
  <2>4. code \div (BigSize + 1) = 0 /\ code % (BigSize + 1) = code
    BY <1>1, <2>3, DigitsAre
  <2>5. letters[m] = <<LastBig(code)>>
    BY <1>5, <2>2, <2>4, Zenon DEF ReadAs, IsLastBig
  <2>6. LastBig(code) = letter
    BY <1>1, <2>1 DEF LastBig
  <2>. QED  BY <1>3, <1>6, <1>9, <2>5, <2>6
<1>10. CASE letter \notin Basic /\ ~last
  <2>1. PICK big \in 0 .. g - 1, r \in Nat : big = letter - b /\ r = big + g * rest /\ letter = b + big
    <3>1. g * rest \in Nat
      BY <1>1, DigitsAre
    <3>. QED  BY <1>1, <1>2, <1>10, <3>1
  <2>2. m % Plus = BasicSize /\ m \div Plus = r
    BY <1>1, <1>4, <1>10, <2>1
  <2>3. r % BigSize = big /\ r \div BigSize = rest
    <3>1. g \in Nat \ {0} /\ big \in 0 .. g - 1
      BY <1>1
    <3>2. (big + g * rest) % g = big /\ (big + g * rest) \div g = rest
      BY <3>1, DigitsAre
    <3>. QED  BY <1>1, <2>1, <3>2
  <2>4. r > g
    <3>1. CASE rest = 1
      BY <1>1, <1>10, <2>1, <3>1
    <3>2. CASE rest # 1
      <4>1. g * 2 <= g * rest
        BY <1>1, <1>10, <3>2, ProductGrows
      <4>2. PICK x \in Nat : x = g * rest
        <5>1. g * rest \in Nat
          BY <1>1
        <5>. QED  BY <5>1
      <4>3. g * 2 <= x
        BY <4>1, <4>2
      <4>4. r = big + x
        BY <2>1, <4>2
      <4>. QED  BY <1>1, <4>3, <4>4
    <3>. QED  BY <3>1, <3>2
  <2>5. ~IsLastBig(r)
    <3>1. PICK q \in Nat, s \in 0 .. g : q = r \div (g + 1) /\ r = (g + 1) * q + s
      <4>1. g + 1 \in Nat \ {0}
        BY <1>1
      <4>2. /\ r \div (g + 1) \in Nat /\ r % (g + 1) \in 0 .. (g + 1) - 1
            /\ r = (g + 1) * (r \div (g + 1)) + (r % (g + 1))
        BY <4>1, DivisionIs
      <4>. QED  BY <1>1, <4>2
    <3>2. q # 0
      BY <1>1, <2>4, <3>1
    <3>. QED  BY <1>1, <3>1, <3>2 DEF IsLastBig
  <2>6. letters[m] = <<BasicSize + big>> \o letters[rest]
    BY <1>5, <2>2, <2>3, <2>5, Zenon DEF ReadAs
  <2>. QED  BY <1>1, <1>3, <2>1, <2>6
<1>. QED  BY <1>7, <1>8, <1>9, <1>10

\* A list from one place on.
LEMMA FromHere ==
  ASSUME NEW S, NEW text \in Seq(S), NEW i \in 1 .. Len(text)
  PROVE  <<text[i]>> \o SubSeq(text, i + 1, Len(text)) = SubSeq(text, i, Len(text))
<1>1. PICK n \in Nat : n = Len(text) /\ i \in 1 .. n /\ \A j \in 1 .. n : text[j] \in S
  OBVIOUS
<1>2. PICK rest : rest = SubSeq(text, i + 1, n)
  OBVIOUS
<1>3. PICK m \in Nat : m = n - i
  <2>1. n - i \in Nat
    BY <1>1
  <2>. QED  BY <2>1
<1>4. rest = [j \in 1 .. m |-> text[i + j]]
  BY <1>1, <1>2, <1>3, PartIs
<1>5. \A j \in 1 .. m : text[i + j] \in S
  BY <1>1, <1>3
<1>6. rest \in Seq(S) /\ Len(rest) = m
  BY <1>4, <1>5
<1>7. text[i] \in S
  BY <1>1
<1>8. PICK whole : whole = <<text[i]>> \o rest
  OBVIOUS
<1>9. /\ whole \in Seq(S) /\ Len(whole) = m + 1 /\ whole[1] = text[i]
      /\ \A j \in 1 .. m : whole[j + 1] = rest[j]
  BY <1>6, <1>7, <1>8
<1>10. whole = [j \in 1 .. m + 1 |-> whole[j]]
  BY <1>9
<1>11. \A j \in 1 .. m + 1 : whole[j] = text[i - 1 + j]
  <2>1. ASSUME NEW j \in 1 .. m + 1 PROVE whole[j] = text[i - 1 + j]
    <3>1. CASE j = 1
      BY <1>1, <1>9, <3>1
    <3>2. CASE j # 1
      <4>1. PICK h \in 1 .. m : j = h + 1 /\ i - 1 + j = i + h
        <5>1. j - 1 \in 1 .. m /\ j = (j - 1) + 1 /\ i - 1 + j = i + (j - 1)
          BY <1>1, <3>2
        <5>. QED  BY <5>1
      <4>. QED  BY <1>4, <1>9, <4>1
    <3>. QED  BY <3>1, <3>2
  <2>. QED  BY <2>1
<1>12. SubSeq(text, i, n) = [j \in 1 .. m + 1 |-> text[i - 1 + j]]
  <2>1. i - 1 \in Nat /\ i - 1 <= n /\ (i - 1) + 1 = i /\ n - (i - 1) = m + 1
    BY <1>1, <1>3
  <2>2. SubSeq(text, (i - 1) + 1, n) = [j \in 1 .. n - (i - 1) |-> text[(i - 1) + j]]
    BY <1>1, <2>1, PartIs
  <2>. QED  BY <2>1, <2>2
<1>. QED  BY <1>1, <1>2, <1>8, <1>10, <1>11, <1>12

\* The numbers of a text grow from its end to its beginning, and 1 is only the number
\* of the last letter, if it is 1.
LEMMA NumbersGrow ==
  ASSUME NEW text \in Seq(Letters), NEW number, AreNumbers(number, text)
  PROVE  /\ \A i \in 1 .. Len(text) : number[i] >= 1 /\ number[i] >= number[i + 1]
         /\ \A i \in 1 .. Len(text) : number[i] = 1 => i = Len(text) /\ text[i] = 1
         /\ \A i \in 1 .. Len(text) + 1 : number[i] <= number[1]
<1>1. PICK n \in Nat : n = Len(text) /\ \A i \in 1 .. n : text[i] \in Letters
  OBVIOUS
<1>2. /\ number \in [1 .. n + 1 -> Nat] /\ number[n + 1] = 0
      /\ \A i \in 1 .. n : number[i] = WithLetter(text[i], i = n, number[i + 1])
  BY <1>1 DEF AreNumbers
<1>3. ASSUME NEW i \in 1 .. n
      PROVE  /\ number[i] \in Nat /\ number[i + 1] \in Nat /\ number[i] >= number[i + 1]
             /\ i = n \/ number[i + 1] >= 1 => number[i] >= 1
             /\ number[i] = 1 => (text[i] = 1 /\ i = n) \/ (number[i + 1] = 0 /\ i # n)
  <2>1. PICK letter \in Letters, last \in BOOLEAN, rest \in Nat :
          letter = text[i] /\ last = (i = n) /\ rest = number[i + 1]
    <3>1. i + 1 \in 1 .. n + 1
      OBVIOUS
    <3>. QED  BY <1>1, <1>2, <3>1
  <2>2. last => rest = 0
    BY <1>2, <2>1
  <2>3. PICK m : m = WithLetter(letter, last, rest)
    OBVIOUS
  <2>4. /\ m \in Nat /\ m >= rest
        /\ (~last /\ rest >= 1) \/ last => m >= 1
        /\ m = 1 => (letter = 1 /\ last) \/ (rest = 0 /\ ~last)
    <3>1. IsLetterAs(letter, last, rest, m)
      BY <2>2, <2>3, LetterIsWritten, Zenon
    <3>. QED  BY <3>1, Zenon DEF IsLetterAs
  <2>5. number[i] = m
    BY <1>2, <2>1, <2>3
  <2>. QED  BY <2>1, <2>4, <2>5
<1>. DEFINE T == {k \in Nat : k \in 1 .. n => number[n + 1 - k] >= 1}
<1>4. 0 \in T
  OBVIOUS
<1>5. ASSUME NEW k \in Nat, k \in T
      PROVE  k + 1 \in T
  <2>. SUFFICES ASSUME k + 1 \in 1 .. n
                PROVE  number[n + 1 - (k + 1)] >= 1
    OBVIOUS
  <2>1. PICK i \in 1 .. n : i = n + 1 - (k + 1) /\ i + 1 = n + 1 - k /\ (i # n => k \in 1 .. n)
    OBVIOUS
  <2>2. i = n \/ number[i + 1] >= 1
    BY <1>5, <2>1
  <2>. QED  BY <1>3, <2>1, <2>2
<1>. HIDE DEF T
<1>6. Nat \subseteq T
  BY <1>4, <1>5, InductionOn
<1>7. \A i \in 1 .. n : number[i] >= 1
  <2>1. ASSUME NEW i \in 1 .. n PROVE number[i] >= 1
    <3>1. PICK k \in 1 .. n : i = n + 1 - k
      <4>1. n + 1 - i \in 1 .. n /\ i = n + 1 - (n + 1 - i)
        OBVIOUS
      <4>. QED  BY <4>1
    <3>. QED  BY <1>6, <3>1 DEF T
  <2>. QED  BY <2>1
<1>8. \A i \in 1 .. n : number[i] = 1 => i = n /\ text[i] = 1
  <2>1. ASSUME NEW i \in 1 .. n, number[i] = 1 PROVE i = n /\ text[i] = 1
    <3>1. i # n => number[i + 1] >= 1
      <4>1. i # n => i + 1 \in 1 .. n
        OBVIOUS
      <4>. QED  BY <1>7, <4>1
    <3>2. i # n => number[i + 1] # 0
      BY <1>3, <3>1
    <3>. QED  BY <1>3, <2>1, <3>2
  <2>. QED  BY <2>1
<1>. DEFINE U == {k \in Nat : k + 1 \in 1 .. n + 1 => number[k + 1] <= number[1]}
<1>9. 0 \in U
  BY <1>2
<1>10. ASSUME NEW k \in Nat, k \in U
       PROVE  k + 1 \in U
  <2>. SUFFICES ASSUME (k + 1) + 1 \in 1 .. n + 1
                PROVE  number[(k + 1) + 1] <= number[1]
    OBVIOUS
  <2>1. k + 1 \in 1 .. n /\ k + 1 \in 1 .. n + 1 /\ 1 \in 1 .. n + 1
    OBVIOUS
  <2>2. number[k + 1] <= number[1]
    BY <1>10, <2>1
  <2>3. number[k + 1] >= number[(k + 1) + 1] /\ number[k + 1] \in Nat /\ number[(k + 1) + 1] \in Nat
    BY <1>3, <2>1
  <2>4. number[1] \in Nat
    BY <1>2, <2>1
  <2>. QED  BY <2>2, <2>3, <2>4
<1>. HIDE DEF U
<1>11. Nat \subseteq U
  BY <1>9, <1>10, InductionOn
<1>12. \A i \in 1 .. n + 1 : number[i] <= number[1]
  <2>1. ASSUME NEW i \in 1 .. n + 1 PROVE number[i] <= number[1]
    <3>1. PICK k \in Nat : i = k + 1
      <4>1. i - 1 \in Nat /\ i = (i - 1) + 1
        OBVIOUS
      <4>. QED  BY <4>1
    <3>. QED  BY <1>11, <3>1 DEF U
  <2>. QED  BY <2>1
<1>. QED  BY <1>1, <1>3, <1>7, <1>8, <1>12

\* The letters of the number of a text are the text, if it does not end in the ending that
\* an even number of stars stands for.
LEMMA TextIsReadBack ==
  ASSUME NEW text \in Seq(Letters), ~EndsInEven(text)
  PROVE  Numbers(text)[1] \in Nat /\ decodedLetters(Numbers(text)[1]) = text
<1>1. PICK n \in Nat : n = Len(text) /\ \A i \in 1 .. n : text[i] \in Letters
  OBVIOUS
<1>2. PICK number : number = Numbers(text) /\ AreNumbers(number, text)
  BY NumbersAre
<1>3. /\ number \in [1 .. n + 1 -> Nat] /\ number[n + 1] = 0
      /\ \A i \in 1 .. n : number[i] = WithLetter(text[i], i = n, number[i + 1])
  BY <1>1, <1>2 DEF AreNumbers
<1>4. /\ \A i \in 1 .. n : number[i] >= 1
      /\ \A i \in 1 .. n : number[i] = 1 => i = n /\ text[i] = 1
      /\ \A i \in 1 .. n + 1 : number[i] <= number[1]
  BY <1>1, <1>2, NumbersGrow
<1>5. PICK most \in Nat : most = number[1]
  BY <1>3
<1>6. PICK letters : AreRead(letters, most) /\ decodedLetters(most) = letters[most]
  BY LettersAreRead
<1>7. letters[0] = <<>>
  <2>1. 0 \in 0 .. most
    OBVIOUS
  <2>2. letters[0] = ReadAs(0, letters)
    BY <1>6, <2>1, Zenon DEF AreRead
  <2>. QED  BY <2>2, Zenon DEF ReadAs
<1>. DEFINE T == {k \in Nat : k \in 0 .. n => letters[number[n + 1 - k]] = SubSeq(text, n + 1 - k, n)}
<1>8. 0 \in T
  <2>1. SubSeq(text, n + 1, n) = <<>>
    OBVIOUS
  <2>2. n + 1 - 0 = n + 1
    OBVIOUS
  <2>3. letters[number[n + 1 - 0]] = SubSeq(text, n + 1 - 0, n)
    BY <1>3, <1>7, <2>1, <2>2, Zenon
  <2>4. 0 \in Nat
    OBVIOUS
  <2>. QED  BY <2>3, <2>4, Zenon
<1>9. ASSUME NEW k \in Nat, k \in T
      PROVE  k + 1 \in T
  <2>. SUFFICES ASSUME k + 1 \in 0 .. n
                PROVE  letters[number[n + 1 - (k + 1)]] = SubSeq(text, n + 1 - (k + 1), n)
    OBVIOUS
  <2>1. PICK i \in 1 .. n : i = n + 1 - (k + 1) /\ i + 1 = n + 1 - k /\ k \in 0 .. n
    OBVIOUS
  <2>2. letters[number[i + 1]] = SubSeq(text, i + 1, n)
    BY <1>9, <2>1
  <2>3. PICK letter \in Letters, last \in BOOLEAN, rest \in Nat :
          letter = text[i] /\ last = (i = n) /\ rest = number[i + 1]
    <3>1. i + 1 \in 1 .. n + 1
      OBVIOUS
    <3>. QED  BY <1>1, <1>3, <3>1
  <2>4. last => rest = 0
    BY <1>3, <2>3
  <2>5. (last <=> i = n) /\ (i # n => i + 1 \in 1 .. n)
    <3>1. last <=> i = n
      BY <2>3, Zenon
    <3>2. i # n => i + 1 \in 1 .. n
      BY <1>1
    <3>. QED  BY <3>1, <3>2
  <2>6. ~last => rest >= 1
    BY <1>4, <2>3, <2>5
  <2>7. ~last /\ letter = BasicSize => rest # 1
    <3>1. ASSUME ~last, letter = BasicSize, rest = 1 PROVE FALSE
      <4>1. i + 1 = n /\ text[n] = 1
        BY <1>4, <2>3, <2>5, <3>1
      <4>2. text[n - 1] = BasicSize /\ n >= 2
        <5>1. i = n - 1 /\ n >= 2
          BY <4>1
        <5>2. text[i] = BasicSize
          BY <2>3, <3>1
        <5>. QED  BY <5>1, <5>2
      <4>. QED  BY <1>1, <4>1, <4>2 DEF EndsInEven
    <3>. QED  BY <3>1
  <2>8. WithLetter(letter, last, rest) = number[i] /\ number[i] <= most
    <3>1. i \in 1 .. n + 1
      OBVIOUS
    <3>. QED  BY <1>3, <1>4, <1>5, <2>3, <3>1
  <2>9. last => letters[rest] = <<>>
    BY <1>7, <2>4
  <2>10. letters[WithLetter(letter, last, rest)] = <<letter>> \o letters[rest]
    BY <1>6, <2>4, <2>6, <2>7, <2>8, <2>9, LetterIsRead, SMTT(30)
  <2>11. letters[number[i]] = <<text[i]>> \o SubSeq(text, i + 1, n)
    BY <2>2, <2>3, <2>8, <2>10
  <2>12. <<text[i]>> \o SubSeq(text, i + 1, n) = SubSeq(text, i, n)
    BY <1>1, FromHere
  <2>. QED  BY <2>1, <2>11, <2>12
<1>. HIDE DEF T
<1>10. Nat \subseteq T
  BY <1>8, <1>9, InductionOn
<1>11. letters[number[1]] = SubSeq(text, 1, n)
  <2>1. n \in T /\ n \in 0 .. n /\ n + 1 - n = 1
    BY <1>10
  <2>. QED  BY <2>1 DEF T
<1>12. SubSeq(text, 1, n) = text
  BY <1>1
<1>. QED  BY <1>2, <1>3, <1>5, <1>6, <1>11, <1>12

\* A text that ends in two letters.
LEMMA SuffixOfTwo ==
  ASSUME NEW S, NEW text \in Seq(S), NEW a, NEW b
  PROVE  IsSuffix(<<a, b>>, text)
           <=> Len(text) >= 2 /\ text[Len(text) - 1] = a /\ text[Len(text)] = b
<1>1. PICK n \in Nat : n = Len(text)
  OBVIOUS
<1>2. PICK back : back = Reverse(text) /\ back = [i \in 1 .. n |-> text[(n - i) + 1]]
  BY <1>1 DEF Reverse
<1>3. Len(back) = n
  BY <1>2
<1>4. PICK two : two = Reverse(<<a, b>>) /\ two = [i \in 1 .. 2 |-> <<a, b>>[(2 - i) + 1]]
  BY DEF Reverse
<1>5. Len(two) = 2 /\ two[1] = b /\ two[2] = a
  BY <1>4
<1>6. IsSuffix(<<a, b>>, text) <=> 2 <= n /\ SubSeq(two, 1, 2) = SubSeq(back, 1, 2)
  BY <1>2, <1>3, <1>4, <1>5 DEF IsSuffix, IsPrefix
<1>7. SubSeq(two, 1, 2) = [i \in 1 .. 2 |-> two[i]] /\ SubSeq(back, 1, 2) = [i \in 1 .. 2 |-> back[i]]
  <2>1. ASSUME NEW list PROVE SubSeq(list, 1, 2) = [i \in 1 .. 2 |-> list[i]]
    <3>1. SubSeq(list, 0 + 1, 2) = [i \in 1 .. 2 - 0 |-> list[0 + i]]
      BY PartIs
    <3>2. \A i \in 1 .. 2 : 0 + i = i
      OBVIOUS
    <3>. QED  BY <3>1, <3>2
  <2>. QED  BY <2>1
<1>8. SubSeq(two, 1, 2) = SubSeq(back, 1, 2) <=> back[1] = b /\ back[2] = a
  <2>1. ASSUME back[1] = b, back[2] = a PROVE \A i \in 1 .. 2 : two[i] = back[i]
    <3>1. \A i \in 1 .. 2 : i = 1 \/ i = 2
      OBVIOUS
    <3>. QED  BY <1>5, <2>1, <3>1
  <2>2. ASSUME SubSeq(two, 1, 2) = SubSeq(back, 1, 2) PROVE back[1] = b /\ back[2] = a
    <3>1. 1 \in 1 .. 2 /\ 2 \in 1 .. 2
      OBVIOUS
    <3>2. back[1] = two[1] /\ back[2] = two[2]
      BY <1>7, <2>2, <3>1
    <3>. QED  BY <1>5, <3>2
  <2>. QED  BY <1>7, <2>1, <2>2
<1>9. ASSUME 2 <= n PROVE back[1] = text[n] /\ back[2] = text[n - 1]
  <2>1. 1 \in 1 .. n /\ 2 \in 1 .. n /\ (n - 1) + 1 = n /\ (n - 2) + 1 = n - 1
    BY <1>9
  <2>. QED  BY <1>2, <2>1
<1>. QED  BY <1>1, <1>6, <1>8, <1>9

EndsInStar(text) == Len(text) > 0 /\ text[Len(text)] = Star

HasStars(label, k) ==
  /\ \A i \in Len(label) - k + 1 .. Len(label) : label[i] = Star
  /\ k < Len(label) => label[Len(label) - k] # Star

\* A label ends in as many stars as the model counts.
LEMMA StarsAreCounted ==
  ASSUME NEW label \in Seq(Letters), NEW k \in 0 .. Len(label), HasStars(label, k)
  PROVE  extractStars(label) = <<SubSeq(label, 1, Len(label) - k), k>>
<1>1. PICK n \in Nat : n = Len(label)
  OBVIOUS
<1>. DEFINE chosen == CHOOSE j \in 0 .. Len(label) : HasStars(label, j)
<1>2. extractStars(label) = <<SubSeq(label, 1, Len(label) - chosen), chosen>>
  BY Zenon DEF extractStars, HasStars
<1>3. chosen \in 0 .. n /\ HasStars(label, chosen)
  <2>1. chosen \in 0 .. Len(label) /\ HasStars(label, chosen)
    BY Zenon
  <2>. QED  BY <1>1, <2>1
<1>4. ASSUME NEW i \in 0 .. n, NEW j \in 0 .. n, HasStars(label, i), HasStars(label, j) PROVE ~(i < j)
  <2>1. ASSUME i < j PROVE FALSE
    <3>1. i < n /\ n - i \in n - j + 1 .. n
      BY <2>1
    <3>. QED  BY <1>1, <1>4, <3>1 DEF HasStars
  <2>. QED  BY <2>1
<1>. HIDE DEF chosen
<1>5. chosen = k
  BY <1>1, <1>3, <1>4
<1>. QED  BY <1>2, <1>5

\* A label and the stars at its end.
LEMMA StarsAreExtracted ==
  ASSUME NEW label \in Seq(Letters)
  PROVE  \E stem \in Seq(Letters), k \in Nat :
           /\ ~EndsInStar(stem) /\ label = stem \o Stars(k) /\ extractStars(label) = <<stem, k>>
<1>1. PICK n \in Nat : n = Len(label) /\ \A i \in 1 .. n : label[i] \in Letters
  OBVIOUS
<1>. DEFINE T == {k \in Nat : k >= n \/ label[n - k] # Star}
<1>2. PICK k \in T : \A j \in T : k <= j
  <2>1. n \in T /\ T \in SUBSET Nat
    OBVIOUS
  <2>. QED  BY <2>1, LeastNatural
<1>3. k \in 0 .. n /\ (k < n => label[n - k] # Star)
  <2>1. n \in T
    OBVIOUS
  <2>2. k <= n
    BY <1>2, <2>1
  <2>. QED  BY <1>2, <2>2
<1>4. \A i \in n - k + 1 .. n : label[i] = Star
  <2>1. ASSUME NEW i \in n - k + 1 .. n PROVE label[i] = Star
    <3>1. PICK j \in Nat : j = n - i /\ j < k /\ n - j = i
      <4>1. n - i \in Nat /\ n - i < k /\ n - (n - i) = i
        BY <1>3
      <4>. QED  BY <4>1
    <3>2. j \notin T
      <4>1. ASSUME j \in T PROVE k <= j
        BY <1>2, <4>1, Zenon
      <4>. HIDE DEF T
      <4>. QED  BY <1>3, <3>1, <4>1
    <3>. QED  BY <3>1, <3>2
  <2>. QED  BY <2>1
<1>5. HasStars(label, k)
  BY <1>1, <1>3, <1>4 DEF HasStars
<1>. HIDE DEF T
<1>6. PICK m \in Nat : m = n - k /\ m <= n
  BY <1>3
<1>7. PICK stem : stem = SubSeq(label, 1, m)
  OBVIOUS
<1>8. stem = [i \in 1 .. m |-> label[i]]
  <2>1. SubSeq(label, 0 + 1, m) = [i \in 1 .. m - 0 |-> label[0 + i]]
    BY PartIs
  <2>2. m - 0 = m /\ \A i \in 1 .. m : 0 + i = i
    OBVIOUS
  <2>. QED  BY <1>7, <2>1, <2>2
<1>9. stem \in Seq(Letters) /\ Len(stem) = m
  BY <1>1, <1>6, <1>8
<1>10. extractStars(label) = <<stem, k>>
  BY <1>1, <1>3, <1>5, <1>6, <1>7, StarsAreCounted
<1>11. ~EndsInStar(stem)
  <2>1. m > 0 => k < n /\ m \in 1 .. m /\ n - k = m
    BY <1>3, <1>6
  <2>2. m > 0 => stem[m] # Star
    BY <1>3, <1>8, <2>1
  <2>. QED  BY <1>9, <2>2 DEF EndsInStar
<1>12. label = stem \o Stars(k)
  <2>1. PICK stars : stars = Stars(k) /\ stars = [i \in 1 .. k |-> Star]
    BY DEF Stars
  <2>2. Star \in Letters
    BY AlphabetAssumption DEF Star, Letters, Big
  <2>3. stars \in Seq(Letters) /\ Len(stars) = k
    BY <1>3, <2>1, <2>2
  <2>4. IsConcatenation(stem \o stars, stem, stars) /\ stem \o stars \in Seq(Letters)
    BY <1>9, <2>3, Concatenation
  <2>5. PICK whole \in Seq(Letters) : whole = stem \o stars
    BY <2>4
  <2>6. /\ Len(whole) = n
        /\ \A i \in 1 .. m : whole[i] = stem[i]
        /\ \A j \in 1 .. k : whole[m + j] = stars[j]
    BY <1>3, <1>6, <1>9, <2>3, <2>4, <2>5 DEF IsConcatenation
  <2>7. ASSUME NEW i \in 1 .. n PROVE whole[i] = label[i]
    <3>1. CASE i <= m
      <4>1. i \in 1 .. m
        BY <3>1
      <4>. QED  BY <1>8, <2>6, <4>1
    <3>2. CASE i > m
      <4>1. i - m \in 1 .. k /\ m + (i - m) = i /\ i \in n - k + 1 .. n
        BY <1>3, <1>6, <3>2
      <4>2. whole[i] = stars[i - m]
        BY <2>6, <4>1
      <4>. QED  BY <1>4, <2>1, <4>1, <4>2
    <3>. QED  BY <1>6, <3>1, <3>2
  <2>8. whole = [i \in 1 .. n |-> whole[i]] /\ label = [i \in 1 .. n |-> label[i]]
    BY <1>1, <2>6
  <2>9. whole = label
    BY <2>7, <2>8
  <2>. QED  BY <2>1, <2>5, <2>9
<1>. QED  BY <1>3, <1>9, <1>10, <1>11, <1>12

\* A list, and the stars put behind it.
LEMMA WithStars ==
  ASSUME NEW stem \in Seq(Letters), NEW k \in Nat
  PROVE  /\ stem \o Stars(k) \in Seq(Letters) /\ Len(stem \o Stars(k)) = Len(stem) + k
         /\ \A i \in 1 .. Len(stem) : (stem \o Stars(k))[i] = stem[i]
         /\ \A j \in 1 .. k : (stem \o Stars(k))[Len(stem) + j] = Star
<1>1. PICK stars : stars = Stars(k) /\ stars = [i \in 1 .. k |-> Star]
  BY DEF Stars
<1>2. Star \in Letters
  BY AlphabetAssumption DEF Star, Letters, Big
<1>3. stars \in Seq(Letters) /\ Len(stars) = k /\ \A j \in 1 .. k : stars[j] = Star
  BY <1>1, <1>2
<1>4. IsConcatenation(stem \o stars, stem, stars) /\ stem \o stars \in Seq(Letters)
  BY <1>3, Concatenation
<1>. QED  BY <1>1, <1>3, <1>4 DEF IsConcatenation

\* The stars are found again.
LEMMA StarsAreFound ==
  ASSUME NEW stem \in Seq(Letters), NEW k \in Nat, ~EndsInStar(stem)
  PROVE  extractStars(stem \o Stars(k)) = <<stem, k>>
<1>1. PICK label \in Seq(Letters), m \in Nat :
        /\ label = stem \o Stars(k) /\ m = Len(stem) /\ Len(label) = m + k
        /\ \A i \in 1 .. m : label[i] = stem[i]
        /\ \A j \in 1 .. k : label[m + j] = Star
  <2>1. Len(stem) \in Nat
    OBVIOUS
  <2>. QED  BY <2>1, WithStars, Zenon
<1>2. PICK n \in Nat : n = m + k /\ n - k = m /\ k \in 0 .. n
  <2>1. m + k \in Nat /\ (m + k) - k = m /\ k \in 0 .. m + k
    OBVIOUS
  <2>. QED  BY <2>1
<1>3. \A i \in m + 1 .. n : label[i] = Star
  <2>1. ASSUME NEW i \in m + 1 .. n PROVE label[i] = Star
    <3>1. i - m \in 1 .. k /\ m + (i - m) = i
      BY <1>2
    <3>. QED  BY <1>1, <3>1
  <2>. QED  BY <2>1
<1>4. k < n => label[m] # Star
  <2>1. ASSUME k < n PROVE label[m] # Star
    <3>1. m > 0 /\ m \in 1 .. m
      BY <1>2, <2>1
    <3>. QED  BY <1>1, <3>1 DEF EndsInStar
  <2>. QED  BY <2>1
<1>5. HasStars(label, k)
  BY <1>1, <1>2, <1>3, <1>4 DEF HasStars
<1>6. extractStars(label) = <<SubSeq(label, 1, m), k>>
  BY <1>1, <1>2, <1>5, StarsAreCounted
<1>7. SubSeq(label, 1, m) = stem
  <2>1. SubSeq(label, 0 + 1, m) = [i \in 1 .. m - 0 |-> label[0 + i]]
    BY PartIs
  <2>2. m - 0 = m /\ \A i \in 1 .. m : 0 + i = i
    OBVIOUS
  <2>3. stem = [i \in 1 .. m |-> stem[i]]
    BY <1>1
  <2>. QED  BY <1>1, <2>1, <2>2, <2>3
<1>. QED  BY <1>1, <1>6, <1>7

\* Two letters are neither a star.
LEMMA EndOfStars ==
  ASSUME NEW stem \in Seq(Letters), NEW k \in Nat \ {0}
  PROVE  ~EndsInEven(stem \o Stars(k))
<1>1. PICK label \in Seq(Letters), m \in Nat :
        /\ label = stem \o Stars(k) /\ m = Len(stem) /\ Len(label) = m + k
        /\ \A j \in 1 .. k : label[m + j] = Star
  <2>1. Len(stem) \in Nat
    OBVIOUS
  <2>. QED  BY <2>1, WithStars, ZenonT(30)
<1>2. label[m + k] = Star /\ Star # 1
  <2>1. k \in 1 .. k
    OBVIOUS
  <2>2. Star # 1
    BY AlphabetAssumption DEF Star
  <2>. QED  BY <1>1, <2>1, <2>2
<1>. QED  BY <1>1, <1>2 DEF EndsInEven

\* A label that ends in two letters is what is before them, and these.
LEMMA LastTwoAre ==
  ASSUME NEW S, NEW text \in Seq(S), Len(text) >= 2
  PROVE  /\ SubSeq(text, 1, Len(text) - 2) \in Seq(S)
         /\ SubSeq(text, 1, Len(text) - 2) \o <<text[Len(text) - 1], text[Len(text)]>> = text
<1>1. PICK n \in Nat, m \in Nat : /\ n = Len(text) /\ m = n - 2 /\ n = m + 2
                                  /\ \A i \in 1 .. n : text[i] \in S
  <2>1. Len(text) - 2 \in Nat /\ Len(text) = (Len(text) - 2) + 2 /\ Len(text) \in Nat
    OBVIOUS
  <2>2. \A i \in 1 .. Len(text) : text[i] \in S
    OBVIOUS
  <2>. QED  BY <2>1, <2>2, Zenon
<1>2. PICK stem : stem = SubSeq(text, 1, m)
  OBVIOUS
<1>3. stem = [i \in 1 .. m |-> text[i]]
  <2>1. SubSeq(text, 0 + 1, m) = [i \in 1 .. m - 0 |-> text[0 + i]]
    BY PartIs
  <2>2. m - 0 = m /\ \A i \in 1 .. m : 0 + i = i
    OBVIOUS
  <2>. QED  BY <1>2, <2>1, <2>2
<1>4. stem \in Seq(S) /\ Len(stem) = m
  BY <1>1, <1>3
<1>5. n - 1 \in 1 .. n /\ n \in 1 .. n
  BY <1>1
<1>6. PICK two : two = <<text[n - 1], text[n]>>
  OBVIOUS
<1>7. two \in Seq(S) /\ Len(two) = 2 /\ two[1] = text[n - 1] /\ two[2] = text[n]
  BY <1>1, <1>5, <1>6
<1>8. stem \o two \in Seq(S) /\ IsConcatenation(stem \o two, stem, two)
  BY <1>4, <1>7, Concatenation
<1>9. PICK whole \in Seq(S) : whole = stem \o two /\ Len(whole) = n
                              /\ (\A i \in 1 .. m : whole[i] = stem[i])
                              /\ whole[m + 1] = two[1] /\ whole[m + 2] = two[2]
  <2>1. 1 \in 1 .. 2 /\ 2 \in 1 .. 2
    OBVIOUS
  <2>2. PICK whole \in Seq(S) : whole = stem \o two /\ IsConcatenation(whole, stem, two)
    BY <1>8
  <2>3. Len(whole) = m + 2 /\ \A i \in 1 .. m : whole[i] = stem[i]
    BY <1>4, <1>7, <2>2 DEF IsConcatenation
  <2>4. \A j \in 1 .. 2 : whole[m + j] = two[j]
    BY <1>4, <1>7, <2>2, Zenon DEF IsConcatenation
  <2>5. whole[m + 1] = two[1] /\ whole[m + 2] = two[2]
    BY <2>1, <2>4
  <2>6. Len(whole) = n
    BY <1>1, <2>3
  <2>. QED  BY <2>2, <2>3, <2>5, <2>6
<1>10. ASSUME NEW i \in 1 .. n PROVE whole[i] = text[i]
  <2>1. i \in 1 .. m \/ i = m + 1 \/ i = m + 2
    BY <1>1
  <2>2. n - 1 = m + 1 /\ n = m + 2
    BY <1>1
  <2>3. CASE i \in 1 .. m
    BY <1>3, <1>9, <2>3
  <2>4. CASE i = m + 1
    BY <1>7, <1>9, <2>2, <2>4
  <2>5. CASE i = m + 2
    BY <1>7, <1>9, <2>2, <2>5
  <2>. QED  BY <2>1, <2>3, <2>4, <2>5
<1>11. whole = [i \in 1 .. n |-> whole[i]] /\ text = [i \in 1 .. n |-> text[i]]
  <2>1. Len(whole) = n /\ Len(text) = n
    BY <1>1, <1>9
  <2>2. whole = [i \in 1 .. Len(whole) |-> whole[i]] /\ text = [i \in 1 .. Len(text) |-> text[i]]
    OBVIOUS
  <2>. QED  BY <2>1, <2>2, Zenon
<1>12. whole = text
  BY <1>10, <1>11
<1>. QED  BY <1>1, <1>2, <1>4, <1>6, <1>9, <1>12

\* The end of a label is read as it was written, and never written with the ending that
\* an even number of stars stands for.
LEMMA EndIsReadBack ==
  ASSUME NEW label \in Seq(Letters)
  PROVE  /\ EndForEncoding(label) \in Seq(Letters)
         /\ ~EndsInEven(EndForEncoding(label))
         /\ EndAfterDecoding(EndForEncoding(label)) = label
<1>1. IsSuffix(EvenEnd, label) <=> EndsInEven(label)
  <2>1. IsSuffix(<<BasicSize, 1>>, label)
          <=> Len(label) >= 2 /\ label[Len(label) - 1] = BasicSize /\ label[Len(label)] = 1
    BY SuffixOfTwo
  <2>. QED  BY <2>1, Zenon DEF EvenEnd, EndsInEven
<1>2. CASE EndsInEven(label)
  <2>1. PICK before : before = SubSeq(label, 1, Len(label) - 2)
    OBVIOUS
  <2>2. before \in Seq(Letters) /\ before \o EvenEnd = label
    <3>1. before \in Seq(Letters) /\ before \o <<label[Len(label) - 1], label[Len(label)]>> = label
      BY <1>2, <2>1, LastTwoAre DEF EndsInEven
    <3>2. label[Len(label) - 1] = BasicSize /\ label[Len(label)] = 1
      BY <1>2 DEF EndsInEven
    <3>. QED  BY <3>1, <3>2, Zenon DEF EvenEnd
  <2>3. PICK stem \in Seq(Letters), k \in Nat :
          ~EndsInStar(stem) /\ before = stem \o Stars(k) /\ extractStars(before) = <<stem, k>>
    BY <2>2, StarsAreExtracted
  <2>4. PICK j \in Nat \ {0} : j = 2 * (k + 1) /\ j % 2 = 0 /\ (j \div 2) - 1 = k
    <3>1. 2 * (k + 1) \in Nat \ {0} /\ (2 * (k + 1)) % 2 = 0 /\ ((2 * (k + 1)) \div 2) - 1 = k
      OBVIOUS
    <3>. QED  BY <3>1
  <2>5. EndForEncoding(label) = stem \o Stars(j)
    <3>1. extractStars(before)[1] = stem /\ extractStars(before)[2] = k
      BY <2>3
    <3>2. EndForEncoding(label) = extractStars(before)[1] \o Stars(2 * (extractStars(before)[2] + 1))
      BY <1>1, <1>2, <2>1, Zenon DEF EndForEncoding
    <3>. QED  BY <2>4, <3>1, <3>2, Zenon
  <2>6. PICK found : found = extractStars(stem \o Stars(j)) /\ found[1] = stem /\ found[2] = j
    <3>1. extractStars(stem \o Stars(j)) = <<stem, j>>
      BY <2>3, StarsAreFound
    <3>. QED  BY <3>1
  <2>7. EndAfterDecoding(stem \o Stars(j)) = stem \o Stars(k) \o EvenEnd
    <3>1. j # 0
      OBVIOUS
    <3>. QED  BY <2>4, <2>6, <3>1, Zenon DEF EndAfterDecoding
  <2>8. EndAfterDecoding(stem \o Stars(j)) = label
    BY <2>2, <2>3, <2>7, Zenon
  <2>. QED  BY <2>5, <2>8, WithStars, EndOfStars
<1>3. CASE ~EndsInEven(label)
  <2>1. PICK stem \in Seq(Letters), k \in Nat :
          ~EndsInStar(stem) /\ label = stem \o Stars(k) /\ extractStars(label) = <<stem, k>>
    BY StarsAreExtracted
  <2>2. extractStars(label)[1] = stem /\ extractStars(label)[2] = k
    BY <2>1
  <2>3. CASE k = 0
    <3>1. EndForEncoding(label) = label
      <4>1. ~(k > 0)
        BY <2>3
      <4>. QED  BY <1>1, <1>3, <2>2, <4>1, Zenon DEF EndForEncoding
    <3>2. EndAfterDecoding(label) = label
      BY <2>2, <2>3, Zenon DEF EndAfterDecoding
    <3>. QED  BY <1>3, <3>1, <3>2
  <2>4. CASE k # 0
    <3>1. PICK j \in Nat \ {0} : j = 1 + 2 * (k - 1) /\ j % 2 # 0 /\ ((j - 1) \div 2) + 1 = k
      <4>1. PICK h \in Nat : k = h + 1 /\ k - 1 = h
        <5>1. k - 1 \in Nat /\ k = (k - 1) + 1
          BY <2>4
        <5>. QED  BY <5>1
      <4>2. (1 + 2 * h) % 2 = 1 /\ (2 * h) \div 2 = h /\ (1 + 2 * h) - 1 = 2 * h
        OBVIOUS
      <4>. QED  BY <4>1, <4>2
    <3>2. EndForEncoding(label) = stem \o Stars(j)
      <4>1. k > 0
        BY <2>4
      <4>. QED  BY <1>1, <1>3, <2>2, <3>1, <4>1, Zenon DEF EndForEncoding
    <3>3. PICK found : found = extractStars(stem \o Stars(j)) /\ found[1] = stem /\ found[2] = j
      <4>1. extractStars(stem \o Stars(j)) = <<stem, j>>
        BY <2>1, StarsAreFound
      <4>. QED  BY <4>1
    <3>4. EndAfterDecoding(stem \o Stars(j)) = stem \o Stars(k)
      <4>1. j # 0
        OBVIOUS
      <4>. QED  BY <3>1, <3>3, <4>1, Zenon DEF EndAfterDecoding
    <3>5. stem \o Stars(j) \in Seq(Letters) /\ ~EndsInEven(stem \o Stars(j))
      BY WithStars, EndOfStars
    <3>6. EndAfterDecoding(stem \o Stars(j)) = label
      BY <2>1, <3>4
    <3>. QED  BY <3>2, <3>5, <3>6, Zenon
  <2>. QED  BY <2>3, <2>4
<1>. QED  BY <1>2, <1>3

\* The label of the number of a label is this label.
LEMMA LabelIsReadBack ==
  ASSUME NEW label \in Seq(Letters)
  PROVE  useEncoded(label) \in Nat /\ EndAfterDecoding(decodedLetters(useEncoded(label))) = label
<1>1. PICK text \in Seq(Letters) :
        text = EndForEncoding(label) /\ ~EndsInEven(text) /\ EndAfterDecoding(text) = label
  BY EndIsReadBack
<1>2. Numbers(text)[1] \in Nat /\ decodedLetters(Numbers(text)[1]) = text
  BY <1>1, TextIsReadBack
<1>3. useEncoded(label) = Numbers(text)[1]
  BY <1>1 DEF useEncoded
<1>. QED  BY <1>1, <1>2, <1>3

------------------------------------------------------------------------------
(* Texts of several labels.                                                 *)

Chars == Letters \union {Dot}

Dotted(labels) == [i \in DOMAIN labels |-> labels[i] \o <<Dot>>]

\* One list more is joined.
LEMMA FlattenAdds ==
  ASSUME NEW S, NEW seqs \in Seq(Seq(S)), NEW x \in Seq(S)
  PROVE  FlattenSeq(Append(seqs, x)) = FlattenSeq(seqs) \o x
<1>1. PICK n \in Nat : n = Len(seqs)
  OBVIOUS
<1>2. PICK more \in Seq(Seq(S)) : /\ more = Append(seqs, x) /\ Len(more) = n + 1 /\ more[n + 1] = x
                                  /\ \A i \in 1 .. n : more[i] = seqs[i]
  <2>1. /\ Append(seqs, x) \in Seq(Seq(S)) /\ Len(Append(seqs, x)) = n + 1
        /\ Append(seqs, x)[n + 1] = x /\ \A i \in 1 .. n : Append(seqs, x)[i] = seqs[i]
    BY <1>1
  <2>. QED  BY <2>1, Zenon
<1>3. PICK g : IsJoining(g, more, n + 1) /\ FlattenSeq(more) = g[n + 1]
  <2>1. Len(more) \in Nat \ {0} /\ Len(more) = n + 1
    BY <1>2
  <2>2. \E g : IsJoining(g, more, Len(more)) /\ FlattenSeq(more) = g[Len(more)]
    BY <2>1, FlattenIsJoined
  <2>. QED  BY <2>1, <2>2, Zenon
<1>4. \A i \in 1 .. n + 1 : g[i] = IF i = 1 THEN more[i] ELSE g[i - 1] \o more[i]
  BY <1>3, Zenon DEF IsJoining
<1>5. CASE n = 0
  <2>1. seqs = <<>>
    <3>1. ASSUME NEW X, NEW s \in Seq(X), Len(s) = 0 PROVE s = <<>>
      BY <3>1
    <3>. QED  BY <1>1, <1>5, <3>1, Zenon
  <2>2. FlattenSeq(seqs) = <<>>
    BY <2>1 DEF FlattenSeq
  <2>3. g[1] = x
    BY <1>2, <1>4, <1>5
  <2>4. <<>> \o x = x
    OBVIOUS
  <2>. QED  BY <1>2, <1>3, <1>5, <2>2, <2>3, <2>4
<1>6. CASE n # 0
  <2>1. PICK f : IsJoining(f, seqs, n) /\ FlattenSeq(seqs) = f[n]
    <3>1. Len(seqs) \in Nat \ {0}
      BY <1>1, <1>6
    <3>2. \E f : IsJoining(f, seqs, Len(seqs)) /\ FlattenSeq(seqs) = f[Len(seqs)]
      BY <3>1, FlattenIsJoined
    <3>. QED  BY <1>1, <3>2, Zenon
  <2>2. \A i \in 1 .. n : f[i] = IF i = 1 THEN seqs[i] ELSE f[i - 1] \o seqs[i]
    BY <2>1, Zenon DEF IsJoining
  <2>. DEFINE T == {k \in Nat : k \in 1 .. n => g[k] = f[k]}
  <2>3. 0 \in T
    OBVIOUS
  <2>4. ASSUME NEW k \in Nat, k \in T
        PROVE  k + 1 \in T
    <3>. SUFFICES ASSUME k + 1 \in 1 .. n
                  PROVE  g[k + 1] = f[k + 1]
      OBVIOUS
    <3>1. k + 1 \in 1 .. n + 1 /\ (k + 1) - 1 = k
      OBVIOUS
    <3>2. CASE k = 0
      BY <1>2, <1>4, <2>2, <3>1, <3>2
    <3>3. CASE k # 0
      <4>1. g[k] = f[k]
        BY <2>4, <3>3
      <4>2. k + 1 # 1
        BY <3>3
      <4>3. g[k + 1] = g[k] \o more[k + 1] /\ f[k + 1] = f[k] \o seqs[k + 1]
        BY <1>4, <2>2, <3>1, <4>2
      <4>. QED  BY <1>2, <4>1, <4>3
    <3>. QED  BY <3>2, <3>3
  <2>. HIDE DEF T
  <2>5. Nat \subseteq T
    BY <2>3, <2>4, InductionOn
  <2>6. g[n] = f[n]
    <3>1. n \in T /\ n \in 1 .. n
      BY <1>6, <2>5
    <3>. QED  BY <3>1 DEF T
  <2>7. g[n + 1] = g[n] \o more[n + 1]
    <3>1. n + 1 \in 1 .. n + 1 /\ n + 1 # 1 /\ (n + 1) - 1 = n
      BY <1>6
    <3>. QED  BY <1>4, <3>1
  <2>. QED  BY <1>2, <1>3, <2>1, <2>6, <2>7
<1>. QED  BY <1>5, <1>6

\* A label with its dot.
LEMMA DottedLabel ==
  ASSUME NEW label \in Seq(Letters)
  PROVE  /\ label \o <<Dot>> \in Seq(Chars) /\ Len(label \o <<Dot>>) = Len(label) + 1
         /\ (label \o <<Dot>>)[Len(label) + 1] = Dot
         /\ \A j \in 1 .. Len(label) : (label \o <<Dot>>)[j] = label[j]
<1>1. label \in Seq(Chars) /\ <<Dot>> \in Seq(Chars)
  <2>1. Letters \subseteq Chars /\ Dot \in Chars
    BY Zenon DEF Chars
  <2>. QED  BY <2>1
<1>2. IsConcatenation(label \o <<Dot>>, label, <<Dot>>) /\ label \o <<Dot>> \in Seq(Chars)
  BY <1>1, Concatenation
<1>. QED  BY <1>2 DEF IsConcatenation

\* The labels stand in the text one after the other, the k-th before the dot at end[k].
IsWritten(flat, labels, end) ==
  /\ flat \in Seq(Chars)
  /\ end \in [0 .. Len(labels) -> Nat] /\ end[0] = 0 /\ end[Len(labels)] = Len(flat)
  /\ \A k \in 1 .. Len(labels) :
       /\ end[k] = end[k - 1] + Len(labels[k]) + 1 /\ end[k] <= Len(flat) /\ flat[end[k]] = Dot
       /\ \A j \in 1 .. Len(labels[k]) : flat[end[k - 1] + j] = labels[k][j]

\* Labels with their dots.
LEMMA DottedAre ==
  ASSUME NEW labels \in Seq(Seq(Letters))
  PROVE  /\ Dotted(labels) \in Seq(Seq(Chars)) /\ Len(Dotted(labels)) = Len(labels)
         /\ \A i \in 1 .. Len(labels) : Dotted(labels)[i] = labels[i] \o <<Dot>>
<1>1. PICK n \in Nat : /\ n = Len(labels) /\ DOMAIN labels = 1 .. n
                      /\ \A i \in 1 .. n : labels[i] \in Seq(Letters)
  <2>1. Len(labels) \in Nat /\ DOMAIN labels = 1 .. Len(labels)
    OBVIOUS
  <2>2. \A i \in 1 .. Len(labels) : labels[i] \in Seq(Letters)
    OBVIOUS
  <2>. QED  BY <2>1, <2>2, Zenon
<1>2. PICK dotted : dotted = Dotted(labels) /\ dotted = [i \in 1 .. n |-> labels[i] \o <<Dot>>]
  BY <1>1, Zenon DEF Dotted
<1>3. \A i \in 1 .. n : labels[i] \o <<Dot>> \in Seq(Chars)
  <2>1. ASSUME NEW i \in 1 .. n PROVE labels[i] \o <<Dot>> \in Seq(Chars)
    <3>1. PICK label \in Seq(Letters) : label = labels[i]
      BY <1>1
    <3>2. label \o <<Dot>> \in Seq(Chars)
      BY DottedLabel
    <3>. QED  BY <3>1, <3>2
  <2>. QED  BY <2>1
<1>4. dotted \in Seq(Seq(Chars)) /\ Len(dotted) = n
  <2>1. dotted \in [1 .. n -> Seq(Chars)]
    BY <1>2, <1>3, Zenon
  <2>. QED  BY <2>1
<1>5. \A i \in 1 .. n : dotted[i] = labels[i] \o <<Dot>>
  BY <1>2, Zenon
<1>. QED  BY <1>1, <1>2, <1>4, <1>5

\* Where they stand.
LEMMA LabelsAreWritten ==
  ASSUME NEW labels \in Seq(Seq(Letters))
  PROVE  \E end : IsWritten(FlattenSeq(Dotted(labels)), labels, end)
<1>1. PICK n \in Nat : n = Len(labels)
  OBVIOUS
<1>2. PICK dotted \in Seq(Seq(Chars)) :
        /\ dotted = Dotted(labels) /\ Len(dotted) = n
        /\ \A i \in 1 .. n : dotted[i] = labels[i] \o <<Dot>>
  BY <1>1, DottedAre, Zenon
<1>3. PICK flat \in Seq(Chars) : flat = FlattenSeq(dotted) /\ \E end : IsLaidOut(flat, dotted, end)
  BY FlattenLaysOut
<1>4. PICK end : IsLaidOut(flat, dotted, end)
  BY <1>3
<1>5. /\ end \in [0 .. n -> Nat] /\ end[0] = 0 /\ end[n] = Len(flat)
      /\ \A k \in 1 .. n :
           /\ end[k] = end[k - 1] + Len(dotted[k]) /\ end[k] <= Len(flat)
           /\ \A j \in 1 .. Len(dotted[k]) : flat[end[k - 1] + j] = dotted[k][j]
  BY <1>2, <1>4, Zenon DEF IsLaidOut
<1>6. ASSUME NEW k \in 1 .. n
      PROVE  /\ end[k] = end[k - 1] + Len(labels[k]) + 1 /\ end[k] <= Len(flat) /\ flat[end[k]] = Dot
             /\ \A j \in 1 .. Len(labels[k]) : flat[end[k - 1] + j] = labels[k][j]
  <2>1. PICK label \in Seq(Letters) : label = labels[k]
    BY <1>1
  <2>2. PICK m \in Nat : m = Len(label)
    OBVIOUS
  <2>3. PICK row : /\ row = dotted[k] /\ row = label \o <<Dot>> /\ Len(row) = m + 1 /\ row[m + 1] = Dot
                   /\ \A j \in 1 .. m : row[j] = label[j]
    <3>1. dotted[k] = label \o <<Dot>>
      BY <1>2, <2>1
    <3>. QED  BY <2>2, <3>1, DottedLabel, Zenon
  <2>4. PICK s \in Nat : s = end[k - 1]
    <3>1. k - 1 \in 0 .. n
      OBVIOUS
    <3>. QED  BY <1>5, <3>1
  <2>5. /\ end[k] = s + (m + 1) /\ end[k] <= Len(flat)
        /\ \A j \in 1 .. m + 1 : flat[s + j] = row[j]
    BY <1>5, <2>3, <2>4
  <2>6. flat[s + (m + 1)] = Dot
    <3>1. m + 1 \in 1 .. m + 1
      OBVIOUS
    <3>. QED  BY <2>3, <2>5, <3>1
  <2>7. \A j \in 1 .. m : flat[s + j] = label[j]
    <3>1. \A j \in 1 .. m : j \in 1 .. m + 1
      OBVIOUS
    <3>. QED  BY <2>3, <2>5, <3>1, Zenon
  <2>8. s + (m + 1) = s + m + 1
    OBVIOUS
  <2>. QED  BY <2>1, <2>2, <2>4, <2>5, <2>6, <2>7, <2>8
<1>7. IsWritten(flat, labels, end)
  <2>1. n = Len(labels)
    BY <1>1
  <2>. QED  BY <1>5, <1>6, <2>1, Zenon DEF IsWritten
<1>. QED  BY <1>2, <1>3, <1>7

\* A dot is no letter.
LEMMA DotIsNoLetter == Dot \notin Letters /\ Tld \in Letters /\ Tld # Dot
BY AlphabetAssumption DEF Dot, Tld, Letters, Basic, Big

\* Labels that are written alike are the same.
LEMMA LabelsAreApart ==
  ASSUME NEW labels \in Seq(Seq(Letters)), NEW others \in Seq(Seq(Letters)),
         FlattenSeq(Dotted(labels)) = FlattenSeq(Dotted(others))
  PROVE  labels = others
<1>1. PICK m \in Nat, n \in Nat : m = Len(labels) /\ n = Len(others)
  OBVIOUS
<1>2. PICK flat : flat = FlattenSeq(Dotted(labels)) /\ flat = FlattenSeq(Dotted(others))
  OBVIOUS
<1>3. PICK end : IsWritten(flat, labels, end)
  BY <1>2, LabelsAreWritten
<1>4. PICK stop : IsWritten(flat, others, stop)
  BY <1>2, LabelsAreWritten
<1>5. PICK size \in Nat : size = Len(flat)
  BY <1>3 DEF IsWritten
<1>6. /\ end \in [0 .. m -> Nat] /\ end[0] = 0 /\ end[m] = size
      /\ \A k \in 1 .. m :
           /\ end[k] = end[k - 1] + Len(labels[k]) + 1 /\ end[k] <= size /\ flat[end[k]] = Dot
           /\ \A j \in 1 .. Len(labels[k]) : flat[end[k - 1] + j] = labels[k][j]
  BY <1>1, <1>3, <1>5, Zenon DEF IsWritten
<1>7. /\ stop \in [0 .. n -> Nat] /\ stop[0] = 0 /\ stop[n] = size
      /\ \A k \in 1 .. n :
           /\ stop[k] = stop[k - 1] + Len(others[k]) + 1 /\ stop[k] <= size /\ flat[stop[k]] = Dot
           /\ \A j \in 1 .. Len(others[k]) : flat[stop[k - 1] + j] = others[k][j]
  BY <1>1, <1>4, <1>5, Zenon DEF IsWritten
<1>8. ASSUME NEW k \in 1 .. m, k \in 1 .. n, end[k - 1] = stop[k - 1]
      PROVE  end[k] = stop[k] /\ labels[k] = others[k]
  <2>1. PICK label \in Seq(Letters), other \in Seq(Letters) : label = labels[k] /\ other = others[k]
    BY <1>1, <1>8
  <2>2. PICK a \in Nat, b \in Nat : a = Len(label) /\ b = Len(other)
    OBVIOUS
  <2>3. PICK s \in Nat : s = end[k - 1] /\ s = stop[k - 1]
    <3>1. k - 1 \in 0 .. m
      OBVIOUS
    <3>. QED  BY <1>6, <1>8, <3>1
  <2>4. /\ end[k] = s + a + 1 /\ flat[s + a + 1] = Dot
        /\ \A j \in 1 .. a : flat[s + j] = label[j]
    BY <1>6, <2>1, <2>2, <2>3
  <2>5. /\ stop[k] = s + b + 1 /\ flat[s + b + 1] = Dot
        /\ \A j \in 1 .. b : flat[s + j] = other[j]
    BY <1>7, <1>8, <2>1, <2>2, <2>3
  <2>6. ~ (a < b)
    <3>1. ASSUME a < b PROVE FALSE
      <4>1. a + 1 \in 1 .. b /\ s + (a + 1) = s + a + 1
        BY <3>1
      <4>2. other[a + 1] = Dot /\ other[a + 1] \in Letters
        BY <2>2, <2>4, <2>5, <4>1
      <4>. QED  BY <4>2, DotIsNoLetter
    <3>. QED  BY <3>1
  <2>7. ~ (b < a)
    <3>1. ASSUME b < a PROVE FALSE
      <4>1. b + 1 \in 1 .. a /\ s + (b + 1) = s + b + 1
        BY <3>1
      <4>2. label[b + 1] = Dot /\ label[b + 1] \in Letters
        BY <2>2, <2>4, <2>5, <4>1
      <4>. QED  BY <4>2, DotIsNoLetter
    <3>. QED  BY <3>1
  <2>8. a = b
    BY <2>6, <2>7
  <2>9. label = [j \in 1 .. a |-> label[j]] /\ other = [j \in 1 .. b |-> other[j]]
    BY <2>2
  <2>10. label = other
    BY <2>4, <2>5, <2>8, <2>9
  <2>. QED  BY <2>1, <2>4, <2>5, <2>8, <2>10
<1>. DEFINE T == {k \in Nat : k \in 0 .. m /\ k \in 0 .. n => end[k] = stop[k]}
<1>9. 0 \in T
  BY <1>6, <1>7
<1>10. ASSUME NEW k \in Nat, k \in T
       PROVE  k + 1 \in T
  <2>. SUFFICES ASSUME k + 1 \in 0 .. m, k + 1 \in 0 .. n
                PROVE  end[k + 1] = stop[k + 1]
    OBVIOUS
  <2>1. k \in 0 .. m /\ k \in 0 .. n /\ k + 1 \in 1 .. m /\ k + 1 \in 1 .. n /\ (k + 1) - 1 = k
    OBVIOUS
  <2>2. end[(k + 1) - 1] = stop[(k + 1) - 1]
    BY <1>10, <2>1
  <2>. QED  BY <1>8, <2>1, <2>2
<1>. HIDE DEF T
<1>11. Nat \subseteq T
  BY <1>9, <1>10, InductionOn
<1>12. \A k \in 0 .. m : k \in 0 .. n => end[k] = stop[k]
  BY <1>11 DEF T
<1>13. ~ (m < n)
  <2>1. ASSUME m < n PROVE FALSE
    <3>1. m \in 0 .. m /\ m \in 0 .. n /\ m + 1 \in 1 .. n /\ (m + 1) - 1 = m
      BY <2>1
    <3>2. PICK a \in Nat : a = Len(others[m + 1])
      BY <1>1, <3>1
    <3>3. stop[m] = size /\ stop[m + 1] = stop[m] + a + 1 /\ stop[m + 1] <= size
      BY <1>6, <1>7, <1>12, <3>1, <3>2
    <3>. QED  BY <3>3
  <2>. QED  BY <2>1
<1>14. ~ (n < m)
  <2>1. ASSUME n < m PROVE FALSE
    <3>1. n \in 0 .. m /\ n \in 0 .. n /\ n + 1 \in 1 .. m /\ (n + 1) - 1 = n
      BY <2>1
    <3>2. PICK a \in Nat : a = Len(labels[n + 1])
      BY <1>1, <3>1
    <3>3. end[n] = size /\ end[n + 1] = end[n] + a + 1 /\ end[n + 1] <= size
      BY <1>6, <1>7, <1>12, <3>1, <3>2
    <3>. QED  BY <3>3
  <2>. QED  BY <2>1
<1>15. m = n
  BY <1>13, <1>14
<1>16. \A k \in 1 .. m : labels[k] = others[k]
  <2>1. ASSUME NEW k \in 1 .. m PROVE labels[k] = others[k]
    <3>1. k - 1 \in 0 .. m /\ k - 1 \in 0 .. n /\ k \in 1 .. n
      BY <1>15
    <3>2. end[k - 1] = stop[k - 1]
      BY <1>12, <3>1
    <3>. QED  BY <1>8, <3>1, <3>2
  <2>. QED  BY <2>1
<1>17. labels = [k \in 1 .. m |-> labels[k]] /\ others = [k \in 1 .. n |-> others[k]]
  BY <1>1
<1>. QED  BY <1>15, <1>16, <1>17

\* One more element in a list.
LEMMA Appended ==
  ASSUME NEW X, NEW list \in Seq(X), NEW e \in X
  PROVE  /\ Append(list, e) \in Seq(X) /\ Len(Append(list, e)) = Len(list) + 1
         /\ DOMAIN Append(list, e) = 1 .. Len(list) + 1
         /\ Append(list, e) = [i \in 1 .. Len(list) + 1 |-> Append(list, e)[i]]
         /\ Append(list, e)[Len(list) + 1] = e
         /\ \A i \in 1 .. Len(list) : Append(list, e)[i] = list[i]
<1>1. Append(list, e) \in Seq(X) /\ Len(Append(list, e)) = Len(list) + 1
  OBVIOUS
<1>2. Append(list, e)[Len(list) + 1] = e
  OBVIOUS
<1>3. \A i \in 1 .. Len(list) : Append(list, e)[i] = list[i]
  OBVIOUS
<1>4. ASSUME NEW s \in Seq(X) PROVE DOMAIN s = 1 .. Len(s) /\ s = [i \in 1 .. Len(s) |-> s[i]]
  OBVIOUS
<1>5. /\ DOMAIN Append(list, e) = 1 .. Len(list) + 1
      /\ Append(list, e) = [i \in 1 .. Len(list) + 1 |-> Append(list, e)[i]]
  BY <1>1, <1>4, Zenon
<1>. QED  BY <1>1, <1>2, <1>3, <1>5

\* The same, of a list of a known length.
LEMMA AppendedTo ==
  ASSUME NEW X, NEW list \in Seq(X), NEW e \in X, NEW n, n = Len(list)
  PROVE  /\ Append(list, e) \in Seq(X) /\ Len(Append(list, e)) = n + 1
         /\ DOMAIN Append(list, e) = 1 .. n + 1
         /\ Append(list, e) = [i \in 1 .. n + 1 |-> Append(list, e)[i]]
         /\ Append(list, e)[n + 1] = e
         /\ \A i \in 1 .. n : Append(list, e)[i] = list[i]
BY Appended

\* The first elements of a list.
LEMMA FirstAre ==
  ASSUME NEW S, NEW list \in Seq(S), NEW k \in 0 .. Len(list)
  PROVE  /\ SubSeq(list, 1, k) = [i \in 1 .. k |-> list[i]]
         /\ SubSeq(list, 1, k) \in Seq(S) /\ Len(SubSeq(list, 1, k)) = k
<1>1. SubSeq(list, 1, k) = [i \in 1 .. k |-> list[i]]
  <2>1. k \in Nat /\ 0 \in Nat /\ 0 <= k
    OBVIOUS
  <2>2. SubSeq(list, 0 + 1, k) = [i \in 1 .. k - 0 |-> list[0 + i]]
    BY <2>1, PartIs
  <2>3. k - 0 = k /\ 0 + 1 = 1 /\ \A i \in 1 .. k : 0 + i = i
    OBVIOUS
  <2>. QED  BY <2>2, <2>3
<1>2. \A i \in 1 .. k : list[i] \in S
  OBVIOUS
<1>3. [i \in 1 .. k |-> list[i]] \in Seq(S) /\ Len([i \in 1 .. k |-> list[i]]) = k
  BY <1>2
<1>. QED  BY <1>1, <1>3

\* One label more.
LEMMA DottedAppended ==
  ASSUME NEW labels \in Seq(Seq(Letters)), NEW label \in Seq(Letters)
  PROVE  Dotted(Append(labels, label)) = Append(Dotted(labels), label \o <<Dot>>)
<1>1. PICK n \in Nat : n = Len(labels)
  OBVIOUS
<1>2. PICK more \in Seq(Seq(Letters)) : /\ more = Append(labels, label) /\ Len(more) = n + 1
                                       /\ more[n + 1] = label
                                       /\ \A i \in 1 .. n : more[i] = labels[i]
  <2>1. /\ Append(labels, label) \in Seq(Seq(Letters)) /\ Len(Append(labels, label)) = n + 1
        /\ Append(labels, label)[n + 1] = label /\ \A i \in 1 .. n : Append(labels, label)[i] = labels[i]
    BY <1>1
  <2>. QED  BY <2>1, Zenon
<1>3. PICK row \in Seq(Chars) : row = label \o <<Dot>>
  BY DottedLabel
<1>4. PICK dotted \in Seq(Seq(Chars)) : /\ dotted = Dotted(labels) /\ Len(dotted) = n
                                        /\ \A i \in 1 .. n : dotted[i] = labels[i] \o <<Dot>>
  BY <1>1, DottedAre, Zenon
<1>5. PICK long \in Seq(Seq(Chars)) : /\ long = Dotted(more) /\ Len(long) = n + 1
                                      /\ \A i \in 1 .. n + 1 : long[i] = more[i] \o <<Dot>>
  BY <1>2, DottedAre, Zenon
<1>6. PICK other \in Seq(Seq(Chars)) : /\ other = Append(dotted, row) /\ Len(other) = n + 1
                                       /\ other[n + 1] = row /\ \A i \in 1 .. n : other[i] = dotted[i]
  <2>1. /\ Append(dotted, row) \in Seq(Seq(Chars)) /\ Len(Append(dotted, row)) = n + 1
        /\ Append(dotted, row)[n + 1] = row /\ \A i \in 1 .. n : Append(dotted, row)[i] = dotted[i]
    BY <1>3, <1>4, AppendedTo
  <2>. QED  BY <2>1, Zenon
<1>7. ASSUME NEW i \in 1 .. n + 1 PROVE long[i] = other[i]
  <2>1. CASE i = n + 1
    BY <1>2, <1>3, <1>5, <1>6, <2>1, Zenon
  <2>2. CASE i # n + 1
    <3>1. i \in 1 .. n
      BY <2>2
    <3>. QED  BY <1>2, <1>4, <1>5, <1>6, <3>1, ZenonT(30)
  <2>. QED  BY <2>1, <2>2
<1>8. long = [i \in 1 .. n + 1 |-> long[i]] /\ other = [i \in 1 .. n + 1 |-> other[i]]
  <2>1. ASSUME NEW X, NEW s \in Seq(X), Len(s) = n + 1 PROVE s = [i \in 1 .. n + 1 |-> s[i]]
    BY <2>1
  <2>. QED  BY <1>5, <1>6, <2>1, Zenon
<1>9. long = other
  BY <1>7, <1>8, Zenon
<1>. QED  BY <1>2, <1>3, <1>4, <1>5, <1>6, <1>9, Zenon

NextSplit(text, i, before) ==
  IF text[i] = Dot THEN Append(before, <<>>)
  ELSE [before EXCEPT ![Len(before)] = Append(@, text[i])]

IsSplitting(split, text, n) ==
  split = [i \in 0 .. n |-> IF i = 0 THEN <<<<>>>> ELSE NextSplit(text, i, split[i - 1])]

\* The function that splits a text exists.
LEMMA SplittingExists ==
  ASSUME NEW text
  PROVE  \A n \in Nat : \E split : IsSplitting(split, text, n)
<1>. DEFINE T == {n \in Nat : \E split : IsSplitting(split, text, n)}
<1>1. 0 \in T
  <2>1. PICK f : f = [i \in 0 .. 0 |-> <<<<>>>>]
    OBVIOUS
  <2>2. \A i \in 0 .. 0 : i = 0
    OBVIOUS
  <2>3. f = [i \in 0 .. 0 |-> IF i = 0 THEN <<<<>>>> ELSE NextSplit(text, i, f[i - 1])]
    BY <2>1, <2>2, Zenon
  <2>4. IsSplitting(f, text, 0)
    BY <2>3, Zenon DEF IsSplitting
  <2>. QED  BY <2>4
<1>2. ASSUME NEW n \in Nat, n \in T
      PROVE  n + 1 \in T
  <2>1. PICK f : IsSplitting(f, text, n)
    BY <1>2
  <2>2. PICK g : g = [i \in 0 .. n + 1 |-> IF i = 0 THEN <<<<>>>> ELSE NextSplit(text, i, f[i - 1])]
    OBVIOUS
  <2>3. \A i \in 0 .. n : f[i] = IF i = 0 THEN <<<<>>>> ELSE NextSplit(text, i, f[i - 1])
    BY <2>1, Zenon DEF IsSplitting
  <2>4. \A i \in 0 .. n : g[i] = f[i]
    <3>1. \A i \in 0 .. n : i \in 0 .. n + 1
      OBVIOUS
    <3>. QED  BY <2>2, <2>3, <3>1, Zenon
  <2>5. ASSUME NEW i \in 0 .. n + 1
        PROVE  g[i] = IF i = 0 THEN <<<<>>>> ELSE NextSplit(text, i, g[i - 1])
    <3>1. g[i] = IF i = 0 THEN <<<<>>>> ELSE NextSplit(text, i, f[i - 1])
      BY <2>2, Zenon
    <3>2. i # 0 => i - 1 \in 0 .. n
      OBVIOUS
    <3>. QED  BY <2>4, <3>1, <3>2, Zenon
  <2>6. g = [i \in 0 .. n + 1 |-> g[i]]
    BY <2>2, Zenon
  <2>7. g = [i \in 0 .. n + 1 |-> IF i = 0 THEN <<<<>>>> ELSE NextSplit(text, i, g[i - 1])]
    BY <2>5, <2>6, Zenon
  <2>8. IsSplitting(g, text, n + 1)
    BY <2>7, Zenon DEF IsSplitting
  <2>. QED  BY <2>8
<1>. HIDE DEF T
<1>3. Nat \subseteq T
  BY <1>1, <1>2, InductionOn
<1>. QED  BY <1>3 DEF T

\* A letter more in the last of a list of labels.
LEMMA LastGrows ==
  ASSUME NEW S, NEW front \in Seq(Seq(S)), NEW last \in Seq(S), NEW letter \in S
  PROVE  LET list == Append(front, last)
         IN [list EXCEPT ![Len(list)] = Append(@, letter)] = Append(front, Append(last, letter))
<1>1. PICK n \in Nat : n = Len(front)
  OBVIOUS
<1>2. PICK long \in Seq(S) : long = Append(last, letter)
  BY Appended, Zenon
<1>3. PICK X : front \in Seq(X) /\ last \in X /\ long \in X
  BY Zenon
<1>4. PICK list : /\ list = Append(front, last) /\ Len(list) = n + 1 /\ list[n + 1] = last
                  /\ DOMAIN list = 1 .. n + 1
                  /\ \A i \in 1 .. n : list[i] = front[i]
  <2>1. /\ Len(Append(front, last)) = n + 1 /\ Append(front, last)[n + 1] = last
        /\ DOMAIN Append(front, last) = 1 .. n + 1
        /\ \A i \in 1 .. n : Append(front, last)[i] = front[i]
    BY <1>1, <1>3, AppendedTo
  <2>. QED  BY <2>1, Zenon
<1>5. PICK other : /\ other = Append(front, long) /\ other[n + 1] = long
                   /\ other = [i \in 1 .. n + 1 |-> other[i]]
                   /\ \A i \in 1 .. n : other[i] = front[i]
  <2>1. /\ Append(front, long)[n + 1] = long
        /\ Append(front, long) = [i \in 1 .. n + 1 |-> Append(front, long)[i]]
        /\ \A i \in 1 .. n : Append(front, long)[i] = front[i]
    BY <1>1, <1>3, AppendedTo
  <2>. QED  BY <2>1, Zenon
<1>6. PICK changed : changed = [list EXCEPT ![Len(list)] = Append(@, letter)]
  OBVIOUS
<1>7. changed = [i \in 1 .. n + 1 |-> IF i = n + 1 THEN long ELSE list[i]]
  BY <1>4, <1>2, <1>6
<1>8. ASSUME NEW i \in 1 .. n + 1 PROVE changed[i] = other[i]
  <2>1. CASE i = n + 1
    BY <1>5, <1>7, <2>1
  <2>2. CASE i # n + 1
    <3>1. i \in 1 .. n
      BY <2>2
    <3>. QED  BY <1>4, <1>5, <1>7, <2>2, <3>1
  <2>. QED  BY <2>1, <2>2
<1>9. changed = other
  BY <1>5, <1>7, <1>8
<1>. QED  BY <1>4, <1>2, <1>5, <1>6, <1>9

\* Concatenations may be read from either end.
LEMMA ConcatIsAssociative ==
  ASSUME NEW S, NEW s \in Seq(S), NEW t \in Seq(S), NEW u \in Seq(S)
  PROVE  (s \o t) \o u = s \o (t \o u)
OBVIOUS

\* The labels of a text, each with its dot, are the text and a dot.
LEMMA SplitIsJoined ==
  ASSUME NEW text \in Seq(Chars)
  PROVE  /\ Labels(text) \in Seq(Seq(Letters))
         /\ FlattenSeq(Dotted(Labels(text))) = text \o <<Dot>>
<1>1. PICK n \in Nat : n = Len(text) /\ \A i \in 1 .. n : text[i] \in Chars
  OBVIOUS
<1>2. PICK split : Labels(text) = split[n] /\ IsSplitting(split, text, n)
  <2>. DEFINE chosen == CHOOSE split : IsSplitting(split, text, Len(text))
  <2>1. Labels(text) = chosen[Len(text)]
    BY Zenon DEF Labels, SplitUpTo, IsSplitting, NextSplit
  <2>2. IsSplitting(chosen, text, Len(text))
    <3>1. \E split : IsSplitting(split, text, n)
      BY SplittingExists
    <3>. QED  BY <1>1, <3>1, Zenon
  <2>. QED  BY <1>1, <2>1, <2>2, Zenon
<1>3. \A i \in 0 .. n : split[i] = IF i = 0 THEN <<<<>>>> ELSE NextSplit(text, i, split[i - 1])
  BY <1>2, Zenon DEF IsSplitting
<1>. DEFINE Is(k, front, last) ==
       split[k] = Append(front, last) /\ FlattenSeq(Dotted(front)) \o last = SubSeq(text, 1, k)
     T == {k \in Nat : k \in 0 .. n =>
                       \E front \in Seq(Seq(Letters)), last \in Seq(Letters) : Is(k, front, last)}
<1>4. 0 \in T
  <2>1. split[0] = <<<<>>>>
    <3>1. 0 \in 0 .. n
      OBVIOUS
    <3>. QED  BY <1>3, <3>1, Zenon
  <2>2. <<>> \in Seq(Seq(Letters)) /\ <<>> \in Seq(Letters) /\ Append(<<>>, <<>>) = <<<<>>>>
    OBVIOUS
  <2>3. FlattenSeq(Dotted(<<>>)) = <<>>
    <3>1. Dotted(<<>>) = <<>>
      BY DEF Dotted
    <3>. QED  BY <3>1 DEF FlattenSeq
  <2>4. <<>> \o <<>> = <<>> /\ SubSeq(text, 1, 0) = <<>>
    OBVIOUS
  <2>5. Is(0, <<>>, <<>>)
    BY <2>1, <2>2, <2>3, <2>4, Zenon
  <2>. HIDE DEF Is
  <2>6. \E front \in Seq(Seq(Letters)), last \in Seq(Letters) : Is(0, front, last)
    BY <2>2, <2>5, Zenon
  <2>. QED  BY <2>6, Zenon
<1>5. ASSUME NEW k \in Nat, k \in T
      PROVE  k + 1 \in T
  <2>. SUFFICES ASSUME k + 1 \in 0 .. n
                PROVE  \E front \in Seq(Seq(Letters)), last \in Seq(Letters) : Is(k + 1, front, last)
    <3>1. k + 1 \in Nat
      OBVIOUS
    <3>. QED  BY <3>1, Zenon
  <2>. HIDE DEF Is
  <2>1. k \in 0 .. n /\ k + 1 \in 1 .. n /\ k + 1 # 0 /\ (k + 1) - 1 = k
    OBVIOUS
  <2>2. PICK front \in Seq(Seq(Letters)), last \in Seq(Letters) : Is(k, front, last)
    BY <1>5, <2>1, Zenon
  <2>3. split[k] = Append(front, last) /\ FlattenSeq(Dotted(front)) \o last = SubSeq(text, 1, k)
    BY <2>2, Zenon DEF Is
  <2>4. split[k + 1] = NextSplit(text, k + 1, Append(front, last))
    BY <1>3, <2>1, <2>3, Zenon
  <2>5. PICK flat \in Seq(Chars) : flat = FlattenSeq(Dotted(front))
    BY DottedAre, FlattenLaysOut
  <2>6. Append(SubSeq(text, 1, k), text[k + 1]) = SubSeq(text, 1, k + 1)
    <3>1. PICK s : s = SubSeq(text, 1, k) /\ s = [i \in 1 .. k |-> text[i]]
                /\ s \in Seq(Chars) /\ Len(s) = k
      BY <1>1, <2>1, FirstAre, ZenonT(30)
    <3>2. text[k + 1] \in Chars
      BY <1>1, <2>1
    <3>3. Append(s, text[k + 1]) = [i \in 1 .. k + 1 |-> text[i]]
      BY <3>1, <3>2
    <3>4. SubSeq(text, 1, k + 1) = [i \in 1 .. k + 1 |-> text[i]]
      <4>1. k + 1 \in 0 .. Len(text)
        BY <1>1, <2>1
      <4>. QED  BY <4>1, FirstAre, Zenon
    <3>. QED  BY <3>1, <3>3, <3>4
  <2>7. last \in Seq(Chars) /\ text[k + 1] \in Chars
    <3>1. Letters \subseteq Chars
      BY DEF Chars
    <3>. QED  BY <1>1, <2>1, <3>1
  <2>8. CASE text[k + 1] = Dot
    <3>1. PICK more : more = Append(front, last)
      OBVIOUS
    <3>2. split[k + 1] = Append(more, <<>>)
      BY <2>4, <2>8, <3>1, Zenon DEF NextSplit
    <3>3. more \in Seq(Seq(Letters)) /\ <<>> \in Seq(Letters)
      BY <3>1
    <3>4. Dotted(more) = Append(Dotted(front), last \o <<Dot>>)
      BY <3>1, DottedAppended
    <3>5. Dotted(front) \in Seq(Seq(Chars)) /\ last \o <<Dot>> \in Seq(Chars)
      BY DottedAre, DottedLabel
    <3>6. FlattenSeq(Dotted(more)) = flat \o (last \o <<Dot>>)
      BY <2>5, <3>4, <3>5, FlattenAdds
    <3>7. flat \o (last \o <<Dot>>) = (flat \o last) \o <<Dot>>
      <4>1. <<Dot>> \in Seq(Chars)
        BY DEF Chars
      <4>. QED  BY <2>7, <4>1, ConcatIsAssociative
    <3>8. FlattenSeq(Dotted(more)) = SubSeq(text, 1, k) \o <<text[k + 1]>>
      BY <2>3, <2>5, <2>8, <3>6, <3>7
    <3>9. PICK s \in Seq(Chars) : s = SubSeq(text, 1, k) /\ s = flat \o last
      <4>1. k \in 0 .. Len(text)
        BY <1>1, <2>1
      <4>2. SubSeq(text, 1, k) \in Seq(Chars)
        BY <4>1, FirstAre, Zenon
      <4>. QED  BY <2>3, <2>5, <4>2, Zenon
    <3>10. s \o <<text[k + 1]>> = Append(s, text[k + 1])
      BY <2>7
    <3>11. FlattenSeq(Dotted(more)) \o <<>> = SubSeq(text, 1, k + 1)
      <4>1. PICK u \in Seq(Chars) : u = SubSeq(text, 1, k + 1)
        <5>1. k + 1 \in 0 .. Len(text)
          BY <1>1, <2>1
        <5>. QED  BY <5>1, FirstAre, Zenon
      <4>2. u \o <<>> = u
        OBVIOUS
      <4>. QED  BY <2>6, <3>8, <3>9, <3>10, <4>1, <4>2, Zenon
    <3>12. Is(k + 1, more, <<>>)
      BY <3>2, <3>11, Zenon DEF Is
    <3>. QED  BY <3>3, <3>12, Zenon
  <2>9. CASE text[k + 1] # Dot
    <3>1. PICK letter \in Letters : letter = text[k + 1]
      BY <2>7, <2>9 DEF Chars
    <3>2. PICK long \in Seq(Letters) : long = Append(last, letter)
      BY Appended, Zenon
    <3>3. split[k + 1] = Append(front, long)
      <4>1. PICK before : before = Append(front, last)
        OBVIOUS
      <4>2. [before EXCEPT ![Len(before)] = Append(@, letter)] = Append(front, Append(last, letter))
        BY <4>1, LastGrows
      <4>3. split[k + 1] = [before EXCEPT ![Len(before)] = Append(@, letter)]
        BY <2>4, <2>9, <3>1, <4>1, Zenon DEF NextSplit
      <4>. QED  BY <3>2, <4>2, <4>3, Zenon
    <3>4. flat \o Append(last, letter) = Append(flat \o last, letter)
      <4>1. letter \in Chars
        BY DEF Chars
      <4>. QED  BY <2>7, <4>1
    <3>5. FlattenSeq(Dotted(front)) \o long = SubSeq(text, 1, k + 1)
      BY <2>3, <2>5, <2>6, <3>1, <3>2, <3>4, Zenon
    <3>6. Is(k + 1, front, long)
      BY <3>3, <3>5, Zenon DEF Is
    <3>. QED  BY <3>6, Zenon
  <2>. QED  BY <2>8, <2>9
<1>. HIDE DEF T
<1>6. Nat \subseteq T
  BY <1>4, <1>5, InductionOn
<1>7. PICK front \in Seq(Seq(Letters)), last \in Seq(Letters) : Is(n, front, last)
  <2>1. n \in T /\ n \in 0 .. n
    BY <1>6
  <2>. QED  BY <2>1, Zenon DEF T
<1>8. split[n] = Append(front, last) /\ FlattenSeq(Dotted(front)) \o last = text
  <2>1. SubSeq(text, 1, n) = text
    BY <1>1
  <2>. QED  BY <1>7, <2>1, Zenon DEF Is
<1>9. PICK more \in Seq(Seq(Letters)) : more = Append(front, last)
  BY Appended, Zenon
<1>10. PICK flat \in Seq(Chars) : flat = FlattenSeq(Dotted(front))
  BY DottedAre, FlattenLaysOut
<1>11. FlattenSeq(Dotted(more)) = flat \o (last \o <<Dot>>)
  <2>1. Dotted(more) = Append(Dotted(front), last \o <<Dot>>)
    BY <1>9, DottedAppended
  <2>2. Dotted(front) \in Seq(Seq(Chars)) /\ last \o <<Dot>> \in Seq(Chars)
    BY DottedAre, DottedLabel
  <2>. QED  BY <1>10, <2>1, <2>2, FlattenAdds
<1>12. flat \o (last \o <<Dot>>) = (flat \o last) \o <<Dot>>
  <2>1. <<Dot>> \in Seq(Chars) /\ last \in Seq(Chars)
    <3>1. Letters \subseteq Chars /\ Dot \in Chars
      BY Zenon DEF Chars
    <3>. QED  BY <3>1
  <2>. QED  BY <2>1, ConcatIsAssociative
<1>. QED  BY <1>2, <1>8, <1>9, <1>10, <1>11, <1>12

\* Texts that end alike are the same before it.
LEMMA LastIsCancelled ==
  ASSUME NEW S, NEW s \in Seq(S), NEW t \in Seq(S), NEW e \in S, s \o <<e>> = t \o <<e>>
  PROVE  s = t
<1>1. PICK m \in Nat, n \in Nat : m = Len(s) /\ n = Len(t)
  OBVIOUS
<1>2. PICK u : u = s \o <<e>> /\ u = t \o <<e>>
  OBVIOUS
<1>3. Len(u) = m + 1 /\ \A i \in 1 .. m : u[i] = s[i]
  BY <1>1, <1>2
<1>4. Len(u) = n + 1 /\ \A i \in 1 .. n : u[i] = t[i]
  BY <1>1, <1>2
<1>5. m = n
  BY <1>3, <1>4
<1>6. s = [i \in 1 .. m |-> s[i]] /\ t = [i \in 1 .. n |-> t[i]]
  BY <1>1
<1>. QED  BY <1>3, <1>4, <1>5, <1>6

\* The labels of a text are those it is written with.
LEMMA LabelsAreOfText ==
  ASSUME NEW text \in Seq(Chars), NEW labels \in Seq(Seq(Letters))
  PROVE  /\ Labels(text) = labels <=> text \o DotStark = TextOf(labels)
         /\ Labels(text) # <<>>
<1>1. PICK own \in Seq(Seq(Letters)) : own = Labels(text) /\ FlattenSeq(Dotted(own)) = text \o <<Dot>>
  BY SplitIsJoined
<1>2. PICK flat \in Seq(Chars) : flat = FlattenSeq(Dotted(labels))
  BY DottedAre, FlattenLaysOut
<1>3. TextOf(labels) = flat \o <<Tld>>
  BY <1>2, Zenon DEF TextOf, Dotted
<1>4. Dot \in Chars /\ Tld \in Chars
  BY DotIsNoLetter DEF Chars
<1>5. PICK long \in Seq(Chars) : long = text \o <<Dot>>
  <2>1. <<Dot>> \in Seq(Chars)
    BY <1>4
  <2>. QED  BY <2>1, Concatenation
<1>6. text \o DotStark = long \o <<Tld>>
  <2>1. (text \o <<Dot>>) \o <<Tld>> = text \o (<<Dot>> \o <<Tld>>)
    <3>1. <<Dot>> \in Seq(Chars) /\ <<Tld>> \in Seq(Chars)
      BY <1>4
    <3>. QED  BY <3>1, ConcatIsAssociative
  <2>2. <<Dot>> \o <<Tld>> = <<Dot, Tld>>
    <3>1. PICK s \in Seq(Chars), t \in Seq(Chars), u \in Seq(Chars) :
            s = <<Dot>> /\ t = <<Tld>> /\ u = s \o t /\ IsConcatenation(u, s, t)
      <4>1. <<Dot>> \in Seq(Chars) /\ <<Tld>> \in Seq(Chars)
        BY <1>4
      <4>. QED  BY <4>1, Concatenation, Zenon
    <3>2. Len(u) = 2 /\ u[1] = Dot /\ u[2] = Tld
      <4>1. Len(s) = 1 /\ Len(t) = 1 /\ 1 \in 1 .. 1 /\ s[1] = Dot /\ t[1] = Tld
        BY <3>1
      <4>2. u[1] = s[1] /\ u[Len(s) + 1] = t[1] /\ Len(u) = Len(s) + Len(t)
        BY <3>1, <4>1, Zenon DEF IsConcatenation
      <4>3. 1 + 1 = 2
        OBVIOUS
      <4>. QED  BY <4>1, <4>2, <4>3, Zenon
    <3>3. u = <<Dot, Tld>>
      <4>1. u = [i \in 1 .. 2 |-> u[i]]
        BY <3>1, <3>2
      <4>2. PICK v : v = <<Dot, Tld>> /\ v[1] = Dot /\ v[2] = Tld /\ v = [i \in 1 .. 2 |-> v[i]]
        <5>1. <<Dot, Tld>>[1] = Dot /\ <<Dot, Tld>>[2] = Tld
          OBVIOUS
        <5>2. <<Dot, Tld>> = [i \in 1 .. 2 |-> <<Dot, Tld>>[i]]
          OBVIOUS
        <5>. QED  BY <5>1, <5>2, Zenon
      <4>3. ASSUME NEW i \in 1 .. 2 PROVE u[i] = v[i]
        <5>1. i = 1 \/ i = 2
          OBVIOUS
        <5>. QED  BY <3>2, <4>2, <5>1
      <4>. QED  BY <4>1, <4>2, <4>3, Zenon
    <3>. QED  BY <3>1, <3>3
  <2>. QED  BY <1>5, <2>1, <2>2 DEF DotStark
<1>7. ASSUME own = labels PROVE text \o DotStark = TextOf(labels)
  BY <1>1, <1>2, <1>3, <1>5, <1>6, <1>7
<1>8. ASSUME text \o DotStark = TextOf(labels) PROVE own = labels
  <2>1. long \o <<Tld>> = flat \o <<Tld>>
    BY <1>3, <1>6, <1>8
  <2>2. long = flat
    BY <1>4, <2>1, LastIsCancelled
  <2>3. FlattenSeq(Dotted(own)) = FlattenSeq(Dotted(labels))
    BY <1>1, <1>2, <1>5, <2>2
  <2>. QED  BY <2>3, LabelsAreApart
<1>9. own # <<>>
  <2>1. Dotted(<<>>) = <<>>
    BY DEF Dotted
  <2>2. FlattenSeq(<<>>) = <<>>
    BY DEF FlattenSeq
  <2>3. long # <<>>
    <3>1. Len(long) = Len(text) + 1 /\ Len(text) \in Nat
      BY <1>4, <1>5
    <3>2. Len(long) # 0
      BY <3>1
    <3>. QED  BY <3>2
  <2>. QED  BY <1>1, <1>5, <2>1, <2>2, <2>3
<1>. QED  BY <1>1, <1>7, <1>8, <1>9

IsTail(text, i) == text[i] = Dot /\ text[i + 1] = Tld

\* Where `.stark` stands in a text.
LEMMA TailsAre ==
  ASSUME NEW S, NEW text \in Seq(S), NEW i \in 1 .. Len(text) - 1
  PROVE  SubSeq(text, i, i + 1) = DotStark <=> IsTail(text, i)
<1>1. PICK d \in Nat : i = d + 1 /\ d <= d + 2
  <2>1. i - 1 \in Nat /\ i = (i - 1) + 1
    OBVIOUS
  <2>. QED  BY <2>1
<1>2. SubSeq(text, d + 1, d + 2) = [j \in 1 .. (d + 2) - d |-> text[d + j]]
  BY <1>1, PartIs
<1>3. SubSeq(text, i, i + 1) = [j \in 1 .. 2 |-> text[d + j]]
  <2>1. d + 2 = i + 1 /\ (d + 2) - d = 2
    BY <1>1
  <2>. QED  BY <1>1, <1>2, <2>1
<1>4. PICK part : part = SubSeq(text, i, i + 1) /\ part = [j \in 1 .. 2 |-> text[d + j]]
  BY <1>3
<1>5. part[1] = text[i] /\ part[2] = text[i + 1]
  <2>1. 1 \in 1 .. 2 /\ 2 \in 1 .. 2 /\ d + 1 = i /\ d + 2 = i + 1
    BY <1>1
  <2>. QED  BY <1>4, <2>1
<1>6. PICK tail : tail = DotStark /\ tail[1] = Dot /\ tail[2] = Tld /\ tail = [j \in 1 .. 2 |-> tail[j]]
  <2>1. DotStark[1] = Dot /\ DotStark[2] = Tld
    BY DEF DotStark
  <2>2. DotStark = [j \in 1 .. 2 |-> DotStark[j]]
    BY DEF DotStark
  <2>. QED  BY <2>1, <2>2, Zenon
<1>7. ASSUME part[1] = tail[1], part[2] = tail[2] PROVE part = tail
  <2>1. ASSUME NEW j \in 1 .. 2 PROVE part[j] = tail[j]
    <3>1. j = 1 \/ j = 2
      OBVIOUS
    <3>. QED  BY <1>7, <3>1
  <2>2. part = [j \in 1 .. 2 |-> part[j]]
    BY <1>4
  <2>. QED  BY <1>6, <2>1, <2>2
<1>. QED  BY <1>4, <1>5, <1>6, <1>7 DEF IsTail

\* A text without `.stark` stays as it is.
LEMMA NoTailNoCut ==
  ASSUME NEW S, NEW text \in Seq(S), \A i \in 1 .. Len(text) - 1 : ~IsTail(text, i)
  PROVE  WithoutTail(text) = text
<1>1. {i \in 1 .. Len(text) - 1 : SubSeq(text, i, i + 1) = DotStark} = {}
  BY TailsAre
<1>. QED  BY <1>1, Zenon DEF WithoutTail

\* What is left without the first `.stark` is the text without its last two letters, if the
\* first one is the last one or all that follows it repeats it.
LEMMA TailIsCut ==
  ASSUME NEW S, NEW text \in Seq(S), NEW p \in 1 .. Len(text) - 1, IsTail(text, p),
         \A i \in 1 .. p - 1 : ~IsTail(text, i),
         \A q \in p .. Len(text) - 2 : text[q + 2] = text[q]
  PROVE  WithoutTail(text) = SubSeq(text, 1, Len(text) - 2)
<1>1. PICK n \in Nat : n = Len(text) /\ p \in 1 .. n - 1 /\ \A i \in 1 .. n : text[i] \in S
  <2>1. Len(text) \in Nat /\ \A i \in 1 .. Len(text) : text[i] \in S
    OBVIOUS
  <2>. QED  BY <2>1
<1>2. PICK tails : tails = {i \in 1 .. n - 1 : SubSeq(text, i, i + 1) = DotStark}
  OBVIOUS
<1>3. \A i \in 1 .. n - 1 : i \in tails <=> IsTail(text, i)
  BY <1>1, <1>2, TailsAre
<1>4. tails \subseteq 1 .. n - 1 /\ p \in tails /\ \A j \in tails : p <= j
  <2>1. tails \subseteq 1 .. n - 1
    BY <1>2, Zenon
  <2>2. p \in tails
    BY <1>1, <1>3, Zenon
  <2>3. ASSUME NEW j \in tails PROVE p <= j
    <3>1. j \in 1 .. n - 1 /\ IsTail(text, j)
      BY <1>3, <2>1
    <3>2. j \notin 1 .. p - 1
      BY <3>1
    <3>. QED  BY <1>1, <3>1, <3>2
  <2>. QED  BY <2>1, <2>2, <2>3
<1>5. TailToRemove(tails) = p
  <2>. DEFINE chosen == CHOOSE i \in tails : \A j \in tails : i <= j
  <2>1. TailToRemove(tails) = chosen
    BY Zenon DEF TailToRemove
  <2>2. chosen \in tails /\ \A j \in tails : chosen <= j
    BY <1>4, Zenon
  <2>3. chosen <= p /\ p <= chosen /\ chosen \in 1 .. n - 1
    BY <1>4, <2>2, Zenon
  <2>. HIDE DEF chosen
  <2>. QED  BY <1>1, <2>1, <2>3
<1>6. WithoutTail(text) = SubSeq(text, 1, p - 1) \o SubSeq(text, p + 2, n)
  <2>1. tails # {}
    BY <1>4
  <2>. QED  BY <1>1, <1>2, <1>5, <2>1, Zenon DEF WithoutTail
<1>7. PICK a \in Nat, c \in Nat : a = p - 1 /\ c = n - (p + 1) /\ a + c = n - 2 /\ a <= n /\ p + 1 <= n
  <2>1. /\ p - 1 \in Nat /\ n - (p + 1) \in Nat /\ (p - 1) + (n - (p + 1)) = n - 2
        /\ p - 1 <= n /\ p + 1 <= n
    BY <1>1
  <2>. QED  BY <2>1, Zenon
<1>8. PICK before : before = SubSeq(text, 1, a) /\ before = [i \in 1 .. a |-> text[i]]
                    /\ before \in Seq(S) /\ Len(before) = a
  <2>1. a \in 0 .. Len(text)
    BY <1>1, <1>7
  <2>. QED  BY <2>1, FirstAre
<1>9. PICK after : after = SubSeq(text, p + 2, n) /\ after = [i \in 1 .. c |-> text[(p + 1) + i]]
  <2>1. p + 1 \in Nat /\ p + 1 <= n /\ (p + 1) + 1 = p + 2
    BY <1>1
  <2>2. SubSeq(text, (p + 1) + 1, n) = [i \in 1 .. n - (p + 1) |-> text[(p + 1) + i]]
    BY <2>1, PartIs
  <2>. QED  BY <1>7, <2>1, <2>2
<1>10. after \in Seq(S) /\ Len(after) = c
  <2>1. \A i \in 1 .. c : text[(p + 1) + i] \in S
    <3>1. \A i \in 1 .. c : (p + 1) + i \in 1 .. n
      BY <1>1, <1>7
    <3>. QED  BY <1>1, <3>1
  <2>2. ASSUME NEW s, s = [i \in 1 .. c |-> s[i]], \A i \in 1 .. c : s[i] \in S
        PROVE  s \in Seq(S) /\ Len(s) = c
    BY <2>2
  <2>3. after = [i \in 1 .. c |-> after[i]] /\ \A i \in 1 .. c : after[i] \in S
    BY <1>9, <2>1, Zenon
  <2>. QED  BY <2>2, <2>3
<1>11. PICK whole \in Seq(S) : /\ whole = before \o after /\ Len(whole) = a + c
                               /\ \A i \in 1 .. a : whole[i] = before[i]
                               /\ \A i \in 1 .. c : whole[a + i] = after[i]
  <2>1. before \o after \in Seq(S) /\ IsConcatenation(before \o after, before, after)
    BY <1>8, <1>10, Concatenation
  <2>2. PICK whole \in Seq(S) : whole = before \o after /\ IsConcatenation(whole, before, after)
    BY <2>1
  <2>. QED  BY <1>8, <1>10, <2>2, Zenon DEF IsConcatenation
<1>12. ASSUME NEW i \in 1 .. n - 2 PROVE whole[i] = text[i]
  <2>1. CASE i <= a
    <3>1. i \in 1 .. a
      BY <2>1
    <3>. QED  BY <1>8, <1>11, <3>1
  <2>2. CASE i > a
    <3>1. PICK j \in 1 .. c : i = a + j /\ (p + 1) + j = i + 2 /\ i \in p .. n - 2
      <4>1. i - a \in 1 .. c /\ i = a + (i - a) /\ (p + 1) + (i - a) = i + 2 /\ i \in p .. n - 2
        BY <1>1, <1>7, <2>2
      <4>. QED  BY <4>1
    <3>2. whole[i] = text[i + 2]
      BY <1>9, <1>11, <3>1, SMTT(30)
    <3>3. text[i + 2] = text[i]
      BY <1>1, <3>1
    <3>. QED  BY <3>2, <3>3
  <2>. QED  BY <1>7, <2>1, <2>2
<1>13. SubSeq(text, 1, n - 2) = [i \in 1 .. n - 2 |-> text[i]]
  <2>1. n - 2 \in 0 .. Len(text)
    BY <1>1
  <2>. QED  BY <2>1, FirstAre
<1>14. whole = [i \in 1 .. n - 2 |-> whole[i]]
  <2>1. Len(whole) = n - 2
    BY <1>7, <1>11
  <2>2. whole = [i \in 1 .. Len(whole) |-> whole[i]]
    OBVIOUS
  <2>. QED  BY <2>1, <2>2, Zenon
<1>15. whole = SubSeq(text, 1, n - 2)
  BY <1>12, <1>13, <1>14, Zenon
<1>. QED  BY <1>1, <1>6, <1>7, <1>8, <1>9, <1>11, <1>15

\* A text of n letters is a name of m labels, the k-th of which ends before the dot at end[k].
IsNamed(text, labels, m, end, n) ==
  /\ text \in Seq(Chars) /\ text = TextOf(labels) /\ n = Len(text) /\ n >= 2
  /\ text[n - 1] = Dot /\ text[n] = Tld
  /\ end \in [0 .. m -> Nat] /\ end[0] = 0 /\ end[m] = n - 1
  /\ \A k \in 1 .. m :
       /\ end[k] = end[k - 1] + Len(labels[k]) + 1 /\ end[k] <= n - 1 /\ text[end[k]] = Dot
       /\ \A j \in 1 .. Len(labels[k]) : text[end[k - 1] + j] = labels[k][j]

\* A name begins with its labels and ends in `.stark`.
LEMMA NameIsWritten ==
  ASSUME NEW labels \in Seq(Seq(Letters)), labels # <<>>
  PROVE  \E text : \E end : \E n \in Nat : IsNamed(text, labels, Len(labels), end, n)
<1>1. PICK flat \in Seq(Chars) :
        flat = FlattenSeq(Dotted(labels)) /\ \E end : IsWritten(flat, labels, end)
  <2>1. PICK end : IsWritten(FlattenSeq(Dotted(labels)), labels, end)
    BY LabelsAreWritten
  <2>2. FlattenSeq(Dotted(labels)) \in Seq(Chars)
    BY <2>1, Zenon DEF IsWritten
  <2>. QED  BY <2>1, <2>2, Zenon
<1>2. PICK end : IsWritten(flat, labels, end)
  BY <1>1
<1>3. PICK m \in Nat, size \in Nat : m = Len(labels) /\ size = Len(flat) /\ m >= 1
  <2>1. Len(labels) \in Nat /\ Len(flat) \in Nat /\ Len(labels) >= 1
    <3>1. Len(labels) # 0
      <4>1. ASSUME NEW X, NEW s \in Seq(X), Len(s) = 0 PROVE s = <<>>
        BY <4>1
      <4>. QED  BY <4>1, Zenon
    <3>. QED  BY <3>1
  <2>. QED  BY <2>1, Zenon
<1>4. /\ end \in [0 .. m -> Nat] /\ end[0] = 0 /\ end[m] = size
      /\ \A k \in 1 .. m :
           /\ end[k] = end[k - 1] + Len(labels[k]) + 1 /\ end[k] <= size /\ flat[end[k]] = Dot
           /\ \A j \in 1 .. Len(labels[k]) : flat[end[k - 1] + j] = labels[k][j]
  BY <1>2, <1>3, Zenon DEF IsWritten
<1>5. \A k \in 1 .. m : /\ Len(labels[k]) \in Nat /\ end[k] \in Nat /\ end[k - 1] \in Nat
  <2>1. ASSUME NEW k \in 1 .. m PROVE Len(labels[k]) \in Nat /\ end[k] \in Nat /\ end[k - 1] \in Nat
    <3>1. PICK label \in Seq(Letters) : label = labels[k]
      BY <1>3
    <3>2. k \in 0 .. m /\ k - 1 \in 0 .. m
      OBVIOUS
    <3>. QED  BY <1>4, <3>1, <3>2
  <2>. QED  BY <2>1
<1>6. PICK text \in Seq(Chars) : /\ text = TextOf(labels) /\ Len(text) = size + 1 /\ text[size + 1] = Tld
                                 /\ \A i \in 1 .. size : text[i] = flat[i]
  <2>1. PICK last \in Seq(Chars) : last = <<Tld>> /\ Len(last) = 1 /\ last[1] = Tld
    <3>1. Tld \in Chars
      BY DotIsNoLetter DEF Chars
    <3>2. <<Tld>> \in Seq(Chars) /\ Len(<<Tld>>) = 1 /\ <<Tld>>[1] = Tld
      BY <3>1
    <3>. QED  BY <3>2
  <2>2. PICK text \in Seq(Chars) : text = flat \o last /\ IsConcatenation(text, flat, last)
    BY Concatenation
  <2>3. text = TextOf(labels)
    BY <1>1, <2>1, <2>2, Zenon DEF TextOf, Dotted
  <2>4. 1 \in 1 .. 1
    OBVIOUS
  <2>. QED  BY <1>3, <2>1, <2>2, <2>3, <2>4 DEF IsConcatenation
<1>7. PICK n \in Nat : n = size + 1 /\ n - 1 = size
  <2>1. size + 1 \in Nat /\ (size + 1) - 1 = size
    OBVIOUS
  <2>. QED  BY <2>1
<1>8. ASSUME NEW k \in 1 .. m
      PROVE  /\ end[k] = end[k - 1] + Len(labels[k]) + 1 /\ end[k] <= n - 1 /\ text[end[k]] = Dot
             /\ \A j \in 1 .. Len(labels[k]) : text[end[k - 1] + j] = labels[k][j]
  <2>1. PICK a \in Nat, s \in Nat, e \in Nat : a = Len(labels[k]) /\ s = end[k - 1] /\ e = end[k]
    BY <1>5
  <2>2. /\ e = s + a + 1 /\ e <= size /\ flat[e] = Dot
        /\ \A j \in 1 .. a : flat[s + j] = labels[k][j]
    BY <1>4, <2>1
  <2>3. text[e] = Dot
    <3>1. e \in 1 .. size
      BY <2>2
    <3>. QED  BY <1>6, <2>2, <3>1
  <2>4. ASSUME NEW j \in 1 .. a PROVE text[s + j] = labels[k][j]
    <3>1. s + j \in 1 .. size
      BY <2>2
    <3>. QED  BY <1>6, <2>2, <3>1
  <2>. QED  BY <1>7, <2>1, <2>2, <2>3, <2>4
<1>9. n >= 2 /\ text[n - 1] = Dot /\ text[n] = Tld /\ end[m] = n - 1
  <2>1. m \in 1 .. m
    BY <1>3
  <2>2. end[m] >= 1
    <3>1. PICK a \in Nat, s \in Nat, e \in Nat : a = Len(labels[m]) /\ s = end[m - 1] /\ e = end[m]
      BY <1>5, <2>1, Zenon
    <3>2. e = s + a + 1
      BY <1>4, <2>1, <3>1
    <3>3. e >= 1
      BY <3>2
    <3>. QED  BY <3>1, <3>3, Zenon
  <2>3. text[end[m]] = Dot
    BY <1>8, <2>1
  <2>. QED  BY <1>4, <1>6, <1>7, <2>2, <2>3
<1>10. n = Len(text)
  BY <1>6, <1>7
<1>11. IsNamed(text, labels, m, end, n)
  BY <1>4, <1>6, <1>8, <1>9, <1>10, Zenon DEF IsNamed
<1>. QED  BY <1>3, <1>11, Zenon

\* The number of a place in a name tells the label that it is in.
LEMMA PlaceIsInLabel ==
  ASSUME NEW m \in Nat \ {0}, NEW end \in [0 .. m -> Nat], end[0] = 0, NEW p \in 1 .. end[m]
  PROVE  \E i \in 1 .. m : end[i - 1] < p /\ p <= end[i]
<1>. DEFINE T == {i \in Nat : i \in 0 .. m /\ p <= end[i]}
<1>1. m \in T /\ T \in SUBSET Nat
  OBVIOUS
<1>2. PICK i \in T : \A j \in T : i <= j
  BY <1>1, LeastNatural
<1>3. i \in 0 .. m /\ p <= end[i]
  BY <1>2
<1>4. i # 0
  BY <1>3
<1>5. i \in 1 .. m /\ i - 1 \in 0 .. m /\ i - 1 \in Nat /\ i - 1 < i
  BY <1>3, <1>4
<1>6. i - 1 \notin T
  <2>1. ASSUME i - 1 \in T PROVE i <= i - 1
    BY <1>2, <2>1, Zenon
  <2>. HIDE DEF T
  <2>. QED  BY <1>5, <2>1
<1>7. ~ (p <= end[i - 1])
  BY <1>5, <1>6, Zenon
<1>8. end[i - 1] \in Nat
  BY <1>5
<1>. QED  BY <1>3, <1>5, <1>7, <1>8

\* A name that is told is split into its labels, unless it is misread.
LEMMA NameIsSplit ==
  ASSUME NEW labels \in Seq(Label), labels # <<>>, ~IsMisread(labels)
  PROVE  Labels(WithoutTail(TextOf(labels))) = labels
<1>1. labels \in Seq(Seq(Letters))
      /\ \A i \in 1 .. Len(labels) : labels[i] \in Seq(Letters) /\ labels[i] # <<>>
  BY DEF Label, Letters
<1>2. PICK m \in Nat \ {0} : m = Len(labels)
  <2>1. Len(labels) \in Nat
    OBVIOUS
  <2>2. Len(labels) # 0
    <3>1. ASSUME NEW X, NEW s \in Seq(X), Len(s) = 0 PROVE s = <<>>
      BY <3>1
    <3>. QED  BY <3>1, Zenon
  <2>. QED  BY <2>1, <2>2
<1>3. PICK text, end : \E n \in Nat : IsNamed(text, labels, m, end, n)
  BY <1>1, <1>2, NameIsWritten, Zenon
<1>4. PICK n \in Nat :
        /\ text \in Seq(Chars) /\ text = TextOf(labels) /\ n = Len(text) /\ n >= 2
        /\ text[n - 1] = Dot /\ text[n] = Tld
        /\ end \in [0 .. m -> Nat] /\ end[0] = 0 /\ end[m] = n - 1
        /\ \A k \in 1 .. m :
             /\ end[k] = end[k - 1] + Len(labels[k]) + 1 /\ end[k] <= n - 1 /\ text[end[k]] = Dot
             /\ \A j \in 1 .. Len(labels[k]) : text[end[k - 1] + j] = labels[k][j]
  BY <1>3, Zenon DEF IsNamed
<1>. DEFINE T == {i \in Nat : i \in 1 .. n - 1 /\ IsTail(text, i)}
<1>5. PICK p \in T : \A j \in T : p <= j
  <2>1. n - 1 \in T /\ T \in SUBSET Nat
    <3>1. n - 1 \in Nat /\ n - 1 \in 1 .. n - 1 /\ (n - 1) + 1 = n
      BY <1>4
    <3>. QED  BY <1>4, <3>1 DEF IsTail
  <2>. QED  BY <2>1, LeastNatural
<1>6. p \in 1 .. n - 1 /\ IsTail(text, p)
  BY <1>5
<1>7. ASSUME NEW j \in 1 .. p - 1 PROVE ~IsTail(text, j)
  <2>1. j \in Nat /\ j \in 1 .. n - 1 /\ ~(p <= j)
    BY <1>6
  <2>2. j \notin T
    BY <1>5, <2>1, Zenon
  <2>. QED  BY <2>1, <2>2, Zenon
<1>. HIDE DEF T
<1>8. PICK i \in 1 .. m : end[i - 1] < p /\ p <= end[i]
  BY <1>4, <1>6, PlaceIsInLabel
<1>9. p = end[i]
  <2>1. PICK label \in Seq(Letters), a \in Nat, s \in Nat :
          label = labels[i] /\ a = Len(label) /\ s = end[i - 1]
    <3>1. i - 1 \in 0 .. m
      OBVIOUS
    <3>2. labels[i] \in Seq(Letters) /\ Len(labels[i]) \in Nat /\ end[i - 1] \in Nat
      <4>1. labels[i] \in Seq(Letters)
        BY <1>1, <1>2, Zenon
      <4>2. ASSUME NEW s \in Seq(Letters) PROVE Len(s) \in Nat
        OBVIOUS
      <4>3. end[i - 1] \in Nat
        BY <1>4, <3>1
      <4>. QED  BY <4>1, <4>2, <4>3, Zenon
    <3>. QED  BY <3>2
  <2>2. end[i] = s + a + 1 /\ \A j \in 1 .. a : text[s + j] = label[j]
    BY <1>4, <2>1
  <2>3. ASSUME p # end[i] PROVE FALSE
    <3>1. PICK j \in 1 .. a : p = s + j
      <4>1. p - s \in 1 .. a /\ p = s + (p - s)
        <5>1. s < p /\ p <= s + a + 1 /\ p # s + a + 1
          BY <1>8, <2>1, <2>2, <2>3
        <5>. QED  BY <1>6, <5>1
      <4>. QED  BY <4>1
    <3>2. text[p] = label[j] /\ label[j] \in Letters
      BY <2>1, <2>2, <3>1
    <3>3. text[p] = Dot
      BY <1>6 DEF IsTail
    <3>. QED  BY <3>2, <3>3, DotIsNoLetter
  <2>. QED  BY <2>3
<1>10. ASSUME NEW q \in p .. n - 2
       PROVE  text[q + 2] = text[q]
  <2>1. i < m
    <3>1. p < n - 1
      BY <1>4, <1>6
    <3>2. i # m
      BY <1>4, <1>9, <3>1
    <3>. QED  BY <3>2
  <2>2. i + 1 \in 1 .. m /\ i + 1 \in 2 .. m /\ (i + 1) - 1 = i
    BY <2>1
  <2>3. PICK first \in Seq(Letters), a \in Nat \ {0} : first = labels[i + 1] /\ a = Len(first)
    <3>1. labels[i + 1] \in Seq(Letters) /\ labels[i + 1] # <<>>
      BY <1>1, <1>2, <2>2
    <3>2. ASSUME NEW s \in Seq(Letters), s # <<>> PROVE Len(s) \in Nat \ {0}
      BY <3>2
    <3>3. Len(labels[i + 1]) \in Nat \ {0}
      BY <3>1, <3>2, Zenon
    <3>. QED  BY <3>1, <3>3, Zenon
  <2>4. labels[i + 1][1] = Tld
    <3>1. 1 \in 1 .. a
      OBVIOUS
    <3>2. text[end[i] + 1] = labels[i + 1][1]
      <4>1. \A j \in 1 .. Len(labels[i + 1]) : text[end[(i + 1) - 1] + j] = labels[i + 1][j]
        BY <1>4, <2>2, Zenon
      <4>2. 1 \in 1 .. Len(labels[i + 1])
        BY <2>3, <3>1, Zenon
      <4>. QED  BY <2>2, <4>1, <4>2, Zenon
    <3>3. text[p + 1] = Tld
      BY <1>6, Zenon DEF IsTail
    <3>. QED  BY <1>9, <3>2, <3>3, Zenon
  <2>5. \A j \in i + 1 .. m : labels[j] = <<Tld>>
    BY <1>2, <2>2, <2>4, Zenon DEF IsMisread
  <2>6. ASSUME NEW k \in i + 1 .. m
        PROVE  end[k] = end[k - 1] + 2 /\ text[end[k - 1] + 1] = Tld /\ text[end[k]] = Dot
    <3>1. k \in 1 .. m /\ k - 1 \in 0 .. m
      OBVIOUS
    <3>2. labels[k] = <<Tld>>
      BY <2>5
    <3>3. Len(<<Tld>>) = 1 /\ <<Tld>>[1] = Tld /\ 1 \in 1 .. 1
      OBVIOUS
    <3>4. end[k] = end[k - 1] + 1 + 1 /\ text[end[k - 1] + 1] = Tld /\ text[end[k]] = Dot
      BY <1>4, <3>1, <3>2, <3>3, ZenonT(30)
    <3>5. end[k - 1] \in Nat
      BY <1>4, <3>1
    <3>. QED  BY <3>4, <3>5
  <2>. DEFINE U == {k \in Nat : i + k \in i .. m => end[i + k] = p + 2 * k}
  <2>7. 0 \in U
    <3>1. i + 0 = i /\ p + 2 * 0 = p
      BY <1>6
    <3>. QED  BY <1>9, <3>1
  <2>8. ASSUME NEW k \in Nat, k \in U
        PROVE  k + 1 \in U
    <3>. SUFFICES ASSUME i + (k + 1) \in i .. m
                  PROVE  end[i + (k + 1)] = p + 2 * (k + 1)
      OBVIOUS
    <3>1. i + (k + 1) \in i + 1 .. m /\ (i + (k + 1)) - 1 = i + k /\ i + k \in i .. m
      OBVIOUS
    <3>2. end[i + k] = p + 2 * k
      BY <2>8, <3>1
    <3>3. end[i + (k + 1)] = end[i + k] + 2
      BY <2>6, <3>1
    <3>. QED  BY <1>6, <3>2, <3>3
  <2>. HIDE DEF U
  <2>9. Nat \subseteq U
    BY <2>7, <2>8, InductionOn
  <2>10. \A k \in Nat : i + k \in i .. m => end[i + k] = p + 2 * k
    BY <2>9 DEF U
  <2>11. ASSUME NEW k \in Nat, i + k \in i .. m
         PROVE  /\ end[i + k] = p + 2 * k /\ text[p + 2 * k] = Dot /\ text[p + 2 * k + 1] = Tld
    <3>1. end[i + k] = p + 2 * k
      BY <2>10, <2>11
    <3>2. text[p + 2 * k] = Dot
      <4>1. i + k \in 1 .. m
        BY <2>11
      <4>. QED  BY <1>4, <3>1, <4>1
    <3>3. CASE i + k = m
      <4>1. p + 2 * k + 1 = n
        <5>1. n - 1 = p + 2 * k
          BY <1>4, <3>1, <3>3, Zenon
        <5>. QED  BY <1>4, <1>6, <5>1
      <4>. QED  BY <1>4, <3>1, <3>2, <4>1, Zenon
    <3>4. CASE i + k # m
      <4>1. (i + k) + 1 \in i + 1 .. m /\ ((i + k) + 1) - 1 = i + k
        BY <2>11, <3>4
      <4>2. text[end[i + k] + 1] = Tld
        BY <2>6, <4>1
      <4>. QED  BY <3>1, <3>2, <4>2
    <3>. QED  BY <3>3, <3>4
  <2>12. PICK c \in Nat : c = m - i /\ i + c = m /\ p + 2 * c = n - 1
    <3>1. m - i \in Nat /\ i + (m - i) = m
      BY <2>1
    <3>2. PICK c \in Nat : c = m - i /\ i + c = m /\ i + c \in i .. m
      BY <3>1
    <3>3. n - 1 = p + 2 * c
      BY <1>4, <2>10, <3>2, Zenon
    <3>. QED  BY <3>2, <3>3
  <2>13. PICK k \in Nat : q = p + 2 * k \/ q = p + 2 * k + 1
    <3>1. PICK d \in Nat : d = q - p
      <4>1. q - p \in Nat
        BY <1>6
      <4>. QED  BY <4>1
    <3>2. d \div 2 \in Nat /\ d % 2 \in 0 .. 1 /\ d = 2 * (d \div 2) + (d % 2)
      OBVIOUS
    <3>3. q = p + 2 * (d \div 2) \/ q = p + 2 * (d \div 2) + 1
      BY <1>6, <3>1, <3>2
    <3>. QED  BY <3>2, <3>3
  <2>14. i + k \in i .. m /\ i + (k + 1) \in i .. m
    <3>1. k + 1 <= c
      <4>1. p + 2 * k <= n - 2
        BY <1>6, <2>13
      <4>2. p + 2 * k < p + 2 * c
        BY <1>4, <1>6, <2>12, <4>1
      <4>. QED  BY <1>6, <4>2
    <3>. QED  BY <2>12, <3>1
  <2>15. text[p + 2 * k] = Dot /\ text[p + 2 * k + 1] = Tld
    BY <2>11, <2>14
  <2>16. text[p + 2 * (k + 1)] = Dot /\ text[p + 2 * (k + 1) + 1] = Tld
    <3>1. k + 1 \in Nat
      OBVIOUS
    <3>. QED  BY <2>11, <2>14, <3>1, Zenon
  <2>17. p + 2 * (k + 1) = (p + 2 * k) + 2 /\ p + 2 * (k + 1) + 1 = (p + 2 * k + 1) + 2
    BY <1>6
  <2>. QED  BY <2>13, <2>15, <2>16, <2>17
<1>11. PICK before \in Seq(Chars) :
         before = SubSeq(text, 1, n - 2) /\ before \o <<text[n - 1], text[n]>> = text
  BY <1>4, LastTwoAre
<1>12. WithoutTail(text) = before
  BY <1>4, <1>6, <1>7, <1>10, <1>11, TailIsCut
<1>13. before \o DotStark = TextOf(labels)
  BY <1>4, <1>11, Zenon DEF DotStark
<1>14. Labels(before) = labels
  BY <1>1, <1>13, LabelsAreOfText
<1>. QED  BY <1>4, <1>12, <1>14

\* A well-written text leads to the labels that it is of.
LEMMA TextIsSplit ==
  ASSUME NEW text \in Seq(Chars), NEW labels \in Seq(Seq(Letters)),
         \A i \in 1 .. Len(text) - 1 : SubSeq(text, i, i + 1) = DotStark => i + 1 = Len(text)
  PROVE  /\ Labels(WithoutTail(text)) = labels <=> TextIsOf(text, labels)
         /\ Labels(WithoutTail(text)) # <<>> /\ Labels(WithoutTail(text)) \in Seq(Seq(Letters))
<1>1. PICK n \in Nat : n = Len(text)
  OBVIOUS
<1>2. ASSUME NEW i \in 1 .. n - 1, IsTail(text, i) PROVE i = n - 1
  <2>1. SubSeq(text, i, i + 1) = DotStark
    BY <1>1, <1>2, TailsAre
  <2>2. i + 1 = n
    BY <1>1, <2>1
  <2>. QED  BY <2>2
<1>3. IsSuffix(DotStark, text) <=> n >= 2 /\ text[n - 1] = Dot /\ text[n] = Tld
  <2>1. IsSuffix(<<Dot, Tld>>, text)
          <=> Len(text) >= 2 /\ text[Len(text) - 1] = Dot /\ text[Len(text)] = Tld
    BY SuffixOfTwo
  <2>. QED  BY <1>1, <2>1, Zenon DEF DotStark
<1>4. CASE IsSuffix(DotStark, text)
  <2>1. n - 1 \in 1 .. n - 1 /\ (n - 1) + 1 = n /\ n - 1 \in 1 .. Len(text) - 1
    BY <1>1, <1>3, <1>4
  <2>2. IsTail(text, n - 1)
    BY <1>3, <1>4, <2>1 DEF IsTail
  <2>3. ASSUME NEW i \in 1 .. (n - 1) - 1 PROVE ~IsTail(text, i)
    <3>1. i \in 1 .. n - 1 /\ i # n - 1
      OBVIOUS
    <3>. QED  BY <1>2, <3>1
  <2>4. \A q \in n - 1 .. Len(text) - 2 : text[q + 2] = text[q]
    BY <1>1
  <2>5. WithoutTail(text) = SubSeq(text, 1, Len(text) - 2)
    BY <2>1, <2>2, <2>3, <2>4, TailIsCut
  <2>6. PICK before \in Seq(Chars) :
          before = SubSeq(text, 1, Len(text) - 2) /\ before \o <<text[n - 1], text[n]>> = text
    BY <1>1, <1>3, <1>4, LastTwoAre
  <2>7. before \o DotStark = text
    BY <1>3, <1>4, <2>6, Zenon DEF DotStark
  <2>8. TextIsOf(text, labels) <=> before \o DotStark = TextOf(labels)
    BY <1>4, <2>7, Zenon DEF TextIsOf
  <2>9. /\ Labels(before) = labels <=> before \o DotStark = TextOf(labels)
        /\ Labels(before) # <<>> /\ Labels(before) \in Seq(Seq(Letters))
    BY LabelsAreOfText, SplitIsJoined
  <2>. QED  BY <2>5, <2>6, <2>8, <2>9, Zenon
<1>5. CASE ~IsSuffix(DotStark, text)
  <2>1. ASSUME NEW i \in 1 .. Len(text) - 1 PROVE ~IsTail(text, i)
    <3>1. ASSUME IsTail(text, i) PROVE FALSE
      <4>1. i \in 1 .. n - 1
        BY <1>1
      <4>2. i = n - 1
        BY <1>2, <3>1, <4>1
      <4>3. n >= 2 /\ i + 1 = n
        BY <4>1, <4>2
      <4>. QED  BY <1>3, <1>5, <3>1, <4>2, <4>3 DEF IsTail
    <3>. QED  BY <3>1
  <2>2. WithoutTail(text) = text
    BY <2>1, NoTailNoCut
  <2>3. TextIsOf(text, labels) <=> text \o DotStark = TextOf(labels)
    BY <1>5, Zenon DEF TextIsOf
  <2>4. /\ Labels(text) = labels <=> text \o DotStark = TextOf(labels)
        /\ Labels(text) # <<>> /\ Labels(text) \in Seq(Seq(Letters))
    BY LabelsAreOfText, SplitIsJoined
  <2>. QED  BY <2>2, <2>3, <2>4, Zenon
<1>. QED  BY <1>4, <1>5

\* A domain is registered for the labels that it is of, and told with these.
LEMMA DomainsAreApart ==
  ASSUME NEW labels \in Seq(Seq(Letters))
  PROVE  /\ \A others \in Seq(Seq(Letters)) :
              RegisteredDomain(others) = RegisteredDomain(labels) => others = labels
         /\ useDecoded(RegisteredDomain(labels)) = IF labels = <<>> THEN <<>> ELSE TextOf(labels)
<1>1. ASSUME NEW list \in Seq(Seq(Letters))
      PROVE  /\ DOMAIN RegisteredDomain(list) = DOMAIN list
             /\ list = [i \in DOMAIN list |-> list[i]]
             /\ \A i \in DOMAIN list : /\ RegisteredDomain(list)[i] = useEncoded(list[i])
                                       /\ EndAfterDecoding(decodedLetters(useEncoded(list[i]))) = list[i]
  <2>1. /\ DOMAIN RegisteredDomain(list) = DOMAIN list
        /\ \A i \in DOMAIN list : RegisteredDomain(list)[i] = useEncoded(list[i])
    BY Zenon DEF RegisteredDomain
  <2>2. \A i \in DOMAIN list : list[i] \in Seq(Letters)
    OBVIOUS
  <2>3. list = [i \in DOMAIN list |-> list[i]]
    OBVIOUS
  <2>4. \A label \in Seq(Letters) : EndAfterDecoding(decodedLetters(useEncoded(label))) = label
    BY LabelIsReadBack, Zenon
  <2>. QED  BY <2>1, <2>2, <2>3, <2>4, Zenon
<1>2. ASSUME NEW others \in Seq(Seq(Letters)), RegisteredDomain(others) = RegisteredDomain(labels)
      PROVE  others = labels
  <2>1. DOMAIN others = DOMAIN labels
    BY <1>1, <1>2, Zenon
  <2>2. ASSUME NEW i \in DOMAIN labels PROVE others[i] = labels[i]
    <3>1. useEncoded(others[i]) = useEncoded(labels[i])
      <4>1. RegisteredDomain(others)[i] = useEncoded(others[i])
        BY <1>1, <2>1, Zenon
      <4>2. RegisteredDomain(labels)[i] = useEncoded(labels[i])
        BY <1>1, Zenon
      <4>. QED  BY <1>2, <4>1, <4>2, Zenon
    <3>2. others[i] = EndAfterDecoding(decodedLetters(useEncoded(others[i])))
      BY <1>1, <2>1, Zenon
    <3>3. labels[i] = EndAfterDecoding(decodedLetters(useEncoded(labels[i])))
      BY <1>1, Zenon
    <3>. QED  BY <3>1, <3>2, <3>3, Zenon
  <2>3. others = [i \in DOMAIN others |-> others[i]] /\ labels = [i \in DOMAIN labels |-> labels[i]]
    BY <1>1, Zenon
  <2>. QED  BY <2>1, <2>2, <2>3, Zenon
<1>3. RegisteredDomain(labels) = <<>> <=> labels = <<>>
  <2>1. ASSUME labels = <<>> PROVE RegisteredDomain(labels) = <<>>
    BY <2>1 DEF RegisteredDomain
  <2>2. ASSUME RegisteredDomain(labels) = <<>> PROVE labels = <<>>
    <3>1. DOMAIN labels = DOMAIN <<>> /\ DOMAIN <<>> = {}
      <4>1. DOMAIN labels = DOMAIN RegisteredDomain(labels)
        BY <1>1, Zenon
      <4>2. DOMAIN <<>> = {}
        OBVIOUS
      <4>. QED  BY <2>2, <4>1, <4>2, Zenon
    <3>2. ASSUME NEW X, NEW s \in Seq(X), DOMAIN s = {} PROVE s = <<>>
      <4>1. Len(s) \in Nat /\ DOMAIN s = 1 .. Len(s)
        OBVIOUS
      <4>2. Len(s) = 0
        <5>1. Len(s) >= 1 => 1 \in 1 .. Len(s)
          BY <4>1
        <5>. QED  BY <3>2, <4>1, <5>1
      <4>. QED  BY <4>2
    <3>. QED  BY <3>1, <3>2, Zenon
  <2>. QED  BY <2>1, <2>2
<1>4. ASSUME labels # <<>> PROVE useDecoded(RegisteredDomain(labels)) = TextOf(labels)
  <2>1. PICK encoded : encoded = RegisteredDomain(labels)
    OBVIOUS
  <2>2. useDecoded(encoded) =
          FlattenSeq([i \in DOMAIN encoded |->
                       EndAfterDecoding(decodedLetters(encoded[i])) \o <<Dot>>]) \o <<Tld>>
    BY <1>3, <1>4, <2>1, Zenon DEF useDecoded
  <2>3. [i \in DOMAIN encoded |-> EndAfterDecoding(decodedLetters(encoded[i])) \o <<Dot>>]
          = [i \in DOMAIN labels |-> labels[i] \o <<Dot>>]
    <3>1. DOMAIN encoded = DOMAIN labels
      BY <1>1, <2>1, Zenon
    <3>2. \A i \in DOMAIN labels : EndAfterDecoding(decodedLetters(encoded[i])) = labels[i]
      BY <1>1, <2>1, Zenon
    <3>. QED  BY <3>1, <3>2, Zenon
  <2>. QED  BY <2>1, <2>2, <2>3, Zenon DEF TextOf
<1>5. useDecoded(<<>>) = <<>>
  BY Zenon DEF useDecoded
<1>. QED  BY <1>2, <1>3, <1>4, <1>5, Zenon

------------------------------------------------------------------------------
(* The look-ups of names.                                                   *)

IsTold ==
  /\ answer[1] = "address" /\ job.op = "name" /\ ~IsMisread(job.labels) => answer[2] = 1
  /\ answer[1] = "address" /\ job.op = "address" /\ IsWellWritten
       => (answer[2] = 1 <=> TextIsOf(job.text, job.labels))
  /\ answer[1] = "not found" => job.labels = <<>>
  /\ answer[1] = "undeployed" => job.chain = "OTHER" /\ ~job.given
  /\ answer[1] # "could not"

\* What holds of a look-up until it is done.
NamesInv ==
  /\ job \in Jobs
  /\ step = "declare" => job.op = "declareIfNot"
  /\ step \in {"ask", "back"} /\ job.op \in {"name", "address"} => IsThere("naming")
  /\ step = "back" => /\ job.op = "name" /\ job.labels # <<>>
                      /\ answer[2] = TextOf(job.labels)
  /\ step = "done" /\ job.op \in {"name", "address"} => IsTold

\* The address of a name that was told, and that of a text.
LEMMA AddressIsTold ==
  ASSUME NEW text, job \in Jobs, job.op \in {"name", "address"},
         \/ job.op = "name" /\ job.labels # <<>> /\ text = TextOf(job.labels)
         \/ job.op = "address" /\ text = job.text
  PROVE  LET told == DomainToAddress(EncodedDomain(text))
         IN /\ job.op = "name" /\ ~IsMisread(job.labels) => told = 1
            /\ job.op = "address" /\ IsWellWritten => (told = 1 <=> TextIsOf(job.text, job.labels))
<1>1. PICK labels \in Seq(Label) : labels = job.labels
  BY ProviderAssumption DEF IsCall
<1>2. labels \in Seq(Seq(Letters))
  BY DEF Label, Letters
<1>3. PICK own : own = Labels(WithoutTail(text))
  OBVIOUS
<1>4. EncodedDomain(text) = RegisteredDomain(own)
  BY <1>3, Zenon DEF EncodedDomain, RegisteredDomain
<1>5. PICK told : told = DomainToAddress(EncodedDomain(text))
  OBVIOUS
<1>6. told = IF labels # <<>> /\ RegisteredDomain(own) = RegisteredDomain(labels) THEN 1 ELSE 0
  BY <1>1, <1>4, <1>5, Zenon DEF DomainToAddress
<1>7. CASE job.op = "name" /\ ~IsMisread(job.labels)
  <2>1. labels # <<>> /\ text = TextOf(labels) /\ ~IsMisread(labels)
    BY <1>1, <1>7
  <2>2. own = labels
    BY <1>3, <2>1, NameIsSplit
  <2>3. told = 1
    BY <1>6, <2>1, <2>2, Zenon
  <2>4. job.op # "address"
    BY <1>7
  <2>. QED  BY <1>5, <2>3, <2>4, Zenon
<1>8. CASE job.op = "address" /\ IsWellWritten
  <2>1. job.op # "name" /\ text = job.text
    BY <1>8
  <2>2. /\ text \in Seq(Basic \union Big \union {Dot, Foreign})
        /\ \A i \in DOMAIN text : text[i] # Foreign
        /\ \A i \in 1 .. Len(text) - 1 : SubSeq(text, i, i + 1) = DotStark => i + 1 = Len(text)
    <3>1. text \in Seq(Basic \union Big \union {Dot, Foreign})
      BY <1>8, <2>1, ProviderAssumption DEF IsCall
    <3>. QED  BY <1>8, <2>1, <3>1, Zenon DEF IsWellWritten
  <2>3. text \in Seq(Chars)
    <3>1. PICK n \in Nat : n = Len(text) /\ text \in [1 .. n -> Basic \union Big \union {Dot, Foreign}]
      BY <2>2
    <3>2. \A i \in 1 .. n : text[i] \in Chars
      BY <2>2, <3>1 DEF Chars, Letters
    <3>3. text \in [1 .. n -> Chars]
      BY <3>1, <3>2
    <3>. QED  BY <3>3
  <2>4. /\ own = labels <=> TextIsOf(text, labels)
        /\ own # <<>> /\ own \in Seq(Seq(Letters))
    BY <1>2, <1>3, <2>2, <2>3, TextIsSplit
  <2>5. RegisteredDomain(own) = RegisteredDomain(labels) <=> own = labels
    BY <1>2, <2>4, DomainsAreApart, Zenon
  <2>6. told = 1 <=> labels # <<>> /\ own = labels
    <3>1. 0 # 1
      OBVIOUS
    <3>. QED  BY <1>6, <2>5, <3>1, Zenon
  <2>7. told = 1 <=> TextIsOf(text, labels)
    BY <2>4, <2>6, Zenon
  <2>. QED  BY <1>1, <1>5, <2>1, <2>7, Zenon
<1>. QED  BY <1>5, <1>7, <1>8, Zenon

\* Each step of a look-up keeps it, and no other step disturbs it.
LEMMA NamesNext == NamesInv /\ [ProviderNext]_providerVars => NamesInv'
<1>. SUFFICES ASSUME NamesInv, [ProviderNext]_providerVars PROVE NamesInv'
  OBVIOUS
<1>1. job' = job
  BY DEF ProviderNext, providerVars, calling, Answered, GetChainId, GetStarkName,
    GetAddressFromStarkName, GetStarkProfile, GetEstimateFee, LookUpClass, Declare, KeepInvocation,
    LookUpDeclaration, NoAnswer, OtherDeclares
<1>2. job \in Jobs /\ (step = "declare" => job.op = "declareIfNot")
  BY DEF NamesInv
<1>3. IsThere("naming")' <=> IsThere("naming")
  BY <1>1, Zenon DEF IsThere, Contract, WhereIs
<1>4. IsWellWritten' <=> IsWellWritten
  BY <1>1, Zenon DEF IsWellWritten
<1>5. answer' = answer => (IsTold' <=> IsTold)
  BY <1>1, <1>4, Zenon DEF IsTold
<1>6. ASSUME answer' = answer, step' = step PROVE NamesInv'
  BY <1>1, <1>3, <1>5, <1>6, Zenon DEF NamesInv
<1>7. ASSUME NEW tag, Says(answer', tag), tag \notin {"address", "not found", "undeployed", "could not"}
      PROVE  IsTold'
  <2>1. answer'[1] = tag
    BY <1>7, TagIsFirst
  <2>2. tag # "address" /\ tag # "not found" /\ tag # "undeployed" /\ tag # "could not"
    BY <1>7
  <2>. QED  BY <2>1, <2>2, Zenon DEF IsTold
<1>8. ASSUME job.op \notin {"name", "address"}, step' # "back",
             step' = "declare" => job.op = "declareIfNot"
      PROVE  NamesInv'
  BY <1>1, <1>2, <1>8, Zenon DEF NamesInv
<1>9. ASSUME step' = "done", IsTold' PROVE NamesInv'
  <2>1. step' # "declare" /\ step' # "ask" /\ step' # "back"
    BY <1>9
  <2>. QED  BY <1>1, <1>2, <1>9, <2>1, Zenon DEF NamesInv
<1>10. CASE GetChainId
  <2>1. CASE job.given \/ IsDeployed(job.chain)
    <3>1. step' = "ask" /\ step' # "declare" /\ step' # "back" /\ step' # "done"
      BY <1>10, <2>1 DEF GetChainId
    <3>2. IsThere("naming")
      <4>1. CASE job.given
        BY <4>1, Zenon DEF IsThere, Contract
      <4>2. CASE ~job.given /\ IsDeployed(job.chain)
        <5>1. job.chain # "OTHER"
          <6>1. ASSUME job.chain = "OTHER" PROVE FALSE
            <7>1. ContractOf("naming", job.chain) = <<"none", job.chain>>
              BY <6>1, Zenon DEF ContractOf
            <7>2. ContractOf("naming", job.chain)[1] = "none"
              BY <7>1
            <7>. QED  BY <4>2, <7>2, Zenon DEF IsDeployed
          <6>. QED  BY <6>1
        <5>2. "naming" # "multicall"
          OBVIOUS
        <5>3. ContractOf("naming", job.chain) = <<"naming", job.chain>>
          BY <5>1, <5>2, Zenon DEF ContractOf
        <5>4. WhereIs("naming") = <<"naming", job.chain>>
          BY <5>2, Zenon DEF WhereIs
        <5>. QED  BY <4>2, <5>3, <5>4, Zenon DEF IsThere, Contract
      <4>. QED  BY <2>1, <4>1, <4>2
    <3>. QED  BY <1>1, <1>2, <1>3, <3>1, <3>2, Zenon DEF NamesInv
  <2>2. CASE ~(job.given \/ IsDeployed(job.chain))
    <3>1. step' = "done" /\ answer' = <<"undeployed">>
      BY <1>10, <2>2, Zenon DEF GetChainId, Ends
    <3>2. answer'[1] = "undeployed" /\ answer'[1] # "address" /\ answer'[1] # "not found"
          /\ answer'[1] # "could not"
      BY <3>1
    <3>3. job.chain = "OTHER" /\ ~job.given
      <4>1. ASSUME job.chain # "OTHER" PROVE FALSE
        <5>1. "naming" # "multicall"
          OBVIOUS
        <5>2. ContractOf("naming", job.chain) = <<"naming", job.chain>>
          BY <4>1, <5>1, Zenon DEF ContractOf
        <5>3. ContractOf("naming", job.chain)[1] # "none"
          BY <5>2
        <5>. QED  BY <2>2, <5>3, Zenon DEF IsDeployed
      <4>. QED  BY <2>2, <4>1
    <3>4. IsTold'
      BY <1>1, <3>2, <3>3, Zenon DEF IsTold
    <3>. QED  BY <1>9, <3>1, <3>4
  <2>. QED  BY <2>1, <2>2
<1>11. CASE GetStarkName
  <2>1. step = "ask" /\ job.op = "name" /\ IsThere("naming")
    <3>1. step = "ask" /\ job.op = "name"
      BY <1>11, Zenon DEF GetStarkName
    <3>. QED  BY <3>1 DEF NamesInv
  <2>2. PICK labels \in Seq(Label) : labels = job.labels
    BY <1>2, <2>1, ProviderAssumption DEF IsCall
  <2>3. labels \in Seq(Seq(Letters))
    BY DEF Label, Letters
  <2>4. PICK name : name = useDecoded(RegisteredDomain(job.labels))
    OBVIOUS
  <2>5. name = IF labels = <<>> THEN <<>> ELSE TextOf(labels)
    BY <2>2, <2>3, <2>4, DomainsAreApart, Zenon
  <2>6. CASE name = <<>>
    <3>1. step' = "done" /\ answer' = <<"not found">>
      BY <1>11, <2>1, <2>4, <2>6, Zenon DEF GetStarkName, Ends
    <3>2. labels = <<>>
      <4>1. ASSUME labels # <<>> PROVE name # <<>>
        <5>1. \A text \in Seq(Chars) : Len(text) >= 2 => text # <<>>
          OBVIOUS
        <5>2. PICK text, end : \E n \in Nat : IsNamed(text, labels, Len(labels), end, n)
          BY <2>3, <4>1, NameIsWritten
        <5>3. text \in Seq(Chars) /\ text = TextOf(labels) /\ Len(text) >= 2
          BY <5>2, Zenon DEF IsNamed
        <5>. QED  BY <2>5, <4>1, <5>1, <5>3, Zenon
      <4>. QED  BY <2>6, <4>1
    <3>3. answer'[1] = "not found" /\ answer'[1] # "address" /\ answer'[1] # "undeployed"
          /\ answer'[1] # "could not"
      BY <3>1
    <3>4. IsTold'
      BY <1>1, <2>2, <3>2, <3>3, Zenon DEF IsTold
    <3>. QED  BY <1>9, <3>1, <3>4
  <2>7. CASE name # <<>>
    <3>1. step' = "back" /\ answer' = <<"name", name>>
      BY <1>11, <2>1, <2>4, <2>7, Zenon DEF GetStarkName
    <3>2. step' # "declare" /\ step' # "done" /\ answer'[2] = name
      BY <3>1
    <3>3. labels # <<>> /\ name = TextOf(labels)
      BY <2>5, <2>7, Zenon
    <3>. QED  BY <1>1, <1>2, <1>3, <2>1, <2>2, <3>1, <3>2, <3>3, Zenon DEF NamesInv
  <2>. QED  BY <2>6, <2>7
<1>12. CASE GetAddressFromStarkName
  <2>1. \/ step = "ask" /\ job.op = "address"
        \/ step = "back"
    BY <1>12, Zenon DEF GetAddressFromStarkName
  <2>2. /\ job.op \in {"name", "address"} /\ IsThere("naming")
        /\ step = "back" => job.op = "name" /\ job.labels # <<>> /\ answer[2] = TextOf(job.labels)
    BY <2>1 DEF NamesInv
  <2>3. PICK text : text = AskedText
    OBVIOUS
  <2>4. \/ job.op = "name" /\ job.labels # <<>> /\ text = TextOf(job.labels)
        \/ job.op = "address" /\ text = job.text
    <3>1. CASE step = "back"
      BY <2>2, <2>3, <3>1, Zenon DEF AskedText
    <3>2. CASE step # "back"
      <4>1. job.op = "address" /\ job.op # "name"
        BY <2>1, <3>2
      <4>. QED  BY <2>3, <4>1, Zenon DEF AskedText
    <3>. QED  BY <3>1, <3>2
  <2>5. PICK told : /\ told = DomainToAddress(EncodedDomain(text))
                    /\ job.op = "name" /\ ~IsMisread(job.labels) => told = 1
                    /\ job.op = "address" /\ IsWellWritten
                         => (told = 1 <=> TextIsOf(job.text, job.labels))
    BY <1>2, <2>2, <2>4, AddressIsTold, Zenon
  <2>6. step' = "done" /\ answer' = <<"address", told>>
    BY <1>12, <2>2, <2>3, <2>5, Zenon DEF GetAddressFromStarkName, Ends
  <2>7. /\ answer'[1] = "address" /\ answer'[2] = told /\ answer'[1] # "not found"
        /\ answer'[1] # "undeployed" /\ answer'[1] # "could not"
    BY <2>6
  <2>8. IsTold'
    BY <1>1, <1>4, <2>5, <2>7, Zenon DEF IsTold
  <2>. QED  BY <1>9, <2>6, <2>8
<1>13. CASE NoAnswer
  <2>1. step' = "done" /\ Says(answer', "no answer")
    BY <1>13, Zenon DEF NoAnswer, Ends, Says
  <2>2. "no answer" \notin {"address", "not found", "undeployed", "could not"}
    OBVIOUS
  <2>3. IsTold'
    BY <1>7, <2>1, <2>2
  <2>. QED  BY <1>9, <2>1, <2>3
<1>14. CASE OtherDeclares \/ UNCHANGED calling
  <2>1. answer' = answer /\ step' = step
    BY <1>14, Zenon DEF OtherDeclares, calling
  <2>. QED  BY <1>6, <2>1
<1>15. CASE GetStarkProfile \/ GetEstimateFee \/ KeepInvocation \/ LookUpDeclaration
  <2>1. job.op \in {"profile", "estimate", "prepareInvocations"} /\ step' # "back" /\ step' # "declare"
    <3>1. ASSUME GetStarkProfile PROVE job.op = "profile" /\ step' = "done"
      BY <3>1, Zenon DEF GetStarkProfile, Ends
    <3>2. ASSUME GetEstimateFee PROVE job.op = "estimate" /\ step' = "done"
      BY <3>2, Zenon DEF GetEstimateFee, Ends
    <3>3. ASSUME NEW more, GoesOnWith(more) PROVE step' = "done" \/ step' = step
      BY <3>3, Zenon DEF GoesOnWith, Ends
    <3>4. ASSUME KeepInvocation
          PROVE  job.op = "prepareInvocations" /\ step = "start" /\ (step' = "done" \/ step' = step)
      BY <3>3, <3>4, Zenon DEF KeepInvocation, IsPreparing
    <3>5. ASSUME LookUpDeclaration
          PROVE  job.op = "prepareInvocations" /\ step = "start" /\ (step' = "done" \/ step' = step)
      BY <3>3, <3>5, Zenon DEF LookUpDeclaration, IsPreparing, Ends
    <3>. QED  BY <1>15, <3>1, <3>2, <3>4, <3>5
  <2>2. job.op \notin {"name", "address"}
    BY <2>1
  <2>. QED  BY <1>8, <2>1, <2>2
<1>16. CASE LookUpClass \/ Declare
  <2>1. job.op = "declareIfNot"
    BY <1>2, <1>16, Zenon DEF LookUpClass, Declare
  <2>2. step' = "done" \/ step' = "declare"
    BY <1>16, Zenon DEF LookUpClass, Declare, Ends
  <2>3. step' # "back" /\ job.op \notin {"name", "address"}
    BY <2>1, <2>2
  <2>. QED  BY <1>8, <2>1, <2>3
<1>. QED  BY <1>10, <1>11, <1>12, <1>13, <1>14, <1>15, <1>16 DEF ProviderNext, Answered, providerVars

\* The name that an address is told leads back to the address, and no other name does.
THEOREM NamesLeadHomeAlways == ProviderSpec => []NamesLeadHome
<1>1. ProviderInit => NamesInv
  <2>. SUFFICES ASSUME ProviderInit PROVE NamesInv
    OBVIOUS
  <2>1. job \in Jobs /\ (step = "wait" \/ step = "start")
    BY DEF ProviderInit
  <2>2. step # "declare" /\ step # "ask" /\ step # "back" /\ step # "done"
    BY <2>1
  <2>. QED  BY <2>1, <2>2, Zenon DEF NamesInv
<1>2. NamesInv => NamesLeadHome
  BY Zenon DEF NamesInv, NamesLeadHome, IsTold
<1>. QED  BY <1>1, <1>2, NamesNext, PTL DEF ProviderSpec

------------------------------------------------------------------------------
(* An answer of several parts.                                              *)

\* One list alone is joined to itself.
LEMMA OneIsJoined ==
  ASSUME NEW S, NEW s \in Seq(S)
  PROVE  FlattenSeq(<<s>>) = s
<1>1. PICK one \in Seq(Seq(S)) : one = <<s>> /\ Len(one) = 1 /\ one[1] = s
  <2>1. <<s>> \in Seq(Seq(S)) /\ Len(<<s>>) = 1 /\ <<s>>[1] = s
    OBVIOUS
  <2>. QED  BY <2>1, Zenon
<1>2. PICK f : IsJoining(f, one, 1) /\ FlattenSeq(one) = f[1]
  <2>1. Len(one) \in Nat \ {0}
    BY <1>1
  <2>. QED  BY <1>1, <2>1, FlattenIsJoined
<1>3. f[1] = one[1]
  <2>1. \A i \in 1 .. 1 : f[i] = IF i = 1 THEN one[i] ELSE f[i - 1] \o one[i]
    BY <1>2, Zenon DEF IsJoining
  <2>. QED  BY <2>1
<1>. QED  BY <1>1, <1>2, <1>3

\* Lists of one element each are joined to the list of the elements.
LEMMA SinglesAreJoined ==
  ASSUME NEW S, NEW list \in Seq(S)
  PROVE  FlattenSeq([k \in DOMAIN list |-> <<list[k]>>]) = list
<1>1. PICK n \in Nat : n = Len(list) /\ DOMAIN list = 1 .. n /\ list \in [1 .. n -> S]
  OBVIOUS
<1>2. PICK seqs : seqs = [k \in DOMAIN list |-> <<list[k]>>]
  OBVIOUS
<1>3. seqs \in Seq(Seq(S)) /\ Len(seqs) = n /\ \A k \in 1 .. n : seqs[k] = <<list[k]>>
  <2>1. seqs = [k \in 1 .. n |-> <<list[k]>>]
    BY <1>1, <1>2, Zenon
  <2>2. \A k \in 1 .. n : <<list[k]>> \in Seq(S)
    BY <1>1
  <2>3. seqs \in [1 .. n -> Seq(S)]
    BY <2>1, <2>2, Zenon
  <2>. QED  BY <2>1, <2>3
<1>4. PICK flat \in Seq(S) : flat = FlattenSeq(seqs) /\ \E end : IsLaidOut(flat, seqs, end)
  BY <1>3, FlattenLaysOut
<1>5. PICK end : IsLaidOut(flat, seqs, end)
  BY <1>4
<1>6. /\ end \in [0 .. n -> Nat] /\ end[0] = 0 /\ end[n] = Len(flat)
      /\ \A k \in 1 .. n : end[k] = end[k - 1] + 1 /\ flat[end[k - 1] + 1] = list[k]
  <2>1. /\ end \in [0 .. n -> Nat] /\ end[0] = 0 /\ end[n] = Len(flat)
        /\ \A k \in 1 .. n : /\ end[k] = end[k - 1] + Len(seqs[k])
                             /\ \A j \in 1 .. Len(seqs[k]) : flat[end[k - 1] + j] = seqs[k][j]
    BY <1>3, <1>5, Zenon DEF IsLaidOut
  <2>2. ASSUME NEW k \in 1 .. n
        PROVE  end[k] = end[k - 1] + 1 /\ flat[end[k - 1] + 1] = list[k]
    <3>1. Len(seqs[k]) = 1 /\ seqs[k][1] = list[k] /\ 1 \in 1 .. 1
      <4>1. PICK x \in S : x = list[k]
        BY <1>1
      <4>2. Len(<<x>>) = 1 /\ <<x>>[1] = x /\ 1 \in 1 .. 1
        OBVIOUS
      <4>. QED  BY <1>3, <4>1, <4>2, Zenon
    <3>. QED  BY <2>1, <3>1
  <2>. QED  BY <2>1, <2>2
<1>. DEFINE T == {k \in Nat : k \in 0 .. n => end[k] = k}
<1>7. 0 \in T
  BY <1>6
<1>8. ASSUME NEW k \in Nat, k \in T PROVE k + 1 \in T
  <2>. SUFFICES ASSUME k + 1 \in 0 .. n PROVE end[k + 1] = k + 1
    OBVIOUS
  <2>1. k \in 0 .. n /\ k + 1 \in 1 .. n /\ (k + 1) - 1 = k
    OBVIOUS
  <2>. QED  BY <1>6, <1>8, <2>1
<1>. HIDE DEF T
<1>9. \A k \in 0 .. n : end[k] = k
  <2>1. Nat \subseteq T
    BY <1>7, <1>8, InductionOn
  <2>. QED  BY <2>1 DEF T
<1>10. Len(flat) = n /\ \A k \in 1 .. n : flat[k] = list[k]
  <2>1. ASSUME NEW k \in 1 .. n PROVE flat[k] = list[k]
    <3>1. k - 1 \in 0 .. n /\ (k - 1) + 1 = k
      OBVIOUS
    <3>. QED  BY <1>6, <1>9, <3>1
  <2>. QED  BY <1>6, <1>9, <2>1
<1>11. flat = list
  BY <1>1, <1>10
<1>. QED  BY <1>2, <1>4, <1>11

\* The parts of an answer, each after its length.
WithLengths(parts) == [i \in DOMAIN parts |-> <<Len(parts[i])>> \o parts[i]]

\* The k-th part of an answer ends at 1 + end[k].
AreWithin(data, parts, end) ==
  /\ data \in Seq(Nat) /\ data[1] = Len(parts)
  /\ end \in [0 .. Len(parts) -> Nat] /\ end[0] = 0 /\ Len(data) = 1 + end[Len(parts)]
  /\ \A k \in 1 .. Len(parts) :
       /\ end[k] = end[k - 1] + 1 + Len(parts[k])
       /\ data[end[k - 1] + 2] = Len(parts[k])
       /\ \A j \in 1 .. Len(parts[k]) : data[end[k - 1] + 2 + j] = parts[k][j]

\* Where the parts of an answer stand.
LEMMA PartsAreWithin ==
  ASSUME NEW parts \in Seq(Seq(Nat))
  PROVE  \E end : AreWithin(<<Len(parts)>> \o FlattenSeq(WithLengths(parts)), parts, end)
<1>1. PICK n \in Nat : /\ n = Len(parts) /\ DOMAIN parts = 1 .. n
                       /\ \A k \in 1 .. n : parts[k] \in Seq(Nat)
  OBVIOUS
<1>2. ASSUME NEW k \in 1 .. n
      PROVE  LET row == <<Len(parts[k])>> \o parts[k]
             IN /\ row \in Seq(Nat) /\ Len(row) = 1 + Len(parts[k]) /\ row[1] = Len(parts[k])
                /\ \A j \in 1 .. Len(parts[k]) : row[1 + j] = parts[k][j]
  <2>1. PICK part \in Seq(Nat) : part = parts[k]
    BY <1>1
  <2>2. PICK one \in Seq(Nat) : one = <<Len(part)>> /\ Len(one) = 1 /\ one[1] = Len(part)
    <3>1. <<Len(part)>> \in Seq(Nat) /\ Len(<<Len(part)>>) = 1 /\ <<Len(part)>>[1] = Len(part)
      OBVIOUS
    <3>. QED  BY <3>1, Zenon
  <2>3. PICK row \in Seq(Nat) : row = one \o part /\ IsConcatenation(row, one, part)
    BY Concatenation, Zenon
  <2>4. /\ Len(row) = 1 + Len(part) /\ \A j \in 1 .. 1 : row[j] = one[j]
        /\ \A j \in 1 .. Len(part) : row[1 + j] = part[j]
    BY <2>2, <2>3, Zenon DEF IsConcatenation
  <2>5. 1 \in 1 .. 1
    OBVIOUS
  <2>. QED  BY <2>1, <2>2, <2>3, <2>4, <2>5, Zenon
<1>3. PICK rows \in Seq(Seq(Nat)) :
        /\ rows = WithLengths(parts) /\ Len(rows) = n
        /\ \A k \in 1 .. n : rows[k] = <<Len(parts[k])>> \o parts[k]
  <2>1. PICK rows : rows = WithLengths(parts) /\ rows = [k \in 1 .. n |-> <<Len(parts[k])>> \o parts[k]]
    BY <1>1, Zenon DEF WithLengths
  <2>2. rows \in [1 .. n -> Seq(Nat)]
    BY <1>2, <2>1, Zenon
  <2>3. rows \in Seq(Seq(Nat)) /\ Len(rows) = n
    BY <2>2
  <2>. QED  BY <2>1, <2>3, Zenon
<1>4. PICK flat \in Seq(Nat) : flat = FlattenSeq(rows) /\ \E end : IsLaidOut(flat, rows, end)
  BY FlattenLaysOut
<1>5. PICK end : IsLaidOut(flat, rows, end)
  BY <1>4
<1>6. /\ end \in [0 .. n -> Nat] /\ end[0] = 0 /\ end[n] = Len(flat)
      /\ \A k \in 1 .. n : /\ end[k] = end[k - 1] + Len(rows[k]) /\ end[k] <= Len(flat)
                           /\ \A j \in 1 .. Len(rows[k]) : flat[end[k - 1] + j] = rows[k][j]
  BY <1>3, <1>5, Zenon DEF IsLaidOut
<1>7. PICK data \in Seq(Nat) :
        /\ data = <<n>> \o flat /\ data[1] = n /\ Len(data) = 1 + Len(flat)
        /\ \A p \in 1 .. Len(flat) : data[1 + p] = flat[p]
  <2>1. /\ <<n>> \o flat \in Seq(Nat) /\ (<<n>> \o flat)[1] = n /\ Len(<<n>> \o flat) = 1 + Len(flat)
        /\ \A p \in 1 .. Len(flat) : (<<n>> \o flat)[1 + p] = flat[p]
    OBVIOUS
  <2>. QED  BY <2>1, Zenon
<1>8. ASSUME NEW k \in 1 .. n
      PROVE  /\ end[k] = end[k - 1] + 1 + Len(parts[k])
             /\ data[end[k - 1] + 2] = Len(parts[k])
             /\ \A j \in 1 .. Len(parts[k]) : data[end[k - 1] + 2 + j] = parts[k][j]
  <2>1. PICK e \in Nat, size \in Nat, m \in Nat : e = end[k - 1] /\ size = Len(flat) /\ m = Len(parts[k])
    <3>1. k - 1 \in 0 .. n /\ parts[k] \in Seq(Nat)
      BY <1>1
    <3>. QED  BY <1>6, <3>1, SMTT(30)
  <2>2. PICK row : /\ row = rows[k] /\ Len(row) = 1 + m /\ row[1] = m
                   /\ \A j \in 1 .. m : row[1 + j] = parts[k][j]
    <3>1. rows[k] = <<Len(parts[k])>> \o parts[k]
      BY <1>3, Zenon
    <3>. QED  BY <1>2, <2>1, <3>1, Zenon
  <2>3. /\ end[k] = e + (1 + m) /\ e + (1 + m) <= size
        /\ \A j \in 1 .. 1 + m : flat[e + j] = row[j]
    BY <1>6, <2>1, <2>2
  <2>4. \A p \in 1 .. size : data[1 + p] = flat[p]
    BY <1>7, <2>1
  <2>5. data[e + 2] = m
    <3>1. 1 \in 1 .. 1 + m /\ e + 1 \in 1 .. size /\ 1 + (e + 1) = e + 2
      BY <2>3
    <3>. QED  BY <2>2, <2>3, <2>4, <3>1, ZenonT(30)
  <2>6. ASSUME NEW j \in 1 .. m PROVE data[e + 2 + j] = parts[k][j]
    <3>1. 1 + j \in 1 .. 1 + m /\ e + (1 + j) \in 1 .. size /\ 1 + (e + (1 + j)) = e + 2 + j
      BY <2>3
    <3>2. data[1 + (e + (1 + j))] = flat[e + (1 + j)]
      BY <2>4, <3>1
    <3>3. flat[e + (1 + j)] = row[1 + j] /\ row[1 + j] = parts[k][j]
      BY <2>2, <2>3, <3>1
    <3>. QED  BY <3>1, <3>2, <3>3
  <2>7. e + (1 + m) = e + 1 + m
    OBVIOUS
  <2>. QED  BY <2>1, <2>3, <2>5, <2>6, <2>7
<1>9. AreWithin(data, parts, end)
  BY <1>1, <1>6, <1>7, <1>8 DEF AreWithin
<1>. QED  BY <1>1, <1>3, <1>4, <1>7, <1>9

\* The places that PartStarts() defines by recursion.
ArePlaces(start, data) ==
  start = [i \in 1 .. data[1] + 1 |-> IF i = 1 THEN 2 ELSE start[i - 1] + 1 + data[start[i - 1]]]

\* Where each part is looked for.
LEMMA PlacesAreFound ==
  ASSUME NEW data, NEW parts \in Seq(Seq(Nat)), NEW end, AreWithin(data, parts, end)
  PROVE  \A k \in 1 .. Len(parts) : PartStarts(data)[k] = end[k - 1] + 2
<1>1. PICK n \in Nat : n = Len(parts) /\ n = data[1] /\ \A k \in 1 .. n : parts[k] \in Seq(Nat)
  <2>1. Len(parts) \in Nat /\ \A k \in 1 .. Len(parts) : parts[k] \in Seq(Nat)
    OBVIOUS
  <2>. QED  BY <2>1, Zenon DEF AreWithin
<1>2. /\ end \in [0 .. n -> Nat] /\ end[0] = 0
      /\ \A k \in 1 .. n : /\ end[k] = end[k - 1] + 1 + Len(parts[k])
                           /\ data[end[k - 1] + 2] = Len(parts[k])
  BY <1>1, Zenon DEF AreWithin
<1>3. ASSUME NEW i \in 1 .. n + 1, i # 1
      PROVE  end[i - 1] + 2 = (end[(i - 1) - 1] + 2) + 1 + data[end[(i - 1) - 1] + 2]
  <2>1. PICK k \in 1 .. n : k = i - 1
    <3>1. i - 1 \in 1 .. n
      BY <1>3
    <3>. QED  BY <3>1
  <2>2. PICK e \in Nat, m \in Nat : e = end[k - 1] /\ m = Len(parts[k])
    <3>1. k - 1 \in 0 .. n
      OBVIOUS
    <3>2. end[k - 1] \in Nat
      BY <1>2, <3>1
    <3>3. Len(parts[k]) \in Nat
      BY <1>1
    <3>. QED  BY <3>2, <3>3, Zenon
  <2>3. end[k] = e + 1 + m /\ data[e + 2] = m
    BY <1>2, <2>2
  <2>4. (e + 1 + m) + 2 = (e + 2) + 1 + m
    OBVIOUS
  <2>. QED  BY <2>1, <2>2, <2>3, <2>4
<1>4. PICK g : g = [i \in 1 .. n + 1 |-> end[i - 1] + 2]
  OBVIOUS
<1>5. g = [i \in 1 .. n + 1 |-> IF i = 1 THEN 2 ELSE g[i - 1] + 1 + data[g[i - 1]]]
  <2>1. ASSUME NEW i \in 1 .. n + 1
        PROVE  g[i] = IF i = 1 THEN 2 ELSE g[i - 1] + 1 + data[g[i - 1]]
    <3>1. CASE i = 1
      <4>1. i - 1 = 0 /\ 0 + 2 = 2
        BY <3>1
      <4>. QED  BY <1>2, <1>4, <3>1, <4>1, Zenon
    <3>2. CASE i # 1
      <4>1. i - 1 \in 1 .. n + 1
        BY <3>2
      <4>2. g[i - 1] = end[(i - 1) - 1] + 2 /\ g[i] = end[i - 1] + 2
        BY <1>4, <4>1, Zenon
      <4>. QED  BY <1>3, <3>2, <4>2, Zenon
    <3>. QED  BY <3>1, <3>2
  <2>2. g = [i \in 1 .. n + 1 |-> g[i]]
    BY <1>4
  <2>. QED  BY <2>1, <2>2, Zenon
<1>6. PICK start : start = PartStarts(data) /\ ArePlaces(start, data)
  <2>. DEFINE chosen == CHOOSE start : ArePlaces(start, data)
  <2>1. ArePlaces(g, data)
    BY <1>1, <1>5, Zenon DEF ArePlaces
  <2>2. PartStarts(data) = chosen
    BY Zenon DEF PartStarts, ArePlaces
  <2>3. ArePlaces(chosen, data)
    BY <2>1, Zenon
  <2>. QED  BY <2>2, <2>3, Zenon
<1>7. \A i \in 1 .. n + 1 : start[i] = IF i = 1 THEN 2 ELSE start[i - 1] + 1 + data[start[i - 1]]
  BY <1>1, <1>6, Zenon DEF ArePlaces
<1>. DEFINE T == {k \in Nat : k \in 1 .. n + 1 => start[k] = end[k - 1] + 2}
<1>8. 0 \in T
  OBVIOUS
<1>9. ASSUME NEW k \in Nat, k \in T PROVE k + 1 \in T
  <2>. SUFFICES ASSUME k + 1 \in 1 .. n + 1 PROVE start[k + 1] = end[(k + 1) - 1] + 2
    OBVIOUS
  <2>1. CASE k = 0
    <3>1. k + 1 = 1 /\ (k + 1) - 1 = 0 /\ 0 + 2 = 2
      BY <2>1
    <3>2. start[k + 1] = 2
      BY <1>7, <3>1, Zenon
    <3>. QED  BY <1>2, <3>1, <3>2, Zenon
  <2>2. CASE k # 0
    <3>1. k \in 1 .. n + 1 /\ k + 1 # 1 /\ (k + 1) - 1 = k
      BY <2>2
    <3>2. start[k] = end[k - 1] + 2
      BY <1>9, <3>1
    <3>3. start[k + 1] = start[k] + 1 + data[start[k]]
      <4>1. start[k + 1] = start[(k + 1) - 1] + 1 + data[start[(k + 1) - 1]]
        BY <1>7, <3>1, Zenon
      <4>. QED  BY <3>1, <4>1, Zenon
    <3>4. end[(k + 1) - 1] + 2 = (end[((k + 1) - 1) - 1] + 2) + 1 + data[end[((k + 1) - 1) - 1] + 2]
      BY <1>3, <3>1, Zenon
    <3>5. end[k] + 2 = (end[k - 1] + 2) + 1 + data[end[k - 1] + 2]
      BY <3>1, <3>4, Zenon
    <3>. QED  BY <3>1, <3>2, <3>3, <3>5, Zenon
  <2>. QED  BY <2>1, <2>2
<1>. HIDE DEF T
<1>10. \A k \in 1 .. n : start[k] = end[k - 1] + 2
  <2>1. Nat \subseteq T
    BY <1>8, <1>9, InductionOn
  <2>2. \A k \in 1 .. n : k \in Nat /\ k \in 1 .. n + 1
    OBVIOUS
  <2>. QED  BY <2>1, <2>2 DEF T
<1>. QED  BY <1>1, <1>6, <1>10, Zenon

\* The parts are read as they were put together.
LEMMA PartsAreRead ==
  ASSUME NEW data, NEW parts \in Seq(Seq(Nat)), NEW end, AreWithin(data, parts, end)
  PROVE  FinalArray(data) = parts
<1>2. PICK n \in Nat : /\ n = Len(parts) /\ n = data[1] /\ DOMAIN parts = 1 .. n
                       /\ \A k \in 1 .. n : parts[k] \in Seq(Nat)
  <2>1. data[1] = Len(parts)
    BY Zenon DEF AreWithin
  <2>2. /\ Len(parts) \in Nat /\ DOMAIN parts = 1 .. Len(parts)
        /\ \A k \in 1 .. Len(parts) : parts[k] \in Seq(Nat)
    OBVIOUS
  <2>. QED  BY <2>1, <2>2, Zenon
<1>3. PICK start : start = PartStarts(data) /\ \A k \in 1 .. n : start[k] = end[k - 1] + 2
  <2>1. \A k \in 1 .. Len(parts) : PartStarts(data)[k] = end[k - 1] + 2
    BY PlacesAreFound
  <2>. QED  BY <1>2, <2>1, Zenon
<1>4. /\ data \in Seq(Nat) /\ end \in [0 .. n -> Nat]
      /\ \A k \in 1 .. n :
           /\ data[end[k - 1] + 2] = Len(parts[k])
           /\ \A j \in 1 .. Len(parts[k]) : data[end[k - 1] + 2 + j] = parts[k][j]
  BY <1>2, Zenon DEF AreWithin
<1>5. ASSUME NEW k \in 1 .. n
      PROVE  SubSeq(data, start[k] + 1, start[k] + data[start[k]]) = parts[k]
  <2>1. PICK part \in Seq(Nat), m \in Nat : part = parts[k] /\ m = Len(part)
    BY <1>2
  <2>2. PICK e \in Nat : e = end[k - 1] + 2
    <3>1. k - 1 \in 0 .. n
      OBVIOUS
    <3>. QED  BY <1>4, <3>1
  <2>3. start[k] = e /\ data[e] = m /\ \A j \in 1 .. m : data[e + j] = part[j]
    BY <1>3, <1>4, <2>1, <2>2, Zenon
  <2>4. PICK sub : sub = SubSeq(data, e + 1, e + m)
    OBVIOUS
  <2>5. sub = [j \in 1 .. m |-> data[e + j]]
    <3>1. PICK last \in Nat : last = e + m /\ e <= last /\ last - e = m
      <4>1. e + m \in Nat /\ e <= e + m /\ (e + m) - e = m
        OBVIOUS
      <4>. QED  BY <4>1, Zenon
    <3>2. SubSeq(data, e + 1, last) = [j \in 1 .. last - e |-> data[e + j]]
      BY <3>1, PartIs
    <3>. QED  BY <2>4, <3>1, <3>2, Zenon
  <2>6. sub = [j \in 1 .. m |-> part[j]]
    BY <2>3, <2>5, Zenon
  <2>7. part = [j \in 1 .. m |-> part[j]]
    BY <2>1
  <2>. QED  BY <2>1, <2>3, <2>4, <2>6, <2>7, Zenon
<1>6. FinalArray(data) = [k \in 1 .. n |-> SubSeq(data, start[k] + 1, start[k] + data[start[k]])]
  BY <1>2, <1>3, Zenon DEF FinalArray
<1>7. FinalArray(data) = [k \in 1 .. n |-> parts[k]]
  BY <1>5, <1>6, Zenon
<1>8. parts = [k \in 1 .. n |-> parts[k]]
  BY <1>2
<1>. QED  BY <1>2, <1>7, <1>8, Zenon

------------------------------------------------------------------------------
(* The calls for a profile, and what each of them is answered.              *)

Told(field) == VerifierData(Person.id, field)

\* The answer to the n-th call, if it is made.
PartOf(n) ==
  CASE n = 1 -> <<Len(Domain)>> \o Domain
    [] n = 2 -> <<Person.id>>
    [] n \in 3 .. 7 -> <<Told(Fields[n - 2])>>
    [] n = 8 -> <<2>> \o Person.token
    [] n = 9 -> <<Len(Person.metadata)>> \o Person.metadata

\* The last call is not made for a person without a picture contract.
AnswersUpTo(n) == IF n = 9 /\ Told("nft_pp_contract") = 0 THEN 8 ELSE n

PartsUpTo(n) == [i \in 1 .. AnswersUpTo(n) |-> PartOf(i)]

\* The fields that are asked for.
LEMMA FieldsAre ==
  /\ DOMAIN Fields = 1 .. 5
  /\ Fields[1] = "twitter" /\ Fields[2] = "github" /\ Fields[3] = "discord"
  /\ Fields[4] = "proof_of_personhood" /\ Fields[5] = "nft_pp_contract"
  /\ \A i \in 1 .. 5 : Fields[i] \in ToSet(Fields)
<1>1. DOMAIN Fields = 1 .. 5
  BY DEF Fields
<1>2. \A i \in DOMAIN Fields : Fields[i] \in ToSet(Fields)
  BY Zenon DEF ToSet
<1>. QED  BY <1>1, <1>2 DEF Fields

\* The domain of a person has as many numbers as the person has labels.
LEMMA DomainIs ==
  ASSUME IsPerson(Person)
  PROVE  Person.labels \in Seq(Seq(Letters)) /\ Domain \in Seq(Nat)
<1>1. PICK labels \in Seq(Seq(Letters)) : labels = Person.labels
  BY DEF IsPerson, Label, Letters
<1>2. PICK n \in Nat : /\ n = Len(labels) /\ DOMAIN labels = 1 .. n
                       /\ \A i \in 1 .. n : labels[i] \in Seq(Letters)
  <2>1. /\ Len(labels) \in Nat /\ DOMAIN labels = 1 .. Len(labels)
        /\ \A i \in 1 .. Len(labels) : labels[i] \in Seq(Letters)
    OBVIOUS
  <2>. QED  BY <2>1, Zenon
<1>3. Domain = [i \in 1 .. n |-> useEncoded(labels[i])]
  BY <1>1, <1>2, Zenon DEF Domain, RegisteredDomain
<1>4. \A i \in 1 .. n : useEncoded(labels[i]) \in Nat
  BY <1>2, LabelIsReadBack, Zenon
<1>5. Domain \in [1 .. n -> Nat]
  BY <1>3, <1>4, Zenon
<1>6. Domain \in Seq(Nat)
  BY <1>5
<1>. QED  BY <1>1, <1>6

\* What the network has of each field is a number.
LEMMA ToldIs ==
  ASSUME IsPerson(Person), NEW i \in 1 .. 5
  PROVE  /\ Told(Fields[i]) \in Nat
         /\ Told(Fields[i]) # 0 => Told(Fields[i]) = Person.data[Fields[i]]
<1>1. Person.data[Fields[i]] \in Nat
  BY FieldsAre DEF IsPerson
<1>2. 0 \in Nat
  OBVIOUS
<1>. QED  BY <1>1, <1>2, Zenon DEF Told, VerifierData

\* A token has two parts.
LEMMA TokenIs ==
  ASSUME NEW token \in Nat \X Nat
  PROVE  \E x \in Nat, y \in Nat :
           /\ token = <<x, y>> /\ token \in Seq(Nat)
           /\ (<<2>> \o token)[2] = x /\ (<<2>> \o token)[3] = y
<1>1. PICK x \in Nat, y \in Nat : token = <<x, y>>
  <2>1. token[1] \in Nat /\ token[2] \in Nat /\ token = <<token[1], token[2]>>
    OBVIOUS
  <2>. QED  BY <2>1, Zenon
<1>2. PICK pair \in Seq(Nat) : pair = <<x, y>> /\ Len(pair) = 2 /\ pair[1] = x /\ pair[2] = y
  <2>1. <<x, y>> \in Seq(Nat) /\ Len(<<x, y>>) = 2 /\ <<x, y>>[1] = x /\ <<x, y>>[2] = y
    OBVIOUS
  <2>. QED  BY <2>1, Zenon
<1>3. (<<2>> \o pair)[2] = pair[1] /\ (<<2>> \o pair)[3] = pair[2]
  BY <1>2
<1>. QED  BY <1>1, <1>2, <1>3, Zenon

\* The answers, one by one.
LEMMA PartsAre ==
  ASSUME IsPerson(Person)
  PROVE  /\ PartOf(1) = <<Len(Domain)>> \o Domain /\ PartOf(2) = <<Person.id>>
         /\ \A i \in 1 .. 5 : PartOf(2 + i) = <<Told(Fields[i])>>
         /\ PartOf(8) = <<2>> \o Person.token
         /\ PartOf(9) = <<Len(Person.metadata)>> \o Person.metadata
         /\ \A n \in 1 .. 9 : PartOf(n) \in Seq(Nat)
<1>1. PartOf(1) = <<Len(Domain)>> \o Domain
  BY DEF PartOf
<1>2. PartOf(2) = <<Person.id>>
  BY DEF PartOf
<1>3. ASSUME NEW i \in 1 .. 5 PROVE PartOf(2 + i) = <<Told(Fields[i])>>
  <2>1. 2 + i \in 3 .. 7 /\ (2 + i) - 2 = i /\ 2 + i # 1 /\ 2 + i # 2
    OBVIOUS
  <2>2. PartOf(2 + i) = <<Told(Fields[(2 + i) - 2])>>
    BY <2>1 DEF PartOf
  <2>. QED  BY <2>1, <2>2, Zenon
<1>4. PartOf(8) = <<2>> \o Person.token
  BY DEF PartOf
<1>5. PartOf(9) = <<Len(Person.metadata)>> \o Person.metadata
  BY DEF PartOf
<1>6. ASSUME NEW S, NEW x \in S, NEW s \in Seq(S) PROVE <<x>> \o s \in Seq(S)
  OBVIOUS
<1>7. ASSUME NEW S, NEW x \in S PROVE <<x>> \in Seq(S)
  OBVIOUS
<1>8. ASSUME NEW n \in 1 .. 9 PROVE PartOf(n) \in Seq(Nat)
  <2>1. CASE n = 1
    <3>1. Domain \in Seq(Nat)
      BY DomainIs
    <3>2. Len(Domain) \in Nat
      BY <3>1
    <3>. QED  BY <1>1, <1>6, <2>1, <3>1, <3>2, Zenon
  <2>2. CASE n = 2
    <3>1. Person.id \in Nat
      BY DEF IsPerson
    <3>. QED  BY <1>2, <1>7, <2>2, <3>1, Zenon
  <2>3. CASE n \in 3 .. 7
    <3>1. PICK i \in 1 .. 5 : n = 2 + i
      <4>1. n - 2 \in 1 .. 5 /\ n = 2 + (n - 2)
        BY <2>3
      <4>. QED  BY <4>1, Zenon
    <3>2. Told(Fields[i]) \in Nat
      BY ToldIs
    <3>. QED  BY <1>3, <1>7, <3>1, <3>2, Zenon
  <2>4. CASE n = 8
    <3>1. PICK token \in Nat \X Nat : token = Person.token
      BY Zenon DEF IsPerson
    <3>2. token \in Seq(Nat) /\ 2 \in Nat
      BY TokenIs
    <3>. QED  BY <1>4, <1>6, <2>4, <3>1, <3>2, Zenon
  <2>5. CASE n = 9
    <3>1. Person.metadata \in Seq(Nat)
      BY DEF IsPerson
    <3>2. Len(Person.metadata) \in Nat
      BY <3>1
    <3>. QED  BY <1>5, <1>6, <2>5, <3>1, <3>2, Zenon
  <2>. QED  BY <2>1, <2>2, <2>3, <2>4, <2>5
<1>. QED  BY <1>1, <1>2, <1>3, <1>4, <1>5, <1>8, Zenon

\* The first n answers.
LEMMA FirstPartsAre ==
  ASSUME IsPerson(Person), NEW n \in 0 .. 9
  PROVE  /\ PartsUpTo(n) \in Seq(Seq(Nat)) /\ Len(PartsUpTo(n)) = AnswersUpTo(n)
         /\ \A i \in 1 .. AnswersUpTo(n) : PartsUpTo(n)[i] = PartOf(i)
<1>1. PICK m \in 0 .. 9 : m = AnswersUpTo(n)
  <2>1. AnswersUpTo(n) \in 0 .. 9
    BY DEF AnswersUpTo
  <2>. QED  BY <2>1, Zenon
<1>2. PICK parts : parts = PartsUpTo(n) /\ parts = [i \in 1 .. m |-> PartOf(i)]
  BY <1>1, Zenon DEF PartsUpTo
<1>3. parts \in [1 .. m -> Seq(Nat)]
  <2>1. \A i \in 1 .. m : PartOf(i) \in Seq(Nat)
    <3>1. \A i \in 1 .. m : i \in 1 .. 9
      OBVIOUS
    <3>. QED  BY <3>1, PartsAre, Zenon
  <2>. QED  BY <1>2, <2>1, Zenon
<1>4. parts \in Seq(Seq(Nat)) /\ Len(parts) = m
  BY <1>3
<1>. QED  BY <1>1, <1>2, <1>4, Zenon

\* One answer more.
LEMMA NextPart ==
  ASSUME IsPerson(Person), NEW n \in 1 .. 9, n # 9 \/ Told("nft_pp_contract") # 0
  PROVE  Append(PartsUpTo(n - 1), PartOf(n)) = PartsUpTo(n)
<1>1. PICK k \in 0 .. 9 : k = n - 1 /\ AnswersUpTo(k) = n - 1 /\ AnswersUpTo(n) = n /\ n \in 0 .. 9
  <2>1. n - 1 \in 0 .. 9 /\ n \in 0 .. 9 /\ n - 1 # 9
    OBVIOUS
  <2>2. AnswersUpTo(n - 1) = n - 1 /\ AnswersUpTo(n) = n
    BY <2>1, Zenon DEF AnswersUpTo
  <2>. QED  BY <2>1, <2>2, Zenon
<1>2. PICK before \in Seq(Seq(Nat)), part \in Seq(Nat), after \in Seq(Seq(Nat)) :
        before = PartsUpTo(k) /\ part = PartOf(n) /\ after = PartsUpTo(n)
  <2>1. PartsUpTo(k) \in Seq(Seq(Nat)) /\ PartsUpTo(n) \in Seq(Seq(Nat))
    BY <1>1, FirstPartsAre, Zenon
  <2>2. PartOf(n) \in Seq(Nat)
    BY PartsAre, Zenon
  <2>. QED  BY <2>1, <2>2, Zenon
<1>3. /\ Len(before) = n - 1 /\ \A i \in 1 .. n - 1 : before[i] = PartOf(i)
      /\ Len(after) = n /\ \A i \in 1 .. n : after[i] = PartOf(i)
  BY <1>1, <1>2, FirstPartsAre, Zenon
<1>4. Len(Append(before, part)) = n /\ \A i \in 1 .. n : Append(before, part)[i] = PartOf(i)
  BY <1>2, <1>3
<1>5. Append(before, part) = after
  BY <1>3, <1>4
<1>. QED  BY <1>1, <1>2, <1>5, Zenon

\* The calls, one by one.
LEMMA CallsAre ==
  ASSUME NEW contract, NEW calls, calls = ProfileCalls(1, contract)
  PROVE  /\ Len(calls) = 9
         /\ calls[1] = [when |-> Always, to |-> Hardcoded(contract["naming"]),
                        selector |-> "address_to_domain",
                        args |-> <<Hardcoded(1), Hardcoded(0)>>]
         /\ calls[2] = [when |-> Always, to |-> Hardcoded(contract["naming"]),
                        selector |-> "domain_to_id", args |-> <<ArrayReference(0, 0)>>]
         /\ \A i \in 1 .. 5 : calls[2 + i] = FieldCall(Fields[i], contract)
         /\ calls[8] = [when |-> Always, to |-> Hardcoded(contract["identity"]),
                        selector |-> "get_extended_verifier_data",
                        args |-> <<IdReference, Hardcoded("nft_pp_id"), Hardcoded(2),
                                   Hardcoded(VerifierOf("nft_pp_id", contract)), Hardcoded(0)>>]
         /\ calls[9] = [when |-> IfNotEqual(6, 0, 0), to |-> Reference(6, 0), selector |-> "tokenURI",
                        args |-> <<Reference(7, 1), Reference(7, 2)>>]
<1>1. PICK fields : fields = [i \in DOMAIN Fields |-> FieldCall(Fields[i], contract)]
  OBVIOUS
<1>2. DOMAIN fields = 1 .. 5 /\ \A i \in 1 .. 5 : fields[i] = FieldCall(Fields[i], contract)
  BY <1>1, FieldsAre, Zenon
<1>3. PICK a : a = [when |-> Always, to |-> Hardcoded(contract["naming"]),
                    selector |-> "address_to_domain", args |-> <<Hardcoded(1), Hardcoded(0)>>]
  OBVIOUS
<1>4. PICK b : b = [when |-> Always, to |-> Hardcoded(contract["naming"]),
                    selector |-> "domain_to_id", args |-> <<ArrayReference(0, 0)>>]
  OBVIOUS
<1>5. PICK c : c = [when |-> Always, to |-> Hardcoded(contract["identity"]),
                    selector |-> "get_extended_verifier_data",
                    args |-> <<IdReference, Hardcoded("nft_pp_id"), Hardcoded(2),
                               Hardcoded(VerifierOf("nft_pp_id", contract)), Hardcoded(0)>>]
  OBVIOUS
<1>6. PICK d : d = [when |-> IfNotEqual(6, 0, 0), to |-> Reference(6, 0), selector |-> "tokenURI",
                    args |-> <<Reference(7, 1), Reference(7, 2)>>]
  OBVIOUS
<1>7. calls = <<a, b>> \o fields \o <<c, d>>
  BY <1>1, <1>3, <1>4, <1>5, <1>6, Zenon DEF ProfileCalls
<1>8. PICK S : a \in S /\ b \in S /\ c \in S /\ d \in S /\ \A i \in 1 .. 5 : fields[i] \in S
  <2>1. PICK S : S = {a, b, c, d} \union {fields[i] : i \in 1 .. 5}
    OBVIOUS
  <2>. QED  BY <2>1
<1>9. fields \in [1 .. 5 -> S]
  <2>1. fields = [i \in 1 .. 5 |-> FieldCall(Fields[i], contract)]
    BY <1>1, FieldsAre, Zenon
  <2>. QED  BY <1>2, <1>8, <2>1, Zenon
<1>10. /\ Len(calls) = 9 /\ calls[1] = a /\ calls[2] = b /\ calls[8] = c /\ calls[9] = d
       /\ \A i \in 1 .. 5 : calls[2 + i] = fields[i]
  <2>1. PICK before \in Seq(S), amid \in Seq(S), after \in Seq(S) :
          /\ before = <<a, b>> /\ Len(before) = 2 /\ before[1] = a /\ before[2] = b
          /\ amid = fields /\ Len(amid) = 5
          /\ after = <<c, d>> /\ Len(after) = 2 /\ after[1] = c /\ after[2] = d
    <3>1. /\ <<a, b>> \in Seq(S) /\ Len(<<a, b>>) = 2 /\ <<a, b>>[1] = a /\ <<a, b>>[2] = b
          /\ <<c, d>> \in Seq(S) /\ Len(<<c, d>>) = 2 /\ <<c, d>>[1] = c /\ <<c, d>>[2] = d
      BY <1>8
    <3>2. PICK n \in Nat : n = 5
      OBVIOUS
    <3>3. ASSUME NEW f \in [1 .. n -> S] PROVE f \in Seq(S) /\ Len(f) = n
      OBVIOUS
    <3>4. fields \in Seq(S) /\ Len(fields) = 5
      BY <1>9, <3>2, <3>3, Zenon
    <3>. QED  BY <3>1, <3>4, Zenon
  <2>2. PICK seven \in Seq(S) : /\ seven = before \o amid /\ Len(seven) = 7
                                /\ seven[1] = before[1] /\ seven[2] = before[2]
                                /\ \A i \in 1 .. 5 : seven[2 + i] = amid[i]
    <3>1. before \o amid \in Seq(S) /\ IsConcatenation(before \o amid, before, amid)
      BY Concatenation
    <3>2. PICK seven \in Seq(S) : seven = before \o amid /\ IsConcatenation(seven, before, amid)
      BY <3>1, Zenon
    <3>3. /\ Len(seven) = 2 + 5 /\ \A j \in 1 .. 2 : seven[j] = before[j]
          /\ \A j \in 1 .. 5 : seven[2 + j] = amid[j]
      BY <2>1, <3>2, Zenon DEF IsConcatenation
    <3>4. 2 + 5 = 7 /\ 1 \in 1 .. 2 /\ 2 \in 1 .. 2
      OBVIOUS
    <3>. QED  BY <3>2, <3>3, <3>4, Zenon
  <2>3. PICK list : /\ list = seven \o after /\ Len(list) = 9 /\ list[8] = after[1] /\ list[9] = after[2]
                    /\ \A i \in 1 .. 7 : list[i] = seven[i]
    <3>1. PICK list : list = seven \o after /\ IsConcatenation(list, seven, after)
      BY Concatenation, Zenon
    <3>2. /\ Len(list) = 7 + 2 /\ \A j \in 1 .. 7 : list[j] = seven[j]
          /\ \A j \in 1 .. 2 : list[7 + j] = after[j]
      BY <2>1, <2>2, <3>1, ZenonT(30) DEF IsConcatenation
    <3>3. 7 + 2 = 9 /\ 7 + 1 = 8 /\ 1 \in 1 .. 2 /\ 2 \in 1 .. 2
      OBVIOUS
    <3>. QED  BY <3>1, <3>2, <3>3, ZenonT(30)
  <2>4. list[1] = seven[1] /\ list[2] = seven[2] /\ \A i \in 1 .. 5 : list[2 + i] = seven[2 + i]
    <3>1. 1 \in 1 .. 7 /\ 2 \in 1 .. 7 /\ \A i \in 1 .. 5 : 2 + i \in 1 .. 7
      OBVIOUS
    <3>. QED  BY <2>3, <3>1, Zenon
  <2>. QED  BY <1>7, <2>1, <2>2, <2>3, <2>4, ZenonT(30)
<1>. QED  BY <1>2, <1>3, <1>4, <1>5, <1>6, <1>10, Zenon

\* An answer is added to those that are there.
LEMMA AnswerIsAdded ==
  ASSUME NEW results, NEW call, NEW args, NEW told,
         args = FlattenSeq([k \in DOMAIN call.args |-> ArgumentOf(call.args[k], results)]),
         IsExecuted(call, results), ContractKnows(call, results),
         ContractAnswers(call, args) = told
  PROVE  WithAnswer(results, call) = Append(results, told)
BY Zenon DEF WithAnswer

\* What an argument stands for.
LEMMA ArgumentsAre ==
  ASSUME NEW results
  PROVE  /\ \A value : ArgumentOf(Hardcoded(value), results) = <<value>>
         /\ \A i, j : ArgumentOf(Reference(i, j), results) = <<results[i + 1][j + 1]>>
         /\ \A i, j : ArgumentOf(ArrayReference(i, j), results) =
                        SubSeq(results[i + 1], j + 1, j + 1 + results[i + 1][j + 1])
BY DEF ArgumentOf, Hardcoded, Reference, ArrayReference

\* The domain of the address.
LEMMA DomainIsAnswered ==
  ASSUME IsPerson(Person), NEW results, NEW call, call.when = Always,
         call.selector = "address_to_domain"
  PROVE  WithAnswer(results, call) = Append(results, PartOf(1))
<1>1. IsExecuted(call, results)
  BY Zenon DEF IsExecuted
<1>2. call.selector # "tokenURI"
  OBVIOUS
<1>3. ContractKnows(call, results)
  BY <1>2, Zenon DEF ContractKnows
<1>4. PICK args : args = FlattenSeq([k \in DOMAIN call.args |-> ArgumentOf(call.args[k], results)])
  OBVIOUS
<1>5. ContractAnswers(call, args) = <<Len(Domain)>> \o Domain
  BY DEF ContractAnswers
<1>6. ContractAnswers(call, args) = PartOf(1)
  BY <1>5, PartsAre, Zenon
<1>. QED  BY <1>1, <1>3, <1>4, <1>6, AnswerIsAdded, Zenon

\* The id of the domain, which is given back as it was told.
LEMMA IdIsAnswered ==
  ASSUME IsPerson(Person), NEW results, NEW call, call.when = Always,
         call.selector = "domain_to_id", call.args = <<ArrayReference(0, 0)>>,
         results[1] = PartOf(1)
  PROVE  WithAnswer(results, call) = Append(results, PartOf(2))
<1>1. IsExecuted(call, results)
  BY Zenon DEF IsExecuted
<1>2. call.selector # "tokenURI"
  OBVIOUS
<1>3. ContractKnows(call, results)
  BY <1>2, Zenon DEF ContractKnows
<1>4. PICK args : args = FlattenSeq([k \in DOMAIN call.args |-> ArgumentOf(call.args[k], results)])
  OBVIOUS
<1>5. PICK domain \in Seq(Nat) : domain = Domain
  BY DomainIs
<1>6. PICK told \in Seq(Nat) : told = PartOf(1) /\ told = <<Len(domain)>> \o domain
  <2>1. 1 \in 1 .. 9
    OBVIOUS
  <2>. QED  BY <1>5, <2>1, PartsAre, Zenon
<1>7. Len(told) = 1 + Len(domain) /\ told[1] = Len(domain)
  BY <1>6
<1>8. SubSeq(told, 1, Len(told)) = told
  OBVIOUS
<1>9. ArgumentOf(ArrayReference(0, 0), results) = told
  <2>1. 0 + 1 = 1 /\ 0 + 1 + told[0 + 1] = Len(told)
    BY <1>7
  <2>2. ArgumentOf(ArrayReference(0, 0), results) =
          SubSeq(results[0 + 1], 0 + 1, 0 + 1 + results[0 + 1][0 + 1])
    <3>1. \A i, j : ArgumentOf(ArrayReference(i, j), results) =
                      SubSeq(results[i + 1], j + 1, j + 1 + results[i + 1][j + 1])
      BY ArgumentsAre, Zenon
    <3>. QED  BY <3>1, Zenon
  <2>3. results[0 + 1] = told
    BY <1>6, <2>1
  <2>. QED  BY <1>8, <2>1, <2>2, <2>3, Zenon
<1>10. args = told
  <2>1. PICK arg : arg = ArrayReference(0, 0)
    OBVIOUS
  <2>2. DOMAIN <<arg>> = 1 .. 1 /\ <<arg>>[1] = arg /\ \A k \in 1 .. 1 : k = 1
    OBVIOUS
  <2>3. [k \in DOMAIN <<arg>> |-> ArgumentOf(<<arg>>[k], results)] = [k \in 1 .. 1 |-> told]
    BY <1>9, <2>1, <2>2, Zenon
  <2>4. [k \in 1 .. 1 |-> told] = <<told>>
    OBVIOUS
  <2>. QED  BY <1>4, <2>1, <2>3, <2>4, OneIsJoined, Zenon
<1>11. ContractAnswers(call, args) = <<Person.id>>
  <2>1. args = <<Len(Domain)>> \o Domain
    BY <1>5, <1>6, <1>10, Zenon
  <2>2. ContractAnswers(call, args) = <<IF args = <<Len(Domain)>> \o Domain THEN Person.id ELSE 0>>
    BY DEF ContractAnswers
  <2>. QED  BY <2>1, <2>2, Zenon
<1>12. ContractAnswers(call, args) = PartOf(2)
  BY <1>11, PartsAre, Zenon
<1>. QED  BY <1>1, <1>3, <1>4, <1>12, AnswerIsAdded, Zenon

\* Arguments that stand for one value each.
LEMMA ValuesAreArguments ==
  ASSUME NEW results, NEW S, NEW values \in Seq(S), NEW given, DOMAIN given = DOMAIN values,
         \A k \in DOMAIN given : ArgumentOf(given[k], results) = <<values[k]>>
  PROVE  FlattenSeq([k \in DOMAIN given |-> ArgumentOf(given[k], results)]) = values
<1>1. [k \in DOMAIN given |-> ArgumentOf(given[k], results)] = [k \in DOMAIN values |-> <<values[k]>>]
  BY Zenon
<1>. QED  BY <1>1, SinglesAreJoined, Zenon

\* The id that was told is what a later call refers to.
LEMMA IdIsReferred ==
  ASSUME IsPerson(Person), NEW results, results[2] = PartOf(2)
  PROVE  ArgumentOf(IdReference, results) = <<Person.id>>
<1>1. ArgumentOf(IdReference, results) = <<results[1 + 1][0 + 1]>>
  <2>1. \A i, j : ArgumentOf(Reference(i, j), results) = <<results[i + 1][j + 1]>>
    BY ArgumentsAre, Zenon
  <2>. QED  BY <2>1, Zenon DEF IdReference
<1>2. PICK id : id = Person.id
  OBVIOUS
<1>3. results[2] = <<id>>
  BY <1>2, PartsAre, Zenon
<1>4. results[1 + 1][0 + 1] = id
  BY <1>3
<1>. QED  BY <1>1, <1>2, <1>4, Zenon

\* A field of the data.
LEMMA FieldIsAnswered ==
  ASSUME IsPerson(Person), NEW contract, NEW results, NEW i \in 1 .. 5, NEW call,
         call = FieldCall(Fields[i], contract), results[2] = PartOf(2)
  PROVE  WithAnswer(results, call) = Append(results, PartOf(2 + i))
<1>1. call.when = Always /\ call.selector = "get_verifier_data" /\ call.selector # "tokenURI"
  BY DEF FieldCall
<1>2. IsExecuted(call, results) /\ ContractKnows(call, results)
  BY <1>1, Zenon DEF IsExecuted, ContractKnows
<1>3. PICK id, field, verifier :
        id = Person.id /\ field = Fields[i] /\ verifier = VerifierOf(Fields[i], contract)
  OBVIOUS
<1>4. call.args = <<IdReference, Hardcoded(field), Hardcoded(verifier), Hardcoded(0)>>
  BY <1>3 DEF FieldCall
<1>5. PICK S : S = {id, field, verifier, 0}
  OBVIOUS
<1>6. PICK values \in Seq(S) :
        /\ values = <<id, field, verifier, 0>> /\ DOMAIN values = 1 .. 4
        /\ values[1] = id /\ values[2] = field /\ values[3] = verifier /\ values[4] = 0
  <2>1. <<id, field, verifier, 0>> \in Seq(S)
    BY <1>5
  <2>2. PICK values : values = <<id, field, verifier, 0>>
    OBVIOUS
  <2>3. /\ DOMAIN values = 1 .. 4
        /\ values[1] = id /\ values[2] = field /\ values[3] = verifier /\ values[4] = 0
    BY <2>2
  <2>. QED  BY <2>1, <2>2, <2>3, Zenon
<1>7. PICK args : args = FlattenSeq([k \in DOMAIN call.args |-> ArgumentOf(call.args[k], results)])
  OBVIOUS
<1>8. args = values
  <2>1. /\ ArgumentOf(IdReference, results) = <<id>> /\ ArgumentOf(Hardcoded(field), results) = <<field>>
        /\ ArgumentOf(Hardcoded(verifier), results) = <<verifier>>
        /\ ArgumentOf(Hardcoded(0), results) = <<0>>
    BY <1>3, IdIsReferred, ArgumentsAre, Zenon
  <2>2. PICK a, b, c, d : /\ a = IdReference /\ b = Hardcoded(field) /\ c = Hardcoded(verifier)
                          /\ d = Hardcoded(0)
    OBVIOUS
  <2>3. call.args = <<a, b, c, d>>
    BY <1>4, <2>2, Zenon
  <2>4. /\ DOMAIN call.args = 1 .. 4 /\ call.args[1] = a /\ call.args[2] = b /\ call.args[3] = c
        /\ call.args[4] = d
    BY <2>3
  <2>5. ASSUME NEW k \in 1 .. 4 PROVE ArgumentOf(call.args[k], results) = <<values[k]>>
    <3>1. k = 1 \/ k = 2 \/ k = 3 \/ k = 4
      OBVIOUS
    <3>. QED  BY <1>6, <2>1, <2>2, <2>4, <3>1, Zenon
  <2>6. PICK given : given = call.args
    OBVIOUS
  <2>7. /\ DOMAIN given = DOMAIN values
        /\ \A k \in DOMAIN given : ArgumentOf(given[k], results) = <<values[k]>>
    BY <1>6, <2>4, <2>5, <2>6, Zenon
  <2>8. FlattenSeq([k \in DOMAIN given |-> ArgumentOf(given[k], results)]) = values
    BY <2>7, ValuesAreArguments, Zenon
  <2>. QED  BY <1>7, <2>6, <2>8, Zenon
<1>9. ContractAnswers(call, args) = <<Told(Fields[i])>>
  <2>1. ContractAnswers(call, args) = <<VerifierData(args[1], args[2])>>
    BY <1>1 DEF ContractAnswers
  <2>. QED  BY <1>3, <1>6, <1>8, <2>1, Zenon DEF Told
<1>10. ContractAnswers(call, args) = PartOf(2 + i)
  BY <1>9, PartsAre, Zenon
<1>. QED  BY <1>2, <1>7, <1>10, AnswerIsAdded, Zenon

\* The token of the picture.
LEMMA TokenIsAnswered ==
  ASSUME IsPerson(Person), NEW results, NEW call, NEW verifier, call.when = Always,
         call.selector = "get_extended_verifier_data",
         call.args = <<IdReference, Hardcoded("nft_pp_id"), Hardcoded(2), Hardcoded(verifier),
                       Hardcoded(0)>>,
         results[2] = PartOf(2)
  PROVE  WithAnswer(results, call) = Append(results, PartOf(8))
<1>1. call.selector # "tokenURI"
  OBVIOUS
<1>2. IsExecuted(call, results) /\ ContractKnows(call, results)
  BY <1>1, Zenon DEF IsExecuted, ContractKnows
<1>3. PICK id : id = Person.id
  OBVIOUS
<1>4. PICK S : S = {id, "nft_pp_id", 2, verifier, 0}
  OBVIOUS
<1>5. PICK values \in Seq(S) :
        /\ values = <<id, "nft_pp_id", 2, verifier, 0>> /\ DOMAIN values = 1 .. 5
        /\ values[1] = id /\ values[2] = "nft_pp_id" /\ values[3] = 2 /\ values[4] = verifier
        /\ values[5] = 0
  <2>1. <<id, "nft_pp_id", 2, verifier, 0>> \in Seq(S)
    BY <1>4
  <2>2. PICK values : values = <<id, "nft_pp_id", 2, verifier, 0>>
    OBVIOUS
  <2>3. /\ DOMAIN values = 1 .. 5
        /\ values[1] = id /\ values[2] = "nft_pp_id" /\ values[3] = 2 /\ values[4] = verifier
        /\ values[5] = 0
    BY <2>2
  <2>. QED  BY <2>1, <2>2, <2>3, Zenon
<1>6. PICK args : args = FlattenSeq([k \in DOMAIN call.args |-> ArgumentOf(call.args[k], results)])
  OBVIOUS
<1>7. args = values
  <2>1. /\ ArgumentOf(IdReference, results) = <<id>>
        /\ ArgumentOf(Hardcoded("nft_pp_id"), results) = <<"nft_pp_id">>
        /\ ArgumentOf(Hardcoded(2), results) = <<2>>
        /\ ArgumentOf(Hardcoded(verifier), results) = <<verifier>>
        /\ ArgumentOf(Hardcoded(0), results) = <<0>>
    BY <1>3, IdIsReferred, ArgumentsAre, Zenon
  <2>2. PICK a, b, c, d, e : /\ a = IdReference /\ b = Hardcoded("nft_pp_id") /\ c = Hardcoded(2)
                             /\ d = Hardcoded(verifier) /\ e = Hardcoded(0)
    OBVIOUS
  <2>3. PICK given : given = call.args /\ given = <<a, b, c, d, e>>
    BY <2>2, Zenon
  <2>4. /\ DOMAIN given = 1 .. 5 /\ given[1] = a /\ given[2] = b /\ given[3] = c /\ given[4] = d
        /\ given[5] = e
    BY <2>3
  <2>5. ASSUME NEW k \in 1 .. 5 PROVE ArgumentOf(given[k], results) = <<values[k]>>
    <3>1. k = 1 \/ k = 2 \/ k = 3 \/ k = 4 \/ k = 5
      OBVIOUS
    <3>. QED  BY <1>5, <2>1, <2>2, <2>4, <3>1, Zenon
  <2>6. /\ DOMAIN given = DOMAIN values
        /\ \A k \in DOMAIN given : ArgumentOf(given[k], results) = <<values[k]>>
    BY <1>5, <2>4, <2>5, Zenon
  <2>7. FlattenSeq([k \in DOMAIN given |-> ArgumentOf(given[k], results)]) = values
    BY <2>6, ValuesAreArguments, Zenon
  <2>. QED  BY <1>6, <2>3, <2>7, Zenon
<1>8. ContractAnswers(call, args) = <<2>> \o Person.token
  <2>1. args[1] = Person.id
    BY <1>3, <1>5, <1>7, Zenon
  <2>2. ContractAnswers(call, args) = IF args[1] = Person.id THEN <<2>> \o Person.token ELSE <<2, 0, 0>>
    BY DEF ContractAnswers
  <2>. QED  BY <2>1, <2>2, Zenon
<1>9. ContractAnswers(call, args) = PartOf(8)
  BY <1>8, PartsAre, Zenon
<1>. QED  BY <1>2, <1>6, <1>9, AnswerIsAdded, Zenon

\* The picture, which is asked for only where there is a picture contract.
LEMMA PictureIsAnswered ==
  ASSUME IsPerson(Person), NEW results, NEW call, call.when = IfNotEqual(6, 0, 0),
         call.to = Reference(6, 0), call.selector = "tokenURI",
         call.args = <<Reference(7, 1), Reference(7, 2)>>,
         results[7] = PartOf(7), results[8] = PartOf(8)
  PROVE  WithAnswer(results, call) = IF Told("nft_pp_contract") = 0 THEN results
                                     ELSE Append(results, PartOf(9))
<1>1. PICK picture \in Nat : /\ picture = Told("nft_pp_contract") /\ results[7] = <<picture>>
                             /\ picture # 0 => picture = Person.data["nft_pp_contract"]
  <2>1. 5 \in 1 .. 5 /\ 2 + 5 = 7
    OBVIOUS
  <2>2. Fields[5] = "nft_pp_contract"
    BY FieldsAre, Zenon
  <2>3. PartOf(2 + 5) = <<Told(Fields[5])>>
    BY <2>1, PartsAre, Zenon
  <2>4. /\ Told(Fields[5]) \in Nat
        /\ Told(Fields[5]) # 0 => Told(Fields[5]) = Person.data[Fields[5]]
    BY <2>1, ToldIs, Zenon
  <2>. QED  BY <2>1, <2>2, <2>3, <2>4, Zenon
<1>2. results[6 + 1][0 + 1] = picture
  <2>1. 6 + 1 = 7 /\ 0 + 1 = 1 /\ <<picture>>[1] = picture
    OBVIOUS
  <2>. QED  BY <1>1, <2>1, Zenon
<1>3. IsExecuted(call, results) <=> picture # 0
  <2>1. PICK when : when = call.when /\ when = <<"IfNotEqual", 6, 0, 0>>
    BY Zenon DEF IfNotEqual
  <2>2. when # Always /\ when[2] = 6 /\ when[3] = 0 /\ when[4] = 0
    BY <2>1 DEF Always
  <2>. QED  BY <1>2, <2>1, <2>2, Zenon DEF IsExecuted
<1>4. CASE picture = 0
  <2>1. ~IsExecuted(call, results)
    BY <1>3, <1>4, Zenon
  <2>2. WithAnswer(results, call) = results
    BY <2>1, Zenon DEF WithAnswer
  <2>3. Told("nft_pp_contract") = 0
    BY <1>1, <1>4, Zenon
  <2>. QED  BY <2>2, <2>3
<1>5. CASE picture # 0
  <2>1. ContractKnows(call, results)
    <3>1. ArgumentOf(Reference(6, 0), results) = <<results[6 + 1][0 + 1]>>
      <4>1. \A i, j : ArgumentOf(Reference(i, j), results) = <<results[i + 1][j + 1]>>
        BY ArgumentsAre, Zenon
      <4>. QED  BY <4>1, Zenon
    <3>2. ArgumentOf(call.to, results) = <<Person.data["nft_pp_contract"]>>
      BY <1>1, <1>2, <1>5, <3>1, Zenon
    <3>. QED  BY <3>2, Zenon DEF ContractKnows
  <2>2. PICK token \in Seq(Nat), x \in Nat, y \in Nat :
          token = Person.token /\ token = <<x, y>> /\ results[8][2] = x /\ results[8][3] = y
    <3>1. PICK token \in Nat \X Nat : token = Person.token
      BY Zenon DEF IsPerson
    <3>2. PICK x \in Nat, y \in Nat :
            /\ token = <<x, y>> /\ token \in Seq(Nat)
            /\ (<<2>> \o token)[2] = x /\ (<<2>> \o token)[3] = y
      BY TokenIs
    <3>3. results[8] = <<2>> \o token
      BY <3>1, PartsAre, Zenon
    <3>. QED  BY <3>1, <3>2, <3>3, Zenon
  <2>3. results[7 + 1][1 + 1] = x /\ results[7 + 1][2 + 1] = y
    <3>1. 7 + 1 = 8 /\ 1 + 1 = 2 /\ 2 + 1 = 3
      OBVIOUS
    <3>. QED  BY <2>2, <3>1, Zenon
  <2>4. PICK args : args = FlattenSeq([k \in DOMAIN call.args |-> ArgumentOf(call.args[k], results)])
    OBVIOUS
  <2>5. args = token
    <3>1. /\ ArgumentOf(Reference(7, 1), results) = <<x>> /\ ArgumentOf(Reference(7, 2), results) = <<y>>
      <4>1. /\ ArgumentOf(Reference(7, 1), results) = <<results[7 + 1][1 + 1]>>
            /\ ArgumentOf(Reference(7, 2), results) = <<results[7 + 1][2 + 1]>>
        <5>1. \A i, j : ArgumentOf(Reference(i, j), results) = <<results[i + 1][j + 1]>>
          BY ArgumentsAre, Zenon
        <5>. QED  BY <5>1, Zenon
      <4>. QED  BY <2>3, <4>1, Zenon
    <3>2. PICK a, b : a = Reference(7, 1) /\ b = Reference(7, 2)
      OBVIOUS
    <3>3. PICK given : given = call.args /\ given = <<a, b>>
      BY <3>2, Zenon
    <3>4. /\ DOMAIN given = 1 .. 2 /\ given[1] = a /\ given[2] = b
          /\ DOMAIN token = 1 .. 2 /\ token[1] = x /\ token[2] = y
      BY <2>2, <3>3
    <3>5. ASSUME NEW k \in 1 .. 2 PROVE ArgumentOf(given[k], results) = <<token[k]>>
      <4>1. k = 1 \/ k = 2
        OBVIOUS
      <4>. QED  BY <3>1, <3>2, <3>4, <4>1, Zenon
    <3>6. /\ DOMAIN given = DOMAIN token
          /\ \A k \in DOMAIN given : ArgumentOf(given[k], results) = <<token[k]>>
      BY <3>4, <3>5, Zenon
    <3>7. FlattenSeq([k \in DOMAIN given |-> ArgumentOf(given[k], results)]) = token
      BY <3>6, ValuesAreArguments, Zenon
    <3>. QED  BY <2>4, <3>3, <3>7, Zenon
  <2>6. ContractAnswers(call, args) = <<Len(Person.metadata)>> \o Person.metadata
    <3>1. args = Person.token
      BY <2>2, <2>5, Zenon
    <3>2. ContractAnswers(call, args) =
            IF args = Person.token THEN <<Len(Person.metadata)>> \o Person.metadata ELSE <<0>>
      BY DEF ContractAnswers
    <3>. QED  BY <3>1, <3>2, Zenon
  <2>7. ContractAnswers(call, args) = PartOf(9)
    BY <2>6, PartsAre, Zenon
  <2>8. WithAnswer(results, call) = Append(results, PartOf(9))
    BY <1>3, <1>5, <2>1, <2>4, <2>7, AnswerIsAdded, Zenon
  <2>9. Told("nft_pp_contract") # 0
    BY <1>1, <1>5, Zenon
  <2>. QED  BY <2>8, <2>9
<1>. QED  BY <1>4, <1>5

\* Every call adds its answer to those before.
LEMMA AnswersFollow ==
  ASSUME IsPerson(Person), NEW contract, NEW calls, calls = ProfileCalls(1, contract)
  PROVE  PartsUpTo(0) = <<>> /\ \A n \in 1 .. 9 : WithAnswer(PartsUpTo(n - 1), calls[n]) = PartsUpTo(n)
<1>1. PartsUpTo(0) = <<>>
  <2>1. AnswersUpTo(0) = 0
    BY DEF AnswersUpTo
  <2>2. PartsUpTo(0) = [i \in 1 .. 0 |-> PartOf(i)]
    BY <2>1, Zenon DEF PartsUpTo
  <2>. QED  BY <2>2
<1>2. ASSUME NEW n \in 1 .. 9 PROVE WithAnswer(PartsUpTo(n - 1), calls[n]) = PartsUpTo(n)
  <2>1. PICK before : before = PartsUpTo(n - 1) /\ \A i \in 1 .. n - 1 : before[i] = PartOf(i)
    <3>1. PICK k \in 0 .. 9 : k = n - 1 /\ k # 9
      <4>1. n - 1 \in 0 .. 9 /\ n - 1 # 9
        OBVIOUS
      <4>. QED  BY <4>1, Zenon
    <3>2. AnswersUpTo(k) = k
      BY <3>1, Zenon DEF AnswersUpTo
    <3>. QED  BY <3>1, <3>2, FirstPartsAre, Zenon
  <2>2. PICK call : call = calls[n]
    OBVIOUS
  <2>3. n # 9 \/ Told("nft_pp_contract") # 0 => Append(before, PartOf(n)) = PartsUpTo(n)
    BY <2>1, NextPart, Zenon
  <2>4. CASE n = 1
    <3>1. call.when = Always /\ call.selector = "address_to_domain"
      <4>1. PICK to, args :
              call = [when |-> Always, to |-> to, selector |-> "address_to_domain", args |-> args]
        BY <2>2, <2>4, CallsAre, ZenonT(30)
      <4>. QED  BY <4>1
    <3>2. WithAnswer(before, call) = Append(before, PartOf(1)) /\ n # 9
      BY <2>4, <3>1, DomainIsAnswered
    <3>. QED  BY <2>1, <2>2, <2>3, <2>4, <3>2, Zenon
  <2>5. CASE n = 2
    <3>1. call.when = Always /\ call.selector = "domain_to_id" /\ call.args = <<ArrayReference(0, 0)>>
      <4>1. PICK to, args :
              /\ call = [when |-> Always, to |-> to, selector |-> "domain_to_id", args |-> args]
              /\ args = <<ArrayReference(0, 0)>>
        BY <2>2, <2>5, CallsAre, Zenon
      <4>. QED  BY <4>1
    <3>2. before[1] = PartOf(1)
      BY <2>1, <2>5
    <3>3. WithAnswer(before, call) = Append(before, PartOf(2))
      BY <3>1, <3>2, IdIsAnswered, Zenon
    <3>4. n # 9
      BY <2>5
    <3>. QED  BY <2>1, <2>2, <2>3, <2>5, <3>3, <3>4, Zenon
  <2>6. CASE n \in 3 .. 7
    <3>1. PICK i \in 1 .. 5 : n = 2 + i /\ n # 9
      <4>1. n - 2 \in 1 .. 5 /\ n = 2 + (n - 2) /\ n # 9
        BY <2>6
      <4>. QED  BY <4>1, Zenon
    <3>2. call = FieldCall(Fields[i], contract)
      BY <2>2, <3>1, CallsAre, Zenon
    <3>3. before[2] = PartOf(2)
      <4>1. 2 \in 1 .. n - 1
        BY <2>6
      <4>. QED  BY <2>1, <4>1, Zenon
    <3>4. WithAnswer(before, call) = Append(before, PartOf(2 + i))
      BY <3>2, <3>3, FieldIsAnswered, Zenon
    <3>. QED  BY <2>1, <2>2, <2>3, <3>1, <3>4, Zenon
  <2>7. CASE n = 8
    <3>1. PICK verifier :
            /\ call.when = Always /\ call.selector = "get_extended_verifier_data"
            /\ call.args = <<IdReference, Hardcoded("nft_pp_id"), Hardcoded(2), Hardcoded(verifier),
                             Hardcoded(0)>>
      <4>1. PICK verifier : verifier = VerifierOf("nft_pp_id", contract)
        OBVIOUS
      <4>2. PICK to, args :
              /\ call = [when |-> Always, to |-> to, selector |-> "get_extended_verifier_data",
                         args |-> args]
              /\ args = <<IdReference, Hardcoded("nft_pp_id"), Hardcoded(2), Hardcoded(verifier),
                          Hardcoded(0)>>
        BY <2>2, <2>7, <4>1, CallsAre, Zenon
      <4>3. call.when = Always /\ call.selector = "get_extended_verifier_data" /\ call.args = args
        BY <4>2
      <4>. QED  BY <4>2, <4>3, Zenon
    <3>2. before[2] = PartOf(2)
      BY <2>1, <2>7
    <3>3. WithAnswer(before, call) = Append(before, PartOf(8))
      BY <3>1, <3>2, TokenIsAnswered, Zenon
    <3>4. n # 9
      BY <2>7
    <3>. QED  BY <2>1, <2>2, <2>3, <2>7, <3>3, <3>4, Zenon
  <2>8. CASE n = 9
    <3>1. /\ call.when = IfNotEqual(6, 0, 0) /\ call.to = Reference(6, 0) /\ call.selector = "tokenURI"
          /\ call.args = <<Reference(7, 1), Reference(7, 2)>>
      <4>1. PICK when, to, args :
              /\ call = [when |-> when, to |-> to, selector |-> "tokenURI", args |-> args]
              /\ when = IfNotEqual(6, 0, 0) /\ to = Reference(6, 0)
              /\ args = <<Reference(7, 1), Reference(7, 2)>>
        BY <2>2, <2>8, CallsAre, Zenon
      <4>2. call.when = when /\ call.to = to /\ call.selector = "tokenURI" /\ call.args = args
        BY <4>1
      <4>. QED  BY <4>1, <4>2, Zenon
    <3>2. before[7] = PartOf(7) /\ before[8] = PartOf(8)
      BY <2>1, <2>8
    <3>3. WithAnswer(before, call) = IF Told("nft_pp_contract") = 0 THEN before
                                     ELSE Append(before, PartOf(9))
      BY <3>1, <3>2, PictureIsAnswered, Zenon
    <3>4. CASE Told("nft_pp_contract") = 0
      <4>1. AnswersUpTo(9) = 8 /\ AnswersUpTo(8) = 8
        BY <3>4 DEF AnswersUpTo
      <4>2. PartsUpTo(9) = PartsUpTo(8)
        BY <4>1, Zenon DEF PartsUpTo
      <4>3. n - 1 = 8
        BY <2>8
      <4>. QED  BY <2>1, <2>2, <2>8, <3>3, <3>4, <4>2, <4>3, Zenon
    <3>5. CASE Told("nft_pp_contract") # 0
      BY <2>1, <2>2, <2>3, <2>8, <3>3, <3>5, Zenon
    <3>. QED  BY <3>4, <3>5
  <2>. QED  BY <2>4, <2>5, <2>6, <2>7, <2>8
<1>. QED  BY <1>1, <1>2

\* The results that the multicall contract defines by recursion.
AreResults(results, calls) ==
  results = [n \in 0 .. Len(calls) |-> IF n = 0 THEN <<>> ELSE WithAnswer(results[n - 1], calls[n])]

\* All the answers.
LEMMA ResultsAre ==
  ASSUME IsPerson(Person), NEW contract
  PROVE  Results(ProfileCalls(1, contract)) = PartsUpTo(9)
<1>1. PICK calls : calls = ProfileCalls(1, contract)
  OBVIOUS
<1>2. Len(calls) = 9
  BY <1>1, CallsAre, Zenon
<1>3. PartsUpTo(0) = <<>> /\ \A n \in 1 .. 9 : WithAnswer(PartsUpTo(n - 1), calls[n]) = PartsUpTo(n)
  BY <1>1, AnswersFollow, Zenon
<1>4. PICK f : f = [n \in 0 .. 9 |-> PartsUpTo(n)]
  OBVIOUS
<1>5. AreResults(f, calls)
  <2>1. ASSUME NEW n \in 0 .. 9
        PROVE  f[n] = IF n = 0 THEN <<>> ELSE WithAnswer(f[n - 1], calls[n])
    <3>1. CASE n = 0
      BY <1>3, <1>4, <3>1, Zenon
    <3>2. CASE n # 0
      <4>1. n \in 1 .. 9 /\ n - 1 \in 0 .. 9
        BY <3>2
      <4>2. f[n - 1] = PartsUpTo(n - 1) /\ f[n] = PartsUpTo(n)
        BY <1>4, <4>1, Zenon
      <4>. QED  BY <1>3, <3>2, <4>1, <4>2, Zenon
    <3>. QED  BY <3>1, <3>2
  <2>2. f = [n \in 0 .. 9 |-> f[n]]
    BY <1>4
  <2>3. f = [n \in 0 .. 9 |-> IF n = 0 THEN <<>> ELSE WithAnswer(f[n - 1], calls[n])]
    BY <2>1, <2>2, Zenon
  <2>. QED  BY <1>2, <2>3, Zenon DEF AreResults
<1>6. PICK g : Results(calls) = g[9] /\ AreResults(g, calls)
  <2>. DEFINE chosen == CHOOSE results : AreResults(results, calls)
  <2>1. AreResults(chosen, calls)
    BY <1>5, Zenon
  <2>2. Results(calls) = chosen[9]
    BY <1>2, Zenon DEF Results, AreResults
  <2>. QED  BY <2>1, <2>2, Zenon
<1>7. \A n \in 0 .. 9 : g[n] = IF n = 0 THEN <<>> ELSE WithAnswer(g[n - 1], calls[n])
  BY <1>2, <1>6, Zenon DEF AreResults
<1>. DEFINE T == {n \in Nat : n \in 0 .. 9 => g[n] = PartsUpTo(n)}
<1>8. 0 \in T
  <2>1. 0 \in 0 .. 9
    OBVIOUS
  <2>2. g[0] = PartsUpTo(0)
    BY <1>3, <1>7, <2>1, Zenon
  <2>. QED  BY <2>2
<1>9. ASSUME NEW n \in Nat, n \in T PROVE n + 1 \in T
  <2>. SUFFICES ASSUME n + 1 \in 0 .. 9 PROVE g[n + 1] = PartsUpTo(n + 1)
    OBVIOUS
  <2>1. n \in 0 .. 9 /\ n + 1 \in 1 .. 9 /\ n + 1 # 0 /\ (n + 1) - 1 = n
    OBVIOUS
  <2>2. g[n] = PartsUpTo(n)
    BY <1>9, <2>1
  <2>3. g[n + 1] = WithAnswer(g[n], calls[n + 1])
    <3>1. g[n + 1] = WithAnswer(g[(n + 1) - 1], calls[n + 1])
      BY <1>7, <2>1, Zenon
    <3>. QED  BY <2>1, <3>1, Zenon
  <2>4. WithAnswer(PartsUpTo(n), calls[n + 1]) = PartsUpTo(n + 1)
    <3>1. WithAnswer(PartsUpTo((n + 1) - 1), calls[n + 1]) = PartsUpTo(n + 1)
      BY <1>3, <2>1, Zenon
    <3>. QED  BY <2>1, <3>1, Zenon
  <2>. QED  BY <2>2, <2>3, <2>4, Zenon
<1>. HIDE DEF T
<1>10. g[9] = PartsUpTo(9)
  <2>1. Nat \subseteq T /\ 9 \in Nat /\ 9 \in 0 .. 9
    BY <1>8, <1>9, InductionOn
  <2>2. 9 \in T
    BY <2>1
  <2>. QED  BY <2>1, <2>2 DEF T
<1>. QED  BY <1>1, <1>6, <1>10, Zenon

\* What follows a length.
LEMMA LengthIsDropped ==
  ASSUME NEW s \in Seq(Nat), NEW list, list = <<Len(s)>> \o s
  PROVE  SubSeq(list, 2, Len(list)) = s
<1>1. PICK one \in Seq(Nat) : one = <<Len(s)>> /\ Len(one) = 1
  <2>1. <<Len(s)>> \in Seq(Nat) /\ Len(<<Len(s)>>) = 1
    OBVIOUS
  <2>. QED  BY <2>1, Zenon
<1>2. list \in Seq(Nat) /\ IsConcatenation(list, one, s)
  BY <1>1, Concatenation, Zenon
<1>3. Len(list) = 1 + Len(s) /\ \A j \in 1 .. Len(s) : list[1 + j] = s[j]
  BY <1>1, <1>2, Zenon DEF IsConcatenation
<1>4. PICK sub : sub = SubSeq(list, 2, Len(list))
  OBVIOUS
<1>5. sub \in Seq(Nat) /\ Len(sub) = Len(s) /\ \A j \in 1 .. Len(s) : sub[j] = list[1 + j]
  BY <1>2, <1>3, <1>4
<1>6. sub = s
  <2>1. \A j \in 1 .. Len(s) : sub[j] = s[j]
    BY <1>3, <1>5, Zenon
  <2>2. sub = [j \in 1 .. Len(s) |-> sub[j]] /\ s = [j \in 1 .. Len(s) |-> s[j]]
    BY <1>5
  <2>. QED  BY <2>1, <2>2, Zenon
<1>. QED  BY <1>4, <1>6

\* The profile of the person that the network knows.
ProfileOfPerson ==
  [name |-> IF Person.labels = <<>> THEN <<>> ELSE TextOf(Person.labels),
   twitter |-> Told("twitter"), github |-> Told("github"), discord |-> Told("discord"),
   proofOfPersonhood |-> Told("proof_of_personhood") = 1,
   picture |-> IF Told("nft_pp_contract") = 0 \/ Person.metadata = <<>>
               THEN <<"identicon", Person.id>> ELSE <<"uri", Person.metadata>>]

\* It is what is read from the answer.
LEMMA ProfileIsRead ==
  ASSUME IsPerson(Person), NEW contract
  PROVE  ParsedProfile(Aggregate(ProfileCalls(1, contract))) = ProfileOfPerson
<1>1. PICK final \in Seq(Seq(Nat)) :
        /\ final = PartsUpTo(9) /\ Len(final) = AnswersUpTo(9)
        /\ \A i \in 1 .. AnswersUpTo(9) : final[i] = PartOf(i)
  <2>1. 9 \in 0 .. 9
    OBVIOUS
  <2>. QED  BY <2>1, FirstPartsAre, Zenon
<1>2. PICK data : data = Aggregate(ProfileCalls(1, contract))
  OBVIOUS
<1>3. data = <<Len(final)>> \o FlattenSeq(WithLengths(final))
  <2>1. PICK calls : calls = ProfileCalls(1, contract)
    OBVIOUS
  <2>2. Results(calls) = final
    BY <1>1, <2>1, ResultsAre, Zenon
  <2>3. Aggregate(calls) = <<Len(Results(calls))>> \o FlattenSeq(WithLengths(Results(calls)))
    BY Zenon DEF Aggregate, WithLengths
  <2>. QED  BY <1>2, <2>1, <2>2, <2>3, Zenon
<1>4. data[1] = AnswersUpTo(9) /\ FinalArray(data) = final
  <2>1. PICK end : AreWithin(data, final, end)
    BY <1>3, PartsAreWithin, Zenon
  <2>2. data[1] = Len(final)
    BY <2>1, Zenon DEF AreWithin
  <2>. QED  BY <1>1, <2>1, <2>2, PartsAreRead, Zenon
<1>5. \A i \in 1 .. 8 : final[i] = PartOf(i)
  <2>1. \A i \in 1 .. 8 : i \in 1 .. AnswersUpTo(9)
    BY DEF AnswersUpTo
  <2>. QED  BY <1>1, <2>1, Zenon
<1>6. /\ final[1] = <<Len(Domain)>> \o Domain /\ final[2] = <<Person.id>>
      /\ \A i \in 1 .. 5 : final[2 + i] = <<Told(Fields[i])>>
  <2>1. 1 \in 1 .. 8 /\ 2 \in 1 .. 8 /\ \A i \in 1 .. 5 : 2 + i \in 1 .. 8
    OBVIOUS
  <2>. QED  BY <1>5, <2>1, PartsAre, Zenon
<1>7. useDecoded(SubSeq(final[1], 2, Len(final[1]))) =
        IF Person.labels = <<>> THEN <<>> ELSE TextOf(Person.labels)
  <2>1. Domain \in Seq(Nat) /\ Person.labels \in Seq(Seq(Letters))
    BY DomainIs
  <2>2. SubSeq(final[1], 2, Len(final[1])) = Domain
    BY <1>6, <2>1, LengthIsDropped, Zenon
  <2>3. PICK labels \in Seq(Seq(Letters)) : labels = Person.labels
    BY <2>1
  <2>4. useDecoded(RegisteredDomain(labels)) = IF labels = <<>> THEN <<>> ELSE TextOf(labels)
    BY DomainsAreApart, Zenon
  <2>. QED  BY <2>2, <2>3, <2>4, Zenon DEF Domain
<1>8. /\ final[2][1] = Person.id
      /\ final[3][1] = Told("twitter") /\ final[4][1] = Told("github") /\ final[5][1] = Told("discord")
      /\ final[6][1] = Told("proof_of_personhood")
  <2>1. ASSUME NEW x PROVE <<x>>[1] = x
    OBVIOUS
  <2>2. ASSUME NEW i \in 1 .. 5 PROVE final[2 + i][1] = Told(Fields[i])
    BY <1>6, <2>1, Zenon
  <2>3. 1 \in 1 .. 5 /\ 2 \in 1 .. 5 /\ 3 \in 1 .. 5 /\ 4 \in 1 .. 5
        /\ 2 + 1 = 3 /\ 2 + 2 = 4 /\ 2 + 3 = 5 /\ 2 + 4 = 6
    OBVIOUS
  <2>4. /\ final[2 + 1][1] = Told(Fields[1]) /\ final[2 + 2][1] = Told(Fields[2])
        /\ final[2 + 3][1] = Told(Fields[3]) /\ final[2 + 4][1] = Told(Fields[4])
    BY <2>2, <2>3, Zenon
  <2>5. final[2][1] = Person.id
    BY <1>6, <2>1, Zenon
  <2>. QED  BY <2>3, <2>4, <2>5, FieldsAre, Zenon
<1>9. PICK metadata : metadata = IF HasPicture(data) THEN SubSeq(final[9], 2, Len(final[9])) ELSE <<>>
  OBVIOUS
<1>10. metadata = IF Told("nft_pp_contract") = 0 THEN <<>> ELSE Person.metadata
  <2>1. CASE Told("nft_pp_contract") = 0
    <3>1. AnswersUpTo(9) = 8 /\ 8 # 9
      BY <2>1 DEF AnswersUpTo
    <3>2. ~HasPicture(data)
      BY <1>4, <3>1, Zenon DEF HasPicture
    <3>. QED  BY <1>9, <2>1, <3>2, Zenon
  <2>2. CASE Told("nft_pp_contract") # 0
    <3>1. AnswersUpTo(9) = 9 /\ 9 \in 1 .. 9
      BY <2>2 DEF AnswersUpTo
    <3>2. HasPicture(data)
      BY <1>4, <3>1, Zenon DEF HasPicture
    <3>3. final[9] = <<Len(Person.metadata)>> \o Person.metadata
      BY <1>1, <3>1, PartsAre, Zenon
    <3>4. Person.metadata \in Seq(Nat)
      BY DEF IsPerson
    <3>5. SubSeq(final[9], 2, Len(final[9])) = Person.metadata
      BY <3>3, <3>4, LengthIsDropped, Zenon
    <3>. QED  BY <1>9, <2>2, <3>2, <3>5, Zenon
  <2>. QED  BY <2>1, <2>2
<1>11. ParsedProfile(data) =
         [name |-> useDecoded(SubSeq(final[1], 2, Len(final[1]))),
          twitter |-> final[3][1], github |-> final[4][1], discord |-> final[5][1],
          proofOfPersonhood |-> final[6][1] = 1,
          picture |-> IF metadata = <<>> THEN <<"identicon", final[2][1]>> ELSE <<"uri", metadata>>]
  BY <1>4, <1>9, Zenon DEF ParsedProfile
<1>12. (IF metadata = <<>> THEN <<"identicon", final[2][1]>> ELSE <<"uri", metadata>>)
         = IF Told("nft_pp_contract") = 0 \/ Person.metadata = <<>>
           THEN <<"identicon", Person.id>> ELSE <<"uri", Person.metadata>>
  BY <1>8, <1>10, Zenon
<1>. QED  BY <1>2, <1>7, <1>8, <1>11, <1>12, Zenon DEF ProfileOfPerson

------------------------------------------------------------------------------
(* Profiles.                                                                *)

\* What holds of the call for a profile until it is done.
ProfileInv ==
  /\ NamesInv
  /\ step = "ask" /\ job.op = "profile" => \A kind \in Contracts : IsThere(kind)
  /\ ProfileIsOfAddress

\* The contracts of a chain are where the caller takes them to be.
LEMMA ContractsAreThere ==
  ASSUME NEW kind \in Contracts, job.given \/ IsDeployed(job.chain)
  PROVE  IsThere(kind)
<1>1. CASE job.given
  BY <1>1, Zenon DEF IsThere, Contract
<1>2. CASE ~job.given /\ IsDeployed(job.chain)
  <2>1. job.chain # "OTHER"
    <3>1. ASSUME job.chain = "OTHER" PROVE FALSE
      <4>1. ContractOf("naming", job.chain) = <<"none", job.chain>>
        BY <3>1, Zenon DEF ContractOf
      <4>2. ContractOf("naming", job.chain)[1] = "none"
        BY <4>1
      <4>. QED  BY <1>2, <4>2, Zenon DEF IsDeployed
    <3>. QED  BY <3>1
  <2>2. CASE kind = "multicall"
    <3>1. ContractOf(kind, job.chain) = <<kind, "SN_MAIN">> /\ WhereIs(kind) = <<kind, "SN_MAIN">>
      BY <2>1, <2>2, Zenon DEF ContractOf, WhereIs
    <3>. QED  BY <1>2, <3>1, Zenon DEF IsThere, Contract
  <2>3. CASE kind # "multicall"
    <3>1. ContractOf(kind, job.chain) = <<kind, job.chain>> /\ WhereIs(kind) = <<kind, job.chain>>
      BY <2>1, <2>3, Zenon DEF ContractOf, WhereIs
    <3>. QED  BY <1>2, <3>1, Zenon DEF IsThere, Contract
  <2>. QED  BY <2>2, <2>3
<1>. QED  BY <1>1, <1>2

\* Each step of a call for a profile keeps it, and no other step disturbs it.
LEMMA ProfileNext == ProfileInv /\ [ProviderNext]_providerVars => ProfileInv'
<1>. SUFFICES ASSUME ProfileInv, [ProviderNext]_providerVars PROVE ProfileInv'
  OBVIOUS
<1>1. job' = job
  BY DEF ProviderNext, providerVars, calling, Answered, GetChainId, GetStarkName,
    GetAddressFromStarkName, GetStarkProfile, GetEstimateFee, LookUpClass, Declare, KeepInvocation,
    LookUpDeclaration, NoAnswer, OtherDeclares
<1>2. NamesInv /\ NamesInv'
  BY NamesNext, Zenon DEF ProfileInv
<1>3. job \in Jobs /\ (step = "declare" => job.op = "declareIfNot")
  BY <1>2, Zenon DEF NamesInv
<1>4. ASSUME NEW kind, IsThere(kind) PROVE IsThere(kind)'
  BY <1>1, <1>4, Zenon DEF IsThere, Contract, WhereIs
<1>5. ASSUME job.op # "profile" PROVE ProfileInv'
  BY <1>1, <1>2, <1>5, Zenon DEF ProfileInv, ProfileIsOfAddress
<1>6. ASSUME step' = "done", NEW tag, Says(answer', tag), tag # "profile", tag # "could not"
      PROVE  ProfileInv'
  <2>1. answer'[1] = tag
    BY <1>6, TagIsFirst
  <2>2. step' # "ask"
    BY <1>6
  <2>. QED  BY <1>1, <1>2, <1>6, <2>1, <2>2, Zenon DEF ProfileInv, ProfileIsOfAddress
<1>7. CASE GetChainId
  <2>1. CASE job.given \/ IsDeployed(job.chain)
    <3>1. step' = "ask" /\ step' # "done"
      BY <1>7, <2>1 DEF GetChainId
    <3>2. \A kind \in Contracts : IsThere(kind)
      BY <2>1, ContractsAreThere
    <3>3. (\A kind \in Contracts : IsThere(kind))'
      BY <1>4, <3>2, Zenon DEF Contracts
    <3>. QED  BY <1>2, <3>1, <3>3, Zenon DEF ProfileInv, ProfileIsOfAddress
  <2>2. CASE ~(job.given \/ IsDeployed(job.chain))
    <3>1. step' = "done" /\ Says(answer', "undeployed")
      BY <1>7, <2>2, Zenon DEF GetChainId, Ends, Says
    <3>2. "undeployed" # "profile" /\ "undeployed" # "could not"
      OBVIOUS
    <3>. QED  BY <1>6, <3>1, <3>2
  <2>. QED  BY <2>1, <2>2
<1>8. CASE GetStarkProfile
  <2>1. step = "ask" /\ job.op = "profile"
    BY <1>8, Zenon DEF GetStarkProfile
  <2>2. \A kind \in Contracts : IsThere(kind)
    BY <2>1, Zenon DEF ProfileInv
  <2>3. IsPerson(Person)
    BY <1>3, <2>1, ProviderAssumption, Zenon DEF IsCall, Person
  <2>4. PICK contract : contract = [kind \in Contracts |-> Contract(kind)]
    OBVIOUS
  <2>5. PICK profile : profile = ProfileOfPerson
    OBVIOUS
  <2>6. step' = "done" /\ answer' = <<"profile", profile>>
    <3>1. step' = "done" /\ answer' = <<"profile", ParsedProfile(Aggregate(ProfileCalls(1, contract)))>>
      BY <1>8, <2>2, <2>4, Zenon DEF GetStarkProfile, Ends
    <3>. QED  BY <2>3, <2>5, <3>1, ProfileIsRead, Zenon
  <2>7. answer'[1] = "profile" /\ answer'[1] # "could not" /\ answer'[2] = profile /\ step' # "ask"
    BY <2>6
  <2>8. profile = ProfileOfPerson'
    BY <1>1, <2>5, Zenon DEF ProfileOfPerson, Told, VerifierData, Person
  <2>9. ProfileIsOfAddress'
    BY <2>7, <2>8, Zenon DEF ProfileIsOfAddress, ProfileOfPerson, Told
  <2>. QED  BY <1>2, <2>7, <2>9, Zenon DEF ProfileInv
<1>9. CASE GetStarkName \/ GetEstimateFee \/ KeepInvocation \/ LookUpDeclaration \/ LookUpClass
  <2>1. job.op \in {"name", "estimate", "prepareInvocations", "declareIfNot"}
    BY <1>9, Zenon DEF GetStarkName, GetEstimateFee, KeepInvocation, LookUpDeclaration, LookUpClass,
      IsPreparing
  <2>. QED  BY <1>5, <2>1
<1>10. CASE GetAddressFromStarkName \/ Declare
  <2>1. job.op \in {"name", "address", "declareIfNot"}
    <3>1. step = "back" => job.op = "name"
      BY <1>2, Zenon DEF NamesInv
    <3>. QED  BY <1>3, <1>10, <3>1, Zenon DEF GetAddressFromStarkName, Declare
  <2>. QED  BY <1>5, <2>1
<1>11. CASE NoAnswer
  <2>1. step' = "done" /\ Says(answer', "no answer")
    BY <1>11, Zenon DEF NoAnswer, Ends, Says
  <2>2. "no answer" # "profile" /\ "no answer" # "could not"
    OBVIOUS
  <2>. QED  BY <1>6, <2>1, <2>2
<1>12. CASE OtherDeclares
  <2>1. job.op # "profile"
    BY <1>12 DEF OtherDeclares
  <2>. QED  BY <1>5, <2>1
<1>13. CASE UNCHANGED calling
  BY <1>2, <1>13 DEF calling, ProfileInv, ProfileIsOfAddress, IsThere, Contract, WhereIs, VerifierData,
    Person
<1>. QED  BY <1>7, <1>8, <1>9, <1>10, <1>11, <1>12, <1>13 DEF ProviderNext, Answered, providerVars

\* A profile is told only if it is that of the person behind the address: the nine answers
\* are read where each of them stands, and refer to those that they mean.
THEOREM ProfileIsOfAddressAlways == ProviderSpec => []ProfileIsOfAddress
<1>1. ProviderInit => ProfileInv
  <2>. SUFFICES ASSUME ProviderInit PROVE ProfileInv
    OBVIOUS
  <2>1. job \in Jobs /\ (step = "wait" \/ step = "start")
    BY DEF ProviderInit
  <2>2. step # "declare" /\ step # "ask" /\ step # "back" /\ step # "done"
    BY <2>1
  <2>. QED  BY <2>1, <2>2, Zenon DEF ProfileInv, ProfileIsOfAddress, NamesInv
<1>2. ProfileInv => ProfileIsOfAddress
  BY Zenon DEF ProfileInv
<1>. QED  BY <1>1, <1>2, ProfileNext, PTL DEF ProviderSpec
==============================================================================
