----------------------------- MODULE RpcProvider -----------------------------
(***************************************************************************)
(* Calls of an RpcProvider (src/src/provider/rpc.ts with                   *)
(* src/src/provider/extensions/starknetId.ts): waiting for a block         *)
(* (BlockWaiter), names, addresses and profiles of Starknet.id, estimates, *)
(* and the look-ups of classes before a declaration, declareIfNot() of     *)
(* src/src/account/default.ts included.  Each awaits one answer or several *)
(* from a node that may not answer, over a chain where others declare too. *)
(*                                                                         *)
(* Calls of one provider share only the id of the chain (WalletAccount)    *)
(* and the numbers of their requests (BatchClient), so here one call is    *)
(* made.                                                                   *)
(***************************************************************************)
EXTENDS BlockWaiter, StarknetId, FeeEstimate, ClassHash

CONSTANT Jobs   \* the calls to consider: records with `op` and its arguments

Label == Seq(Basic \union Big) \ {<<>>}

\* What Starknet.id holds of a person: letters, numbers, and a token of two parts.
IsPerson(person) ==
  /\ person.labels \in Seq(Label) /\ person.id \in Nat
  /\ person.data \in [ToSet(Fields) -> Nat]
  /\ person.token \in Nat \X Nat /\ person.metadata \in Seq(Nat)

\* What a caller gives and what the network holds.  A list of invocations is not empty.
IsCall(call) ==
  /\ call.op \in {"name", "address"} =>
       call.labels \in Seq(Label)
  /\ call.op = "address" => call.text \in Seq(Basic \union Big \union {Dot, Foreign})
  /\ call.op = "profile" => IsPerson(call.person)
  /\ call.op = "estimate" => IsEstimate(call.estimate) /\ IsMargin(call.margin)
  /\ call.op = "declareIfNot" => IsPayload(call.payload) /\ IsAssembly(call.compiled)
  /\ call.op = "prepareInvocations" =>
       /\ IsList(call.invocations) /\ call.invocations # <<>>
       /\ \A i \in DOMAIN call.invocations :
            /\ call.invocations[i].type \in {"DECLARE", "INVOKE"}
            /\ call.invocations[i].type = "DECLARE" => IsPayload(call.invocations[i].payload)
  /\ call.op \in {"declareIfNot", "prepareInvocations"} =>
       \A class \in call.others \union UNION call.declared : IsClass(class)

ASSUME ProviderAssumption == \A call \in Jobs : IsCall(call)

VARIABLES
  job,        \* the call
  step,       \* what it waits for, or "done"
  answer,     \* what it has been told or returns, a tuple that starts with a tag
  bulk,       \* prepareInvocations(): the invocations put together so far
  declared    \* the classes on the chain

waiting == vars
calling == <<job, step, answer, bulk, declared>>
providerVars == <<vars, calling>>

Nothing == <<"nothing">>

Ends(told) == step' = "done" /\ answer' = told

------------------------------------------------------------------------------
(* Names and addresses.                                                     *)

IsLookUp == job.op \in {"name", "address", "profile"}

\* Where the contracts of Starknet.id are.
WhereIs(kind) ==
  <<kind, IF kind = "multicall" /\ job.chain # "OTHER" THEN "SN_MAIN" ELSE job.chain>>

\* Contracts the caller does not give are those of the chain.
Contract(kind) == IF job.given THEN WhereIs(kind) ELSE ContractOf(kind, job.chain)

IsThere(kind) == Contract(kind) = WhereIs(kind)

GetChainId ==
  /\ step = "start" /\ IsLookUp
  /\ IF job.given \/ IsDeployed(job.chain)
     THEN step' = "ask" /\ UNCHANGED answer
     ELSE Ends(<<"undeployed">>)
  /\ UNCHANGED <<waiting, job, bulk, declared>>

\* The domain of the address on the chain, and the address of a domain: 1 is the
\* address that the name was registered for, 0 none.
RegisteredDomain(labels) == [i \in DOMAIN labels |-> useEncoded(labels[i])]

DomainToAddress(domain) ==
  IF job.labels # <<>> /\ domain = RegisteredDomain(job.labels) THEN 1 ELSE 0

\* getStarkName(); the caller asks for the address of what it is told.
GetStarkName ==
  /\ step = "ask" /\ job.op = "name"
  /\ LET name == useDecoded(RegisteredDomain(job.labels))
     IN IF ~IsThere("naming") THEN Ends(<<"could not">>)
        ELSE IF name = <<>> THEN Ends(<<"not found">>)
        ELSE step' = "back" /\ answer' = <<"name", name>>
  /\ UNCHANGED <<waiting, job, bulk, declared>>

AskedText == IF job.op = "name" THEN answer[2] ELSE job.text

GetAddressFromStarkName ==
  /\ \/ step = "ask" /\ job.op = "address"
     \/ step = "back"
  /\ IF IsThere("naming")
     THEN Ends(<<"address", DomainToAddress(EncodedDomain(AskedText))>>)
     ELSE Ends(<<"could not">>)
  /\ UNCHANGED <<waiting, job, bulk, declared>>

------------------------------------------------------------------------------
(* Profiles.                                                                *)

\* The contracts of Starknet.id answer for the one person they know: a record with
\* labels, id, data (a function from Fields), token and metadata.
Person == job.person

VerifierData(id, field) == IF id = Person.id /\ id # 0 THEN Person.data[field] ELSE 0

Domain == RegisteredDomain(Person.labels)

Contracts == {"naming", "identity", "verifier", "pop", "pfp", "multicall"}

ArgumentOf(arg, results) ==
  CASE arg[1] = "Hardcoded" -> <<arg[2]>>
    [] arg[1] = "Reference" -> <<results[arg[2] + 1][arg[3] + 1]>>
    [] arg[1] = "ArrayReference" ->
         LET source == results[arg[2] + 1]
         IN SubSeq(source, arg[3] + 1, arg[3] + 1 + source[arg[3] + 1])

IsExecuted(call, results) ==
  call.when = Always \/ results[call.when[2] + 1][call.when[3] + 1] # call.when[4]

ContractAnswers(call, args) ==
  CASE call.selector = "address_to_domain" -> <<Len(Domain)>> \o Domain
    [] call.selector = "domain_to_id" -> <<IF args = <<Len(Domain)>> \o Domain THEN Person.id ELSE 0>>
    [] call.selector = "get_verifier_data" -> <<VerifierData(args[1], args[2])>>
    [] call.selector = "get_extended_verifier_data" ->
         IF args[1] = Person.id THEN <<2>> \o Person.token ELSE <<2, 0, 0>>
    [] call.selector = "tokenURI" ->
         IF args = Person.token THEN <<Len(Person.metadata)>> \o Person.metadata ELSE <<0>>

ContractKnows(call, results) ==
  call.selector = "tokenURI" =>
    ArgumentOf(call.to, results) = <<Person.data["nft_pp_contract"]>>

\* aggregate() of the multicall contract: each call adds its answer to the results.
WithAnswer(results, call) ==
  LET args == FlattenSeq([k \in DOMAIN call.args |-> ArgumentOf(call.args[k], results)])
  IN IF ~IsExecuted(call, results) THEN results
     ELSE Append(results, IF ContractKnows(call, results) THEN ContractAnswers(call, args)
                          ELSE <<0>>)

Results(calls) ==
  LET results[n \in 0 .. Len(calls)] ==
        IF n = 0 THEN <<>> ELSE WithAnswer(results[n - 1], calls[n])
  IN results[Len(calls)]

Aggregate(calls) ==
  LET all == Results(calls)
  IN <<Len(all)>> \o FlattenSeq([i \in DOMAIN all |-> <<Len(all[i])>> \o all[i]])

GetStarkProfile ==
  /\ step = "ask" /\ job.op = "profile"
  /\ IF \A kind \in Contracts : IsThere(kind)
     THEN LET contract == [kind \in Contracts |-> Contract(kind)]
          IN Ends(<<"profile", ParsedProfile(Aggregate(ProfileCalls(1, contract)))>>)
     ELSE Ends(<<"could not">>)
  /\ UNCHANGED <<waiting, job, bulk, declared>>

------------------------------------------------------------------------------
(* Estimates.                                                               *)

\* The answer has one element for each invocation; each is parsed by itself.
GetEstimateFee ==
  /\ step = "start" /\ job.op = "estimate"
  /\ IF Throws(job.estimate) THEN Ends(<<"division by zero">>)
     ELSE Ends(<<"fee", parseFeeEstimate(job.estimate, job.margin)>>)
  /\ UNCHANGED <<waiting, job, bulk, declared>>

------------------------------------------------------------------------------
(* Classes.                                                                 *)

\* The network knows a class by the same hash.
IsKnown(hash, classes) == \E class \in classes : computeContractClassHash(class) = hash

\* The classes the call is about may also be declared by others.
OtherDeclares ==
  /\ job.op \in {"declareIfNot", "prepareInvocations"} /\ step # "done"
  /\ \E class \in job.others \ declared :
       ~IsKnown(computeContractClassHash(class), declared) /\ declared' = declared \union {class}
  /\ UNCHANGED <<waiting, job, step, answer, bulk>>

\* declareIfNot(): any failure of the look-up counts as a class that is not there.
LookUpClass ==
  /\ step = "start" /\ job.op = "declareIfNot"
  /\ IF ~CanExtract(job.payload) THEN Ends(<<"cannot extract">>)
     ELSE \/ /\ IsKnown(extractContractHashes(job.payload).classHash, declared)
             /\ Ends(<<"present">>)
          \/ step' = "declare" /\ UNCHANGED answer
  /\ UNCHANGED <<waiting, job, bulk, declared>>

\* The network compiles the class itself and compares the hashes.
CompiledHashFits(hashes) ==
  job.payload.contract.sierra =>
    hashes.compiledClassHash = computeCompiledClassHash(job.compiled)

Declare ==
  /\ step = "declare"
  /\ LET hashes == extractContractHashes(job.payload)
     IN IF IsKnown(hashes.classHash, declared) \/ ~CompiledHashFits(hashes)
        THEN Ends(<<"refused">>) /\ UNCHANGED declared
        ELSE Ends(<<"declared">>) /\ declared' = declared \union {job.payload.contract}
  /\ UNCHANGED <<waiting, job, bulk>>

\* prepareInvocations(): `step` is "start" all through, and `bulk` and the counter in
\* `answer` tell how far it is.
At == answer[2]
Invocation == job.invocations[At]
IsPreparing == step = "start" /\ job.op = "prepareInvocations"
GoesOnWith(invocations) ==
  /\ bulk' = invocations
  /\ IF At = Len(job.invocations) THEN Ends(<<"prepared", At>>)
     ELSE answer' = <<"at", At + 1>> /\ UNCHANGED step

KeepInvocation ==
  /\ IsPreparing /\ Invocation.type = "INVOKE"
  /\ GoesOnWith(Append(bulk, Invocation))
  /\ UNCHANGED <<waiting, job, declared>>

\* Declarations are put before all that is there, so the last one comes first.
InFront(invocation) == <<invocation>> \o bulk

\* isClassDeclared(): every error of the node counts as a class that is not there; a
\* class hash that is given is looked up by itself.
LookUpDeclaration ==
  /\ IsPreparing /\ Invocation.type = "DECLARE"
  /\ IF Invocation.payload.classHash = <<>> /\ ~CanExtract(Invocation.payload)
     THEN Ends(<<"cannot extract">>) /\ UNCHANGED bulk
     ELSE \/ /\ IsKnown(extractContractHashes(Invocation.payload).classHash, declared)
             /\ GoesOnWith(bulk)
          \/ GoesOnWith(InFront(Invocation))
  /\ UNCHANGED <<waiting, job, declared>>

------------------------------------------------------------------------------
\* No answer: the call throws, except where a class is looked up for declareIfNot().
NoAnswer ==
  /\ step \in {"start", "ask", "back", "declare"} /\ job.op # "block"
  /\ ~(step = "start" /\ job.op = "declareIfNot")
  /\ Ends(<<"no answer">>)
  /\ UNCHANGED <<waiting, job, bulk, declared>>

IdleWaiter ==
  /\ height = 0 /\ wanted = Latest /\ target = 0
  /\ pc = "idle" /\ tries = Retries /\ polls = 0 /\ seen = 0

ProviderInit ==
  /\ job \in Jobs
  /\ IF job.op = "block" THEN Init ELSE IdleWaiter
  /\ step = IF job.op = "block" THEN "wait" ELSE "start"
  /\ answer = IF job.op = "prepareInvocations" THEN <<"at", 1>> ELSE Nothing
  /\ bulk = <<>>
  /\ declared \in IF job.op \in {"declareIfNot", "prepareInvocations"}
                 THEN job.declared ELSE {{}}

Answered ==
  \/ GetChainId \/ GetStarkName \/ GetAddressFromStarkName \/ GetStarkProfile
  \/ GetEstimateFee
  \/ LookUpClass \/ Declare \/ KeepInvocation \/ LookUpDeclaration

ProviderNext ==
  \/ job.op = "block" /\ Next /\ UNCHANGED calling
  \/ Answered
  \/ NoAnswer
  \/ OtherDeclares

\* Every request is answered or fails.  The chain need not grow, nor others declare.
ProviderSpec ==
  /\ ProviderInit /\ [][ProviderNext]_providerVars
  /\ WF_providerVars(NoAnswer \/ Answered)
  /\ WF_providerVars(UNCHANGED calling /\ WaitGoesOn)
------------------------------------------------------------------------------
(* Properties *)

\* `.stark` may be left out.
TextIsOf(text, labels) ==
  (IF IsSuffix(DotStark, text) THEN text ELSE text \o DotStark) = TextOf(labels)

\* What the first `.stark` of a text cannot be told from: a label after the first one
\* that begins with these letters, unless it and all that follow are just these.
IsMisread(labels) ==
  \E i \in 2 .. Len(labels) : \E j \in i .. Len(labels) : labels[i][1] = Tld /\ labels[j] # <<Tld>>

\* Letters of neither alphabet are dropped, and labels that begin with `stark` are cut.
IsWellWritten ==
  job.op = "address" =>
    /\ \A i \in DOMAIN job.text : job.text[i] # Foreign
    /\ \A i \in 1 .. Len(job.text) - 1 :
         SubSeq(job.text, i, i + 1) = DotStark => i + 1 = Len(job.text)

\* The name that an address is told leads back to the address, and any other name
\* does not lead there; who is told that there is no name, or no contract, was asking
\* for an address without one or of a chain without Starknet.id.
NamesLeadHome ==
  step = "done" /\ job.op \in {"name", "address"} =>
    /\ answer[1] = "address" /\ job.op = "name" /\ ~IsMisread(job.labels) => answer[2] = 1
    /\ answer[1] = "address" /\ job.op = "address" /\ IsWellWritten
         => (answer[2] = 1 <=> TextIsOf(job.text, job.labels))
    /\ answer[1] = "not found" => job.labels = <<>>
    /\ answer[1] = "undeployed" => job.chain = "OTHER" /\ ~job.given
    /\ answer[1] # "could not"

\* A profile is the person's, from nine calls that refer to each other's answers by
\* number and an answer that has eight or nine parts.
ProfileIsOfAddress ==
  step = "done" /\ job.op = "profile" =>
    /\ answer[1] = "profile" => answer[2] =
         [name |-> IF Person.labels = <<>> THEN <<>> ELSE TextOf(Person.labels),
          twitter |-> VerifierData(Person.id, "twitter"),
          github |-> VerifierData(Person.id, "github"),
          discord |-> VerifierData(Person.id, "discord"),
          proofOfPersonhood |-> VerifierData(Person.id, "proof_of_personhood") = 1,
          picture |-> IF VerifierData(Person.id, "nft_pp_contract") = 0 \/ Person.metadata = <<>>
                      THEN <<"identicon", Person.id>> ELSE <<"uri", Person.metadata>>]
    /\ answer[1] # "could not"

\* A transaction with the suggested fee or bounds can pay what was estimated.  The
\* bounds of a node that tells of data gas drop the rest of a division, which the
\* margin makes good as soon as it is a unit.
EstimateIsAffordable ==
  step = "done" /\ answer[1] = "fee" =>
    LET overall == job.estimate.overall_fee
        gas == answer[2].resourceBounds.l1_gas
    IN /\ answer[2].suggestedMaxFee >= overall
       /\ (\/ ~job.estimate.data_gas
           \/ overall % job.estimate.gas_price = 0
           \/ (Units(job.estimate) * job.margin.l1BoundMaxAmount) >= 100)
          => gas.max_amount * gas.max_price_per_unit >= overall

\* Two classes are the same if they have the same code and interface; what a class
\* of Cairo 0 holds for debugging does not count.
Same(class, other) ==
  IF class.sierra \/ other.sierra THEN class = other
  ELSE \A part \in {"entryPoints", "abi", "program", "builtins", "attributes"} :
         class[part] = other[part]

SameClassDeclared(class) == \E other \in declared : Same(class, other)

\* A class is taken for declared, by declareIfNot() as by prepareInvocations(), only
\* if it is itself on the chain.  A class given with its assembly alone is declared
\* only if it compiles to this assembly, and refused only if it does not, or someone
\* else has declared it meanwhile.
SameClassIsFound ==
  /\ answer[1] = "present" => SameClassDeclared(job.payload.contract)
  /\ answer[1] = "prepared" =>
       \A i \in DOMAIN job.invocations :
         job.invocations[i] \in ToSet(bulk)
           \/ SameClassDeclared(job.invocations[i].payload.contract)
  /\ answer[1] \in {"declared", "refused"} /\ job.payload.contract.sierra
         /\ job.payload.compiledClassHash = <<>> /\ job.payload.casm # <<>> =>
       LET fits == job.payload.casm[1] = job.compiled
       IN IF answer[1] = "declared" THEN fits
          ELSE ~fits \/ SameClassDeclared(job.payload.contract)

\* The invocations that do not declare, of the first n.
OthersUpTo(invocations) ==
  LET others[n \in 0 .. Len(invocations)] ==
        IF n = 0 THEN <<>>
        ELSE IF invocations[n].type = "DECLARE" THEN others[n - 1]
        ELSE Append(others[n - 1], invocations[n])
  IN others

\* Of the invocations that are kept, those that declare come first and the others
\* stay in their order.
IsPreparedUpTo(n) ==
  \E d \in 0 .. Len(bulk) :
    /\ \A i \in 1 .. d : bulk[i].type = "DECLARE"
    /\ SubSeq(bulk, d + 1, Len(bulk)) = OthersUpTo(job.invocations)[n]

BulkIsPrepared == answer[1] = "prepared" => IsPreparedUpTo(Len(job.invocations))

DeclarationsAreRight == SameClassIsFound /\ BulkIsPrepared

\* Every call ends, a wait even if the block is never created.
CallEnds == <>(IF job.op = "block" THEN pc \in {"returned", "timedOut", "failed"} ELSE step = "done")
==============================================================================
