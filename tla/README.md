# starknet.js in TLA+

TLA+ specifications of the parts of starknet.js (`src/src/`) in which several
things happen at once, fail, come in an unexpected order, or are computed twice
and must agree; the TLC runs that check them on small instances; and TLAPS proofs
of the main theorems for every value of the constants. Paths are relative to
`src/src/` unless they begin with `src/`.

1. [The system](#the-system)
2. [Modules](#modules) and how they correspond to the code
3. [Runs](#runs): what each checks, its bounds, and what it shows
4. [Fairness](#fairness)
5. [Proofs](#proofs)
6. [Where the code and its documents disagree](#where-the-code-and-its-documents-disagree)
7. [What is not modelled](#what-is-not-modelled)
8. [Plan](#plan)

To run them: `tlc -config MCX.cfg MCX` (or the module the table names), and
`tlapm XProof.tla`.

## The system

starknet.js is a client library. It keeps little state, and what it keeps is
shared by whatever the application runs concurrently on one JavaScript thread:
a step runs to its next `await`, and anything else may run before it resumes. An
application holds an `Account` (an address, a signer, a provider); the provider
holds a channel, which holds a batching client and speaks JSON-RPC with a node; a
`Contract` turns arguments into calldata and hands calls to an account.

| component | state | operations | talks to | hard because | correct if |
|---|---|---|---|---|---|
| `BatchClient` (`utils/batch/index.ts`) | pending requests by id, promises of batches by id, a debounced timer, a counter | `fetch` | the node, called by the channel | callers woken by one timer race for one shared map; replies are partial, malformed or missing | every call settles with its own answer or an error, each request leaves once, nothing is kept for ever |
| `RpcChannel` (`channel/rpc_0_7.ts`, `rpc_0_6.ts`) | `chainId`, `specVersion`, `retries` | one per JSON-RPC method, `waitForTransaction`, `buildTransaction`, `getChainId` | the node | polling with one budget of retries against nodes that lag; a cached chain id that a wallet may set meanwhile | what is returned of a transaction is so; the chain id is never a former one |
| `RpcProvider` (`provider/rpc.ts`, `utils/responseParser/rpc.ts`) | its channel | the channel's methods, `waitForBlock`, `verifyMessageInStarknet`, estimates, `isClassDeclared`, `prepareInvocations`, `getContractVersion` | the channel | polling; a verdict told from the text of an error; a list reordered between look-ups; margins in whole numbers | a block that is returned exists; a lost call is no verdict; a suggested fee pays what was estimated |
| Starknet ID (`provider/extensions/starknetId.ts`, `utils/starknetId.ts`) | none | `getStarkName`, `getAddressFromStarkName`, `getStarkProfile` | its contracts on each chain | a numeral system with two alphabets and special endings; calls that refer to each other's answers by place | names lead back to their addresses; a profile is the person's |
| class hashes (`utils/hash/classHash.ts`, `utils/contract.ts`) | none | one per kind of class, `extractContractHashes` | - | parts of parts, and fields that do not count | two classes share a hash only if they are the same |
| `Account` (`account/default.ts`) | address, signer, `cairoVersion`, `transactionVersion` | `execute`, `declare(IfNot)`, `deploy(Contract)`, `declareAndDeploy`, `deployAccount`, estimates, simulations, outside execution | provider, signer | the version, the nonce and the fee of one transaction are read in different steps and computed in different functions, while other calls run | what is signed is what is sent; nonces fit; what is returned is on the chain |
| `WalletAccount` (`wallet/account.ts`) | address, its provider's channel | `execute`, `declare`, `deploy`, `signMessage`, two listeners | a wallet: requests and events | events of the wallet between the steps of `connect` | its address and network become the wallet's |
| signers (`signer/*`) | a key, or a device's path and a cached public key | `getPubKey`, `signMessage`, `sign*Transaction` | a Ledger device, in commands | one transaction in several commands, calls of two signers on one device | a signature is over the very transaction, by the very key, that was asked for |
| `Contract`, `ContractFactory` (`contract/*`, `utils/events/index.ts`) | address, ABI, its events | `call`, `invoke`, `populate`, `estimate`, `deploy`, `parseEvents` | account or provider | arguments in many forms pass through ordering, checks and encoding; events are found by shifting keys out of a receipt | the contract reads what the page meant, and the page what the contract returned and emitted |
| `CallData` and its helpers (`utils/calldata/*`, `utils/cairoDataTypes/*`) | none | `compile`, `validate`, `parse` | - | recursive types, boundaries, one value in several forms | see above |
| transaction hashes (`utils/hash/transactionHash/*`) | none | one per kind and version | - | nine functions choose fields by kind and version | the hash is the one the network computes |
| typed data (`utils/typedData.ts`, `utils/merkle.ts`) | none | `getMessageHash`, `verifyMessage`, trees and proofs | - | two revisions, presets, contexts, enums, trees | equal hashes mean equal messages |
| outside execution (`utils/outsideExecution.ts`, `utils/src5.ts`) | none in the library; a nonce at the account's contract | `getOutsideTransaction`, `executeFromOutside` | two accounts, one contract | signed now by one, executed later by another; hashed and encoded apart | it does what was signed, or fails for a reason outside the library |
| numbers, keys, JSON, formatter, types | none | conversions | - | - | see [What is not modelled](#what-is-not-modelled) |

How they interact, and which module composes what: `Account` awaits its provider
for a nonce, an estimate and a chain id and its signer for a signature
(`AccountTransaction` is one such call in detail; `AccountFlow` is several calls
and accounts over one chain, in which `waitForTransaction` is what
`TransactionWaiter` shows it to be). A signer hashes with `TransactionHash`
(`Signers` EXTENDS it) or `TypedData` (`SignedMessage` EXTENDS it, and it
`MerkleTree`). `ContractCall` EXTENDS `Events`, and it `Calldata`; it goes on to
the account's `fromCallsToExecuteCalldata`, and to the receipt. `RpcProvider` EXTENDS
`BlockWaiter`, `StarknetId`, `FeeEstimate` and `ClassHash`. All requests leave through
a channel, perhaps through `BatchClient`, whose promise to its callers is `RequestReply`.

## Modules

Every module names its source in its header, and `PROJECT.json` maps each
definition to its lines. An action is one stretch of code between two awaits, with
everything it assigns. `Mutant:` in a comment marks a definition that stands in
for another one in a test of the properties; nothing uses it otherwise.

| module | of | state and actions |
|---|---|---|
| `BatchClient` | `utils/batch/index.ts` | The client's maps, the timer and the event loop's queue of ready continuations. `StartFetch` is `fetch` up to its delay (store, restart the timer); `TimerFires` wakes the callers in order; `Resume` takes and clears the pending map, finds or makes the promise; `Reply` is the node (rejected, no array, an array of some answers); `Settle` deletes the promise and picks the answer by id. A new `fetch`, the timer and a reply run only when the queue is empty, as on a JavaScript thread. |
| `RequestReply`, `BatchRefinement` | - | What a batching client promises (open, posted in groups, answered with one's own answer or failed), and the refinement mapping. |
| `TransactionWaiter` | `waitForTransaction` of both channels | The transaction advances on the network; a poll may see an older state, miss the hash, or fail. `StatusFails`, `StatusArrives`, `ReceiptFails`, `ReceiptArrives` are the turns of the two loops and their one counter. |
| `BlockWaiter` | `waitForBlock` of `provider/rpc.ts` | A chain that grows, nodes that lag, and the turns of the loop. |
| `RpcProvider` | `provider/rpc.ts`, `provider/extensions/starknetId.ts`, `declareIfNot` | One call, one action per await: the look-ups of names and profiles with the contracts they ask, estimates, `LookUpClass` and `Declare`, and `prepareInvocations`, which keeps, drops or moves one invocation at a time. Any request may go unanswered, and others declare classes meanwhile. |
| `StarknetId` | `utils/starknetId.ts`, `provider/extensions/starknetId.ts` | The numeral system as it is written, with alphabets of any sizes; texts and their dots; the nine calls of a profile and the reading of their answer. The five letters of `stark` are one letter. |
| `FeeEstimate` | `utils/stark.ts`, `utils/num.ts`, `responseParser/rpc.ts` | Fees and bounds of an estimate with their margins, in whole numbers. |
| `ClassHash` | `utils/hash/classHash.ts`, `utils/contract.ts` | What is hashed of a class of Cairo 0, of Cairo 1 and of an assembly, and what a payload to declare is made of. |
| `AccountTransaction` | `account/default.ts`, `utils/stark.ts`, `buildTransaction` of the channel, `signer/default.ts` | One call from its arguments to its requests. The nonce, the suggested fee, the version of the estimate and of the transaction, the signature and what the channel writes are computed as in the code, for `execute`, `declare`, `deployAccount`, the three estimates, `estimateFeeBulk` and `simulateTransaction`; other transactions of the account happen in between. |
| `AccountFlow` | `account/default.ts`, `parseUDCEvent` | Several calls of several accounts at once, one action per await: look up the class, estimate, read the nonce, send, wait. The chain takes, rejects or reverts transactions. |
| `WalletAccount` | `wallet/account.ts`, `getChainId` and `setChainId` of the channel | The wallet's account and network, its messages in their order, the object's address and its channel's cached chain id with the requests for it in flight; one order of the page (`execute`, `declare`, `signMessage`, or `deploy` with the address it tells) until the user agrees. |
| `Calldata` | `utils/calldata/*`, `cairoDataTypes/uint256.ts`, `uint512.ts` | The codec as recursive operators: ordering by the ABI, checks, encoding, decoding. |
| `Events` | `utils/events/index.ts` | The events of an ABI by the selectors that lead to them, and the reading of logs, with the keys that are left of them. |
| `ContractCall` | `contract/*`, `utils/transaction.ts` | `Compile`, `LearnVersion`, `Upgrade`, `Execute`, `Answer`, `Parse`, `Mine`, `ParseEvents`: the arguments told from the options after them, one call through the codec there and back, through the multicall encoding of an account whose Cairo version is learned once, and its receipt (`ReceiptTx`). What the arguments mean is defined next to it, from the types alone. |
| `TransactionHash` | `utils/hash/transactionHash/*` | The nine hash functions; a hash is the tuple of what is hashed. |
| `Signers` | `signer/*` | Key signers, both Ledger signers as the commands they send, the device and the transport. `ProtocolHash` is what the network computes. |
| `MerkleTree`, `TypedData` | `utils/merkle.ts`, `utils/typedData.ts` | Trees and proofs; types, values and messages hashed, and next to it what a message means (`Meaning`). |
| `SignedMessage` | `signMessage`, `verifyMessage`, `verifyMessageInStarknet` | A message signed, another one verified, with the key or by a contract whose calls may be lost; trees and proofs. |
| `OutsideExecution` | `getOutsideTransaction`, `executeFromOutside`, `utils/outsideExecution.ts`, `utils/src5.ts` | Orders made in steps (version, nonce, chain id), executed by others in batches and in time, at a contract that reads the calldata and hashes it anew by SNIP-9. |
| `BatchClientProof`, `TransactionWaiterProof`, `RpcProviderProof`, `AccountTransactionProof`, `AccountFlowProof`, `WalletAccountProof`, `SignersProof`, `OutsideExecutionProof` | - | Invariants and proofs. |
| `MCBatchClient`, `MCTransactionWaiter`, `MCRpcProvider`, `MCAccountFlow`, `MCContractCall`, `MCSigners`, `MCSignedMessage`, `MCOutsideExecution` | - | Values of the constants for TLC. |

What is outside the repository (the node and the network, the wallet, the Ledger
device and its transport, an account's contract) is modelled from how the library
uses it, and marked `external` in `PROJECT.json`. Hash functions and signatures are
injective: a hash is the tuple of its inputs, a signature the hash and the key.

## Runs

The passing runs fire every action of their modules. State counts are of
distinct states. A run whose configuration says `CHECK_DEADLOCK FALSE` is of a
system that stops: its calls have returned, or its counters are at their bounds.

**`batch`** (`MCBatchClient`, 70,720 states). Three concurrent calls of
`fetch` with ids made up by the client or given (`x`, `y`, each once). Three is
enough for a call that starts while two others wait or are in flight, two in one
batch and one in the next. Shows: no waiting request is lost (`NoRequestLost`);
none is posted twice and no POST is empty, whichever woken call takes the map
(`PostedOnce`); an entry of `batchPromises` belongs to an unfinished call or to a
rejected batch (`PromisesBelong`); the client implements `RequestReply`, so each
call ends with its own answer or an error after its request left
(`ImplementsRequestReply`); and each call settles (`EveryFetchSettles`).
`ReuseIds = FALSE`: a caller that passes an id again after its batch was rejected
is the first disagreement below.

**`txwait`** (`MCTransactionWaiter`, 567). `Retries = 3`, every pair of three
lists of error states and three of success states: the defaults, a caller for whom
a revert is an error, one who drops `REJECTED`, one who waits for L1, one for whom
only the execution counts. Shows: what is returned is in a success state and in no
error state, and an error state is thrown only of a transaction in one, however old
the answers (`OutcomeTold`, though a reverted transaction is in `REVERTED` and in
`ACCEPTED_ON_L2` at once); no timeout before `1 + Retries` requests have been sent
(`NoEarlyTimeout`); and once the transaction has ended, so does the wait
(`WaitEnds`). The counter is the same for both loops; 3 lets it run out in either,
or in the second after the first spent some of it.

**`provider`** (`MCRpcProvider`, 89,008). One call of a provider each time; calls
of one provider share only what `batch` and `wallet` are about. Requests fail at any
point. Shows:

- `waitForBlock` (chains of height up to 4, `Retries = 3`, all kinds of block
  identifier, nodes that lag) returns only of a block that exists, and gives up only
  after all its tries (`OutcomeTold`).
- Every name of one label of up to four letters, of two labels of up to two, or of three
  labels of one, over three basic letters and two big ones, is written for its numbers
  and leads back to its address, and no other name leads there (`NamesLeadHome`; letters of neither
  alphabet and labels that begin with `stark` are exceptions, item 15 below: a name is
  safe again if that label and all that follow are just `stark`, which takes three
  labels to see). Four
  letters give the two special endings, up to four stars, a hidden zero at the end,
  and the numbers these could be taken for.
- The profile an address is told is that person's, with each of its five parts there
  or not and a picture with or without metadata (`ProfileIsOfAddress`).
- A fee that is suggested pays what was estimated, and so do the bounds, unless the rest
  of their division is dropped and the margin is below one unit
  (`EstimateIsAffordable`); fees up to 38 under four margins, `[50, 50, 50]` the
  default among them.
- Classes that are alike but for one part are told apart, by `declareIfNot` and by
  `prepareInvocations`, while others declare them too; what goes on is declared first
  and otherwise in its order; a class is declared only with the assembly it compiles to
  (`DeclarationsAreRight`). Every pair of 59 classes; each of 108 assemblies
  given for a class that compiles to one of twelve; lists of up to three invocations.
- Every call ends, a wait whatever the chain does (`CallEnds`).

**`account_tx`** (`AccountTransaction`, 289,368). Every method with every
combination of the account's version, a given version, nonce, fee and
`skipValidate`, bulks of up to two invocations of all kinds, with other transactions
of the account in between (`MaxNonce = 2`). Shows: the signature is over the very
version, nonce and fee that are sent, though the channel writes the version once
more, and over those of any estimate or simulation that the node is asked to validate
(`SentIsSigned`); the fee was given, or estimated for that version and hence
in its unit, and what is estimated or simulated, in a bulk too, has a version the
network knows for its kind (`VersionsFit`). Both are stated for versions the network
knows (`Supported`).

**`flow`** (`MCAccountFlow`, 117,216). Three calls at once: a `declareAndDeploy` of
one account; any method, of the same account or another, at the same address, with
and without a given fee; and an `execute` of the first account, which takes nonces,
or a deployment of the other one. Requests fail at any point. Shows: no call's two
transactions share a nonce and none waits for a nonce nobody uses (`NoncesFit`); a
deployment whose fee was estimated is of a declared class and reverts only if its
address was taken (`DeploymentsCanSucceed`); an address that is returned holds the
contract, and no two calls return the same one (`AddressesHold`); `declareIfNot` and
`declareAndDeploy` go on only with the class declared (`GoesOnIfDeclared`); every
call ends (`EveryCallEnds`).

**`wallet`** (`WalletAccount`, 745,748). Two accounts, three networks (the node's
and two others), three switches of the user, two requests for the chain id in
flight, one order of the page; an object made by `connect` or by the deprecated
constructor. Shows (`WorksWithWalletsAccount`): the address is the wallet's account
once the messages are handled, and always an account; and what is deployed through
the wallet is at the address the page was told, if the contract is not unique to its
deployer, or the object knew the wallet's account and the user agreed with the same.
The chain id is the node's or the wallet's present network (`NoFormerChain`: it may be
the node's although the wallet has another, see below); and the address settles (`AddressSettles`).

**`contract_call`** (`MCContractCall`, 253,444). Twenty-five methods with
every kind of type, in ABIs of each version, with good and bad arguments as a list,
as a list with options after it, and by name, in any order and in several forms of one
value, over every path: `call`, the method on the object, `populate`, the factory's
`deploy`, and calldata without an ABI. The numbers are small: 2^128 is 2, the field's
prime 90 and the bound that the checks have for a felt 100, a `u8` ends at 2, an
`EthAddress` at 3, a word of a byte array has 2 characters; so every range has its last
number, the first beyond it, and one far beyond. Hexadecimal has base 3 and the
characters are 0 to 8: those below 3 are the control characters, which have one digit,
and 1 is the newline. Shows: arguments that mean something reach the contract as what
they mean or are refused (`SentIsMeant`, but for texts with a control character after
the first place of a word, item 20 below); what the checks let pass is in range
(`CheckedIsInRange`, but for felts in decimal text or beyond the prime, item 21); what the
contract returns is what the page reads, and what it was given can be read back
(`ReadIsReturned`, but for words that begin with a control character and an empty
`bytes31`, item 20); an account makes the very calls it was asked to make, with their own
data, in both encodings of a multicall, and a deployment is estimated for what is
deployed (`ExecutesTheCalls`, but for an account that was upgraded after its Cairo
version was learned, item 19, and for negative numbers, item 22). The call's receipt then
has up to two logs, of the contract and of others, for three ABIs (components with events
of one name; a flat component, and one below a nested variant; Cairo 0), and is parsed
twice: what is read first is what was emitted, and nothing else is read later; of a
transaction that did not succeed nothing is read (`EventsAreRead`, stated for events
the code can find, item 14 below).

**`contract_salted`** finds a violation of `DeployIsMeant` (the sixth disagreement).

**`signers`** (`MCSigners`, 237,200). Every kind and version of transaction,
message and key with every signer, next to a second call on the same device, over a
transport that queues commands, delivers them in any order, or refuses one while
another is on its way; a command carries 3 felts where it is 7 in the code, so that
calls take one, two and three commands. Shows: a signature is over what the network
will hash of the very transaction, and, unless another signer's commands came
between, by the very key, and no part of it is left on its way when it is returned
(`AnswersAreOwn`); a call throws only for the reasons listed with the property,
everything else is signed (`FailureHasCause`); every call ends (`EveryCallEnds`).

**`ledger_deploy_data`** finds a violation of `DeploymentDataIsSent` (the seventh).

**`messages`** (`MCSignedMessage`, 88,035). About ninety messages of both revisions,
each verified against each, from two accounts; felts below 16, `u128` below 8, `i128`
from -4 to 3; arrays up to two elements; contracts that answer, refuse, or do not know
either of the names that `verifyMessageInStarknet` tries, with errors that hold any of
the phrases it looks for; trees of up to five leaves, which has odd levels at two
heights, and for each felt and each node of them every end of a proof, the empty one
too. Verification in Starknet is tried for the message signed and two others (`Sample`).
Shows: a signature is valid only for a message of the same meaning (`VerifiedIsSigned`),
and for each one of that meaning with the same types (`SignedVerifies`); the verdict of
Starknet is the contract's and a lost call is none (`VerdictIsContracts`); every leaf
has a proof that verifies, and what verifies with a path is a node of the level that the
path's length tells, or the zero that fills up an odd level (`ProofsAreOfMembers`): with
a path as long as the tree is high, a leaf, but with a shorter one a branch, and with
none the root (item 23).

**`outside`** (`MCOutsideExecution`, 871,616). Four orders of two accounts: for
anybody, for one executor, and for a caller that is no address; of one call, two and
none; version and nonce given or asked for; executed alone and together by two
executors at times 1 to 3, while classes are replaced and requests fail. Two random
nonces, so that they collide. Shows: what is executed is what was ordered, for whom
and when (`ExecutedAsOrdered`); an execution reverts only for a reason outside the
library, so that what is hashed and what is encoded agree (`RevertHasCause`).

## Fairness

Only the liveness properties use it.

- `batch`: a timer that runs fires, ready continuations run, and every POST settles
  (`WF_vars(Step)`): the event loop, and `fetch` of the platform, which rejects in
  the end. No caller has to call.
- `txwait`: the loops go on, since `wait()` is a timer, and a node that answers does
  not lag for ever. The network need not include the transaction; no request has to
  fail. `WaitEnds` promises nothing of a transaction that never ends, because the
  code does not: answers that say RECEIVED are not bounded by the retries.
- `provider`: every request is answered or fails, and the loop of `waitForBlock` goes
  on; the chain need not grow, nor others declare.
- `flow`: requests settle (a failure is one way), and the chain gets to every
  transaction, as the sequencer does for one with the next nonce.
- `wallet`: the page handles its messages, and the user answers the wallet's
  question, with yes or no. Nothing is assumed of the network.
- `signers`: the device processes a command it was sent and its user answers.

The `wallet` and `flow` assumptions about a user and the chain are of the
environment: without them the code waits for ever, as it must.

## Proofs

TLC checks the instances above; TLAPS proves the following of every instance.

**`BatchClientProof`**, for any set of calls and any ids, provided ids are not used
again (`~ReuseIds`): `TypeOK`, `NoRequestLost`, `OwnAnswer`, `PostedOnce`,
`PromisesBelong`, and `ImplementsRequestReply`. None of these is inductive. The
invariant `IInv` says, next to the types: an id stands for one call and the counter
is ahead of every id it made (`IdInv`); the event loop's queues hold the calls whose
`pc` says so (`QueueInv`); a pending request belongs to a call that has not resumed,
and once a woken call finds a promise the map has been taken (`PendingInv`); a posted
request belongs to a woken call, whose promise is kept until it resumes
(`BatchInv`); a call that has resumed awaits the batch that carries its request
(`AwaitInv`). The point of the argument is the second of two calls that the same
timer wakes: it finds an empty map, and must find its promise. For the refinement,
`Resume` of the call that posts is `Post` of `RequestReply`, since `IInv` says that
the pending map holds exactly the open requests; every other step opens, ends, or
stutters.

**`TransactionWaiterProof`**, for any number of retries and any lists of states such
that an error state tells how the transaction ended, RECEIVED is not asked for as a
success, and who waits for L2 takes L1 (`StatesAssumption`, what the defaults and
the documentation's examples satisfy): `TypeOK`, `OutcomeTold`, `NoEarlyTimeout`. The
invariant adds the relation between the requests sent and the retries left
(`CountInv`), and that a transaction on its way to be returned is in no error state.
Two lemmas carry the proof: what a lagging node says of an end agrees with the
present (`ReportsAgree`), and ends last (`OutcomesLast`).

**`AccountTransactionProof`**, for any bound on the nonces and any length of a bulk:
`SentIsSigned` (of what is sent and of what is only validated), `VersionsFit`. The
invariant adds which phases belong to which operation (`PhaseFits`), and that the fee or
the bounds that are on their way to be signed were given or estimated for the version
that will be sent (`MoneyFits`). Two lemmas carry the proof: for each version that its
kind may have, what is computed for the estimate, for the transaction and by the channel
is the same (`SendVersionFits`), and the one version of a bulk becomes one that each
invocation may have (`BulkVersionFits`).

**`AccountFlowProof`**, for any calls, accounts, addresses and choice of jobs:
`TypeOK`, `NoncesFit`, `DeploymentsCanSucceed`, `AddressesHold`, `GoesOnIfDeclared`.
The invariant is a conjunction for each call (`CallInv`: what it has sent by where it
is, that the chain has counted every nonce it read, sent or used, that it goes on
after its declaration has been included, what became of its transactions) and
`DeployedOnce` for each pair. It is kept for all the calls that do not take a step
because steps of others only let the chain grow (nonces rise, classes and contracts
stay, a transaction's end is final): so each action is proved for the call that
takes it, and one lemma covers all others.

**`WalletAccountProof`**, for any accounts and networks and any number of switches, of
messages on their way and of requests for the chain id: `WorksWithWalletsAccount`,
`NoFormerChain`. Neither is inductive, since what the object knows lags behind the
wallet. The invariant looks at the queue: of the messages on their way that tell of a
thing (the account, the grant, the network), the last one tells what the wallet has;
and if none is on its way, the object has been told (`AccountIsTold`, `ChainIsTold`).
`OrderIsTold` adds what the page was told of a deployment while the user thinks.

**`OutsideExecutionProof`**, for any orders, nonces and batches, any number of calls
and any length of their data: `ExecutedAsOrdered`, `RevertHasCause`. First, about
data: the calldata that `buildExecuteFromOutsideCallData` lays out, one list after the
other with their lengths, is read by the contract as the same execution, and a batch
of several as their sequence. Both sides are recursive functions; induction over the
place in the list is had from the least place where it would fail. Then the invariant:
what was made of an order is what it asked for, its version is one that was found, its
nonce one that was free when it was asked for, or else the order is counted among
those whose nonce another has used or whose class was replaced. `OutsideAssumption`
says that addresses, selectors, data, times and nonces are felts (the code makes them
so), and that the caller is `ANY_CALLER`, a felt, or a text that is no address.

**`SignersProof`**, for any jobs of any number of callers, any number of calls and
arguments, and any length of a part (`PartLen > 2`): `SignedIsAsked` with `OwnKey` (a
signature that is returned is over what the network hashes of the transaction that was
asked for, and by the signer's own key, unless another call's commands came between),
and `AnswersAreOwn` for a transport that keeps the order of commands. Three steps: the
library's hash of a supported transaction is the network's, part by part, in both
layouts; the commands of a call, whatever the method and the lengths, begin with its
path, which comes nowhere else, and end with one that is awaited (by induction over
the list of calls); and the invariant, which says what is on its way. What a call has
still to send is the end of its commands; its path is alone of it in flight, and one
command at most is awaited; and unless the call met commands of another, the device
holds its path from the first command to the last. The hypothesis of
`AnswersAreOwnAlways` is needed: on a transport that delivers out of order, two calls
that sign the same long transaction have equal parts, and the one's may stand for the
other's; no signature is wrong, but a part is left on its way. `SignersAssumption` says
that a job's method is the one for its kind of transaction, and that a declaration has
a compiled class hash exactly from version 2 on, as `declare` chooses the version
(`account/default.ts`).

`FailureHasCauseAlways` is the other half: a call throws only for the reasons that
`FailureHasCause` names. It needs what the first invariant does not say, the device's
state after each command. Per signature, by induction over its commands
(`CallsAreCollected`, `ArgumentsAreCollected`, `ScriptIsTaken`): the device takes each,
is complete with the last and not before, and what it has collected by then hashes to
the library's `msgHash`; so calls that were cut into parts come together again, and the
number of calls or arguments that was announced is met only at the end. Per state,
`CauseInv`: a call is clear while the device can be told of its transaction, the
transport does not part its commands, and neither a refusal nor another's command has
met it; a clear call that runs has its next commands side by side in flight (`HasBlock`)
and the device is exactly that far with it, or has answered (`HasWorked`); a clear call
that has ended has not failed. What is not clear is one of the reasons: that only an
invocation with a long call has commands nobody awaits is `NotAwaited`.

**`RpcProviderProof`**, for any calls of a provider, any chain and any failure:

- `OutcomeTold`, for any number of retries and any height, of a wait by itself and
  among all calls. The invariant adds `TriesArePolls`: while it polls, every try that
  is gone was a poll, so that the last one is not given up early.
- `EstimateIsAffordable`, for any estimate and any margin in whole percents. The margin of
  a product that is at least 100 is a unit, and a unit more than the quotient pays the
  rest of the division.
- `DeclarationsAreRight`, for any classes, payloads, assemblies and lists of
  invocations. Two lemmas carry it: classes with one hash are the same
  (`ClassesAreApart`), and so are assemblies (`AssembliesAreApart`). Entry points are
  hashed as one list, so the lemmas are about lists of rows that are written one after
  the other: with rows of one width each value is where the width puts it
  (`RowsAreSpread`), and the rows can be told from the list (`RowsAreApart`). The code
  of an assembly is hashed by segments; equal leaves have equal lengths, so the
  segments begin at the same places and make up the same code (`SegmentsMakeCode`). The
  invariant says how far `prepareInvocations` is (`PreparedSoFar`): each invocation before
  is kept or its class is on the chain, and what is kept is declarations first, then the
  others in their order.
- `NamesLeadHome`, for alphabets of any size and names of any number of labels of any
  length, with the exceptions the property names. A letter is the lowest digit of its
  number and the rest are the rest (`LetterIsWritten`, `LetterIsRead`), the numbers of
  what follows only get smaller (`NumbersGrow`), and so the text is read back from its
  end (`TextIsReadBack`) unless it ends as an even number of stars is written; the
  rewriting of the endings keeps names away from that and is undone (`EndIsReadBack`,
  `LabelIsReadBack`). Labels joined with dots are split again (`SplitIsJoined`,
  `LabelsAreApart`), and the first `.stark` is the last one (`TailIsCut`, `NameIsSplit`)
  unless a label begins with it. Together: two names with the same numbers are one
  (`DomainsAreApart`). The invariant, `NamesInv`, says what is known at each await of
  the two look-ups: the service is on the chain, and what was asked back is the name of
  the address.
- `ProfileIsOfAddress`, for any name, data, token and metadata of a person, on any
  chain. What each of the nine calls is answered is proved from what it refers to in the answers before (`IdIsAnswered`, `FieldIsAnswered`,
  `TokenIsAnswered`, `PictureIsAnswered`), so the run of the calls is known place by place,
  with the ninth answer or without it (`AnswersFollow`, `ResultsAre`). An answer of any
  number of parts, each after its length, is read back as it was put together
  (`PartsAreWithin`, `PlacesAreFound`, `PartsAreRead`), and the name is read from its
  numbers as above. The invariant, `ProfileInv`, adds to `NamesInv` that all six contracts
  are where they are looked for.

`ProviderAssumption` (`IsCall`) says what a caller can give and what the network holds:
labels are not empty, the data, the token and the metadata of a person are numbers, a node
that tells of no data gas makes the fee of gas and price, a payload that names its
class hash names its own, the segments of a compiler cover the code, a list
of invocations is not empty (the channel's request would be), and a class of Cairo 0 does
not take for its attributes what stands for none.

TLAPS cannot use the library's induction theorems, which take an operator. Where a fact
holds along a list, the proofs take the least place where it would not
(`LeastNatural`, by `WFMin` on a set); a function that a model defines by recursion is
shown to exist first, since TLA+ gives it as some function that satisfies its equation.
So the modules that are proved about use recursive functions, or none.

Only model-checked:

- the liveness properties: fairness with `ENABLED` is beyond TLAPS 1.4.5.
- `ContractCall` and `SignedMessage`, which reach recursive operators (the codec and the
  types are recursive in themselves), and these take away the prover's arithmetic.

## Where the code and its documents disagree

Met while modelling; each model does what the code does. Items 6 and 7 have runs that
exhibit them, and findings in `PROJECT.json`; the others show as exceptions in the
statement of a property, or in the comment of a definition.

1. `utils/batch/index.ts:117,124`: a rejected batch throws before `delete
   this.batchPromises[requestId]`, so its promise stays under the ids it carried. A
   `fetch` that passes one of them again finds it, posts nothing and fails at once,
   though line 116 says "If there is no promise for this batch, create one". The
   library's own channel counts its ids up (`channel/rpc_0_7.ts:147`), so only who uses
   `BatchClient` directly can meet this.
2. `provider/rpc.ts:156`: `waitForBlock` tests its counter after it has found the
   block, so the last try throws "timed-out"; and it compares with `===` (line 149),
   so a block that was passed between two tries is never found.
3. `account/default.ts:347`: `execute` and `deployAccount` take version 2 from their
   details as it is, sign it, and the channel writes version 1
   (`channel/rpc_0_7.ts:451`): the signature does not match, though the guide says
   that the given version "overtakes" the account's (`src/www/docs/guides/interact.md:178`).
4. `utils/events/index.ts:271`: `deployContract` of a transaction that reverts
   returns with no address, though the type promises one (`types/account.ts:59`).
5. `wallet/account.ts:74`, `channel/rpc_0_7.ts:164`: an answer to `starknet_chainId`
   that comes after `networkChanged` overwrites what it set. Line 173: the wallet may
   deploy a unique contract with an account other than the one its address was told for.
6. `contract/contractFactory.ts:66` (run `contract_salted`): any option given to
   `deploy` switches off the parsing of the arguments.
7. `signer/ledgerSigner221.ts:406` (run `ledger_deploy_data`): the command for the
   deployment data carries the paymaster's data.
8. `channel/rpc_0_7.ts:319,347`: polls that say RECEIVED spend the retries that are
   there for failures, and do not end the loop.
9. `account/default.ts:356` hands `skipValidate` on to the fee estimate, and line 186
   the caller's `resourceBounds`, which the types call "ignored" there
   (`types/account.ts:42-43`). Line 127: `getNonceSafe` takes every error for an
   account that does not exist. Line 394: `declareIfNot` takes every error of the
   look-up for a class that is not declared. Line 1015 with `channel/rpc_0_7.ts:664`:
   a bulk with a V3 declaration throws, for want of a tip.
10. `utils/calldata/tuple.ts:84` tears a tuple at the comma of a `Span` of tuples;
    `validate.ts:393` skips a Cairo 1 parameter whose name ends in `_len` but not its
    argument; empty structs, and arrays of `ByteArray`, `bytes31` and `NonZero`, are
    refused by the checks; a `CairoCustomEnum` with undefined variants cannot be
    compiled, unlike in the guide (`src/www/docs/guides/cairo_enum.md:282`).
11. `signer/ledgerSigner221.ts:317,422`: the parts of a long call are sent in a
    `forEach` that is not awaited. Empty lists of calls and constructors without
    arguments cannot be signed; nor can fee versions or accounts of Cairo 0. Two
    signers of one device share its path between the two commands of a blind
    signature (`ledgerSigner111.ts:318`).
12. `utils/typedData.ts`: `getDependencies` misses types in variants with several
    elements, and lists in variants; a message that redefines a type of the library
    is hashed with one definition and encoded with the other; revision number 1 is
    not revision `'1'`; `[a, b, c]` and `[a, b, c, 0]` have one root; a `merkletree`
    inside a list, which has no context, loses the type of its leaves, which are then
    taken for felts (line 215).
13. `account/default.ts:707`: a nonce of 0 is replaced by a random one. In
    `getOutsideTransaction`, `if (!supportedVersion)` is never true, since
    `UNSUPPORTED` is `'0'`, which is truthy: an account without SNIP-9 gets another
    error than the one meant. `utils/src5.ts:31` takes every error for a no.
14. `utils/events/index.ts:205`: `parseEvents` shifts the keys of the receipt itself, so
    a second parse of it loses the events. Line 114 keeps only the last name if any
    variant on the way is flat, so an event of a flat component below a nested variant
    is passed over, or makes the parse of the whole receipt throw; line 102 takes the
     first variant of a type, so a type that two variants have is found by one of them.
15. `provider/extensions/starknetId.ts:105` removes the first `.stark` of a name and not
    the last, so `me.starknet.stark` is looked up as `menet.stark`;
    `utils/starknetId.ts:113` passes over a letter of neither alphabet, so a name with a
    letter mistyped may lead to another person.
16. `utils/stark.ts:232` divides by the gas price: an estimate with the price 0 throws a
    `RangeError`. It drops the rest, so with margins of 0 the bounds may be below the
    fee that was estimated.
17. `provider/rpc.ts:626` puts each declaration in front of the invocations so far, so
    that several of them come in reverse order; line 602 takes every error of the node
    for a class that is not declared (a request that got no answer is thrown); line 590
    makes a look-up of a Cairo 1 class throw if neither its assembly nor that hash is
    given, though only the class hash is needed.
18. `contract/default.ts:51`: a last argument with a property that has the name of an
    option (`nonce`, `signature`) is taken for options. The checks then refuse the
    arguments as too few, except in `deploy` (item 6), which drops the argument.
19. `account/default.ts:137`: the Cairo version is read once, so an account that is
    upgraded from Cairo 0 afterwards encodes its calls as before.
20. `utils/shortString.ts:121` joins the hexadecimal digits of the characters without
    padding them, and `/./g` passes over newlines: `'a\t'` is sent as `0x619`, and
    `'a\n'` as `'a'`, though line 109 promises the felt of any short ASCII text. Line
    137 reads two digits at a time, so a text that begins with a control character is
    not read back, nor is an empty `bytes31`, which is read as the digit of 0.
21. `utils/calldata/validate.ts:40` takes every string that is not hexadecimal for a
    short string, so a felt in decimal text is not checked at all. The bound of line 44,
    2^252 - 1, lies beyond the field's prime, and so do those of class hashes and
    addresses (lines 143 and 151).
22. `utils/transaction.ts:53,158`: a multicall compiles its calldata once more, which is
    text by then; so the `"-1"` of a negative number is encoded as a short string. The
    checks refuse such a number by itself, but not in a tuple or in `populate`.
23. `utils/merkle.ts:154`: `proofMerklePath` is not told how high the tree is, so it
    says yes to a branch with a shorter path, and to the root with an empty one.
24. `channel/rpc_0_7.ts:265` and `provider/rpc.ts:255` document `skipValidate` of a
    simulation as "(default false)"; it is true (`rpc_0_7.ts:274`, and
    `account/default.ts:308`). There line 326 hands on `skipExecute`, but the channel
    reads `skipFeeCharge`, so the caller cannot have the fee charged.

## What is not modelled

- Cryptography: curves and hashes are injective functions, randomness is a choice.
- Conversions without state: numbers and hexadecimal text, JSON, addresses, the parsers
  of answers that copy fields, `formatter`; selectors. Each is a function of one value
  that unit tests reach.
- Requests that are one call and its answer: most methods of `RpcChannel` and
  `RpcProvider`, `wallet/connect.ts`.
- `RpcChannel` 0.6 is the same code as 0.7 but for one method that 0.7 adds
  (`getBlockWithReceipts`), and the types of its answers; it is not modelled twice. The
  estimates it is given have no data gas, which `FeeEstimate` does model.
- Nonces given by the caller in `AccountFlow` (they are in `AccountTransaction`), and
  calldata, class hashes and the chain id in `AccountTransaction`.

## Plan

Done, in this order: the batching client and its abstract specification; the two
waiters; one transaction of an account; concurrent calls; the wallet; the codec and
contract calls; transaction hashes and signers; typed data and its verification;
outside execution; names, estimates, classes and the composition of the provider's
calls; the proofs of the batching client, both waiters, one transaction, the
concurrent calls, the wallet, outside execution, the signers, and of the provider's
waits, estimates, declarations, names and profiles.

Next:

1. State what a permit promises (used at most once, by whom and when it says) as an
   abstract specification that `OutsideExecution` implements.
2. Two accounts on one channel: the chain id of `WalletAccount` together with the
   signatures of `AccountTransaction`.
