---------------------------- MODULE WalletAccount ----------------------------
(***************************************************************************)
(* A WalletAccount of src/src/wallet/account.ts and the channel it reads   *)
(* the chain with.  The wallet, a browser extension, has the account and   *)
(* the network; what the object knows of them it learns from the wallet's  *)
(* messages.  The chain id is kept by the channel, which asks its own node *)
(* for it if nobody has set it.  What the page asks the account to do, the *)
(* wallet does with the account it has when the user agrees.               *)
(*                                                                         *)
(* The messages of the wallet arrive in the order they were sent.          *)
(***************************************************************************)
EXTENDS Naturals, Sequences

CONSTANTS
  Accounts,
  Chains,
  NodeChain,     \* the chain of the node behind the channel
  None,
  MaxMessages,   \* bound on the messages on their way
  MaxSwitches,   \* bound on what the user does in the wallet
  MaxAsks        \* bound on the chain id requests in flight

ASSUME WalletAssumption ==
  /\ NodeChain \in Chains
  /\ None \notin Accounts \union Chains
  /\ {MaxMessages, MaxSwitches, MaxAsks} \subseteq Nat

VARIABLES
  walletAccount,  \* the account selected in the wallet
  walletChain,
  switches,       \* how often the user has switched
  messages,       \* from the wallet, not yet handled
  request,        \* of wallet_requestAccounts: asked, granted or refused
  listening,      \* the listeners are registered, that is, the object exists
  address,        \* its address
  chainId,        \* the chain id kept by the channel
  announced,      \* the last network the listener was told of
  asks,           \* starknet_chainId requests in flight
  order           \* what the page has asked the wallet to do

vars == <<walletAccount, walletChain, switches, messages, request, listening,
          address, chainId, announced, asks, order>>

wallet == <<walletAccount, walletChain, switches>>
object == <<listening, address, chainId, announced>>

Message(what, value) == [what |-> what, value |-> value]

------------------------------------------------------------------------------
(* The wallet.                                                              *)

Switch ==
  /\ switches < MaxSwitches
  /\ switches' = switches + 1
  /\ UNCHANGED <<request, object, asks, order>>

SwitchAccount(a) ==
  /\ Switch
  /\ Len(messages) < MaxMessages
  /\ walletAccount' = a
  /\ messages' = Append(messages, Message("accountsChanged", a))
  /\ UNCHANGED walletChain

\* Both events are emitted at each change of the network, by the user or as the page
\* has asked for it with switchStarknetChain().
SwitchNetwork(chain) ==
  /\ Switch
  /\ Len(messages) + 1 < MaxMessages
  /\ walletChain' = chain
  /\ messages' = messages \o <<Message("accountsChanged", walletAccount),
                               Message("networkChanged", chain)>>
  /\ UNCHANGED walletAccount

\* A wallet that is locked, or disconnected, has no account to tell of.
Lock ==
  /\ Switch
  /\ Len(messages) < MaxMessages
  /\ messages' = Append(messages, Message("accountsChanged", None))
  /\ UNCHANGED <<walletAccount, walletChain>>

\* The user lets the page see the account.
GrantAccounts ==
  /\ request = "asked"
  /\ Len(messages) < MaxMessages
  /\ request' = "granted"
  /\ messages' = Append(messages, Message("accounts", walletAccount))
  /\ UNCHANGED <<wallet, object, asks, order>>

\* requestAccounts() rejects: connect() makes no object, and the constructor sets no
\* address.
RefuseAccounts ==
  /\ request = "asked"
  /\ request' = "refused"
  /\ UNCHANGED <<wallet, messages, object, asks, order>>

------------------------------------------------------------------------------
(* The object.                                                              *)

\* Mutant: the account the object was made with is kept.
KeepAddress(m) == IF address = None THEN m.value ELSE address

AddressAfter(m) == IF m.value = None THEN address ELSE m.value

\* Mutant: the chain id is set if it is not known.
ChainIdIfUnset(m) == IF chainId = None THEN m.value ELSE chainId

ChainIdAfter(m) == m.value

Received == Head(messages)

Handle(what) ==
  /\ messages # <<>>
  /\ Received.what = what
  /\ messages' = Tail(messages)
  /\ UNCHANGED <<wallet, request, asks, order>>

\* Mutant: connect() leaves the address to the listener.
NoAddressYet(m) == address

AnsweredAddress(m) == m.value

\* connect() makes the object with the account it was answered; the deprecated
\* constructor has made it before, and sets the address now.
HandleAccounts ==
  /\ Handle("accounts")
  /\ address' = AnsweredAddress(Received)
  /\ listening' = TRUE
  /\ UNCHANGED <<chainId, announced>>

HandleAccountsChanged ==
  /\ Handle("accountsChanged")
  /\ address' = IF listening THEN AddressAfter(Received) ELSE address
  /\ UNCHANGED <<listening, chainId, announced>>

HandleNetworkChanged ==
  /\ Handle("networkChanged")
  /\ IF listening THEN
       /\ chainId' = ChainIdAfter(Received)
       /\ announced' = Received.value
     ELSE UNCHANGED <<chainId, announced>>
  /\ UNCHANGED <<listening, address>>

------------------------------------------------------------------------------
(* The channel: `this.chainId ??= await ...`.                               *)

AskChainId ==
  /\ chainId = None
  /\ asks < MaxAsks
  /\ asks' = asks + 1
  /\ UNCHANGED <<wallet, messages, request, object, order>>

\* The answer is kept, whatever the channel has learned since.
AnswerChainId ==
  /\ asks > 0
  /\ asks' = asks - 1
  /\ chainId' = NodeChain
  /\ UNCHANGED <<wallet, messages, request, listening, address, announced, order>>

ChainIdFails ==
  /\ asks > 0
  /\ asks' = asks - 1
  /\ UNCHANGED <<wallet, messages, request, object, order>>

------------------------------------------------------------------------------
(* Orders: execute(), declare(), deploy() and signMessage().                *)

\* A plain order deploys nothing; a contract of a given class, salt and calldata is
\* deployed at an address of its own for each deployer if it is unique.
Kinds == {"plain", "shared", "unique"}

calculateContractAddressFromHash(kind, deployer) ==
  IF kind = "unique" THEN <<kind, deployer>> ELSE <<kind, None>>

\* Mutant: the address does not depend on the deployer.
ToldAsShared(kind) == calculateContractAddressFromHash("shared", None)

\* What deploy() will tell the page, from the address the object has now.
ToldAddress(kind) == calculateContractAddressFromHash(kind, address)

OnTheWay(what) == \E i \in DOMAIN messages : messages[i].what = what

Connected == request = "granted" /\ ~OnTheWay("accounts")

\* Every message about accounts has been handled.
UpToDate == Connected /\ ~OnTheWay("accountsChanged")

NoOrder == [step |-> "none", kind |-> "plain", told |-> <<"plain", None>>,
            informed |-> FALSE, asked |-> None, by |-> None]

\* One request to the wallet; `informed` and `asked` remember the moment for the
\* properties.
AskWallet(kind) ==
  /\ listening
  /\ order.step = "none"
  /\ order' = [NoOrder EXCEPT !.step = "asked", !.kind = kind, !.told = ToldAddress(kind),
                              !.informed = UpToDate, !.asked = walletAccount]
  /\ UNCHANGED <<wallet, messages, request, object, asks>>

\* The user agrees, and the wallet signs and sends with its present account.
FillOrder ==
  /\ order.step = "asked"
  /\ order' = [order EXCEPT !.step = "done", !.by = walletAccount]
  /\ UNCHANGED <<wallet, messages, request, object, asks>>

RefuseOrder ==
  /\ order.step = "asked"
  /\ order' = [order EXCEPT !.step = "refused"]
  /\ UNCHANGED <<wallet, messages, request, object, asks>>

------------------------------------------------------------------------------
\* connect() has no object until it is answered, the constructor has one at once.
Init ==
  /\ walletAccount \in Accounts
  /\ walletChain \in Chains
  /\ switches = 0
  /\ messages = <<>>
  /\ request = "asked"
  /\ listening \in BOOLEAN
  /\ address = None
  /\ chainId = None
  /\ announced = None
  /\ asks = 0
  /\ order = NoOrder

Next ==
  \/ \E a \in Accounts : SwitchAccount(a)
  \/ \E chain \in Chains : SwitchNetwork(chain)
  \/ Lock
  \/ GrantAccounts
  \/ RefuseAccounts
  \/ HandleAccounts
  \/ HandleAccountsChanged
  \/ HandleNetworkChanged
  \/ AskChainId
  \/ AnswerChainId
  \/ ChainIdFails
  \/ \E kind \in Kinds : AskWallet(kind)
  \/ FillOrder
  \/ RefuseOrder

Spec == Init /\ [][Next]_vars

\* The page handles its messages, and the user answers the wallet's question.
FairSpec ==
  /\ Spec
  /\ WF_vars(GrantAccounts \/ RefuseAccounts)
  /\ WF_vars(HandleAccounts \/ HandleAccountsChanged \/ HandleNetworkChanged)
------------------------------------------------------------------------------
(* Properties *)

\* The address is the account of the wallet as soon as the wallet's messages are
\* handled, although connect() registers its listeners only after its answer and the
\* deprecated constructor before: no switch falls between the two.  A wallet that is
\* locked announces no account; the address stays that of an account.
AddressFollowsWallet ==
  Connected => /\ address \in Accounts
               /\ ~OnTheWay("accountsChanged") => address = walletAccount

\* A contract deployed through the wallet is at the address deploy() returned to the
\* page, if it is not unique or the object knew the wallet's account and the wallet has
\* used the same.  The object keeps no promise if the account changes in between.
DeployedAsTold ==
  order.step = "done" /\ (order.kind # "unique" \/ (order.informed /\ order.by = order.asked))
    => order.told = calculateContractAddressFromHash(order.kind, order.by)

\* The two sides of one thing: the account the object works with is the wallet's.
WorksWithWalletsAccount == AddressFollowsWallet /\ DeployedAsTold

\* The chain id is the node's or the wallet's present network, never a former one.
NoFormerChain ==
  listening /\ ~OnTheWay("networkChanged") /\ announced # None
    => chainId \in {NodeChain, walletChain}

\* The address comes to be the wallet's account for good once the user stops,
\* unless the user refuses to connect.
AddressSettles == <>[](request = "refused" \/ address = walletAccount)
==============================================================================
