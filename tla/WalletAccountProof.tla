-------------------------- MODULE WalletAccountProof --------------------------
(* What a WalletAccount knows of its wallet, for any accounts and networks, *)
(* any number of switches and of messages on their way.                     *)
(*                                                                          *)
(* The argument: of the messages on their way that tell of a thing, the     *)
(* last one tells what the wallet has; if none is on its way, the object    *)
(* has been told.                                                           *)
EXTENDS WalletAccount, TLAPS

Told ==
  [what : {"accounts"}, value : Accounts]
    \union [what : {"accountsChanged"}, value : Accounts \union {None}]
    \union [what : {"networkChanged"}, value : Chains]

TellsAccount == {m \in Told : m.what \in {"accounts", "accountsChanged"} /\ m.value # None}
TellsGrant == {m \in Told : m.what = "accounts"}
TellsChain == {m \in Told : m.what = "networkChanged"}

\* The last of the messages that tell of something tells v.
LastTells(queue, telling, v) ==
  \A i \in DOMAIN queue :
    /\ queue[i] \in telling
    /\ \A j \in DOMAIN queue : i < j => queue[j] \notin telling
    => queue[i].value = v

NoneTells(queue, telling) == \A i \in DOMAIN queue : queue[i] \notin telling

TypeOK ==
  /\ walletAccount \in Accounts /\ walletChain \in Chains
  /\ messages \in Seq(Told)
  /\ address \in Accounts \union {None}

AccountIsTold ==
  /\ LastTells(messages, TellsAccount, walletAccount)
  /\ Connected => /\ listening
                  /\ address \in Accounts
                  /\ NoneTells(messages, TellsAccount) => address = walletAccount

ChainIsTold ==
  /\ LastTells(messages, TellsChain, walletChain)
  /\ announced # None => listening
  /\ announced # None /\ NoneTells(messages, TellsChain) => chainId \in {NodeChain, walletChain}

OrderIsTold ==
  /\ order \in [step : {"none", "asked", "done", "refused"}, kind : Kinds,
                told : Kinds \X (Accounts \union {None}), informed : BOOLEAN,
                asked : Accounts \union {None}, by : Accounts \union {None}]
  /\ order.kind # "unique" => order.told = <<order.kind, None>>
  /\ order.kind = "unique" /\ order.informed => order.told = <<order.kind, order.asked>>

Inv == TypeOK /\ AccountIsTold /\ ChainIsTold /\ OrderIsTold

------------------------------------------------------------------------------
(* Messages that are sent and handled.                                      *)

\* A message that tells of the thing becomes the last that does.
LEMMA SentTells ==
  ASSUME NEW queue \in Seq(Told), NEW m \in Told, NEW telling, m \in telling
  PROVE  /\ LastTells(Append(queue, m), telling, m.value)
         /\ ~NoneTells(Append(queue, m), telling)
BY DEF LastTells, NoneTells

\* A message that does not leaves the last one.
LEMMA SentOther ==
  ASSUME NEW queue \in Seq(Told), NEW m \in Told, NEW telling, m \notin telling
  PROVE  /\ \A v : LastTells(queue, telling, v) => LastTells(Append(queue, m), telling, v)
         /\ NoneTells(Append(queue, m), telling) <=> NoneTells(queue, telling)
<1>. DEFINE longer == Append(queue, m)
<1>1. /\ DOMAIN longer = 1 .. Len(queue) + 1 /\ DOMAIN queue = 1 .. Len(queue)
      /\ \A i \in DOMAIN queue : longer[i] = queue[i]
      /\ longer[Len(queue) + 1] = m /\ Len(queue) \in Nat
  OBVIOUS
<1>. HIDE DEF longer
<1>2. NoneTells(longer, telling) <=> NoneTells(queue, telling)
  BY <1>1 DEF NoneTells
<1>3. ASSUME NEW v, LastTells(queue, telling, v)
      PROVE  LastTells(longer, telling, v)
  BY <1>1, <1>3 DEF LastTells
<1>. QED  BY <1>2, <1>3 DEF longer

\* When the first message is handled, the last stays the last, unless it was the first.
LEMMA HandledTells ==
  ASSUME NEW queue \in Seq(Told), queue # <<>>, NEW telling
  PROVE  /\ \A v : LastTells(queue, telling, v) => LastTells(Tail(queue), telling, v)
         /\ Head(queue) \notin telling
              => (NoneTells(Tail(queue), telling) <=> NoneTells(queue, telling))
         /\ \A v : LastTells(queue, telling, v) /\ Head(queue) \in telling
                      /\ NoneTells(Tail(queue), telling) => Head(queue).value = v
<1>. DEFINE rest == Tail(queue)
<1>1. /\ DOMAIN rest = 1 .. Len(queue) - 1 /\ DOMAIN queue = 1 .. Len(queue)
      /\ \A i \in DOMAIN rest : rest[i] = queue[i + 1]
      /\ Head(queue) = queue[1] /\ Len(queue) \in Nat \ {0}
  OBVIOUS
<1>. HIDE DEF rest
<1>2. \A i \in DOMAIN queue : i = 1 \/ (i - 1 \in DOMAIN rest /\ rest[i - 1] = queue[i])
  BY <1>1
<1>3. ASSUME NEW v, LastTells(queue, telling, v)
      PROVE  LastTells(rest, telling, v)
  <2>. SUFFICES ASSUME NEW i \in DOMAIN rest, rest[i] \in telling,
                       \A j \in DOMAIN rest : i < j => rest[j] \notin telling
                PROVE  rest[i].value = v
    BY DEF LastTells
  <2>1. i + 1 \in DOMAIN queue /\ queue[i + 1] = rest[i]
    BY <1>1
  <2>2. ASSUME NEW j \in DOMAIN queue, i + 1 < j
        PROVE  queue[j] \notin telling
    <3>1. j - 1 \in DOMAIN rest /\ rest[j - 1] = queue[j] /\ i < j - 1
      BY <1>1, <2>2
    <3>. QED  BY <3>1
  <2>. QED  BY <1>3, <2>1, <2>2 DEF LastTells
<1>4. Head(queue) \notin telling => (NoneTells(rest, telling) <=> NoneTells(queue, telling))
  <2>1. \A i \in DOMAIN rest : i + 1 \in DOMAIN queue /\ queue[i + 1] = rest[i]
    BY <1>1
  <2>. QED  BY <1>1, <1>2, <2>1 DEF NoneTells
<1>5. ASSUME NEW v, LastTells(queue, telling, v), Head(queue) \in telling, NoneTells(rest, telling)
      PROVE  Head(queue).value = v
  <2>1. 1 \in DOMAIN queue /\ \A j \in DOMAIN queue : 1 < j => queue[j] \notin telling
    BY <1>1, <1>2, <1>5 DEF NoneTells
  <2>. QED  BY <1>1, <1>5, <2>1 DEF LastTells
<1>. QED  BY <1>3, <1>4, <1>5 DEF rest

------------------------------------------------------------------------------
(* The steps.                                                               *)

\* The state part of the invariant, of any queue: what Inv says of messages.
ConnectedBy(queue, asked) == asked = "granted" /\ NoneTells(queue, TellsGrant)

LEMMA ConnectedTells ==
  ASSUME messages \in Seq(Told)
  PROVE  /\ Connected <=> ConnectedBy(messages, request)
         /\ NoneTells(messages, TellsChain) <=> ~OnTheWay("networkChanged")
BY DEF NoneTells, TellsChain, TellsGrant, Connected, ConnectedBy, OnTheWay, Told

\* An object without messages about accounts on their way has heard of the last one.
LEMMA UpToDateTells ==
  ASSUME messages \in Seq(Told), None \notin Accounts, Connected, ~OnTheWay("accountsChanged")
  PROVE  NoneTells(messages, TellsAccount)
BY DEF NoneTells, TellsAccount, Connected, OnTheWay, Told

LEMMA InitInv == Init => Inv
BY WalletAssumption DEF Init, Inv, TypeOK, AccountIsTold, ChainIsTold, OrderIsTold, Connected,
  LastTells, NoOrder, Kinds

LEMMA NextInv == Inv /\ [Next]_vars => Inv'
<1>. SUFFICES ASSUME Inv, [Next]_vars
              PROVE  Inv'
  OBVIOUS
<1>1. TypeOK /\ AccountIsTold /\ ChainIsTold /\ OrderIsTold
  BY DEF Inv
<1>2. /\ messages \in Seq(Told)
      /\ Connected <=> ConnectedBy(messages, request)
  BY <1>1, ConnectedTells DEF TypeOK
<1>3. messages' \in Seq(Told) => (Connected' <=> ConnectedBy(messages', request'))
  BY DEF NoneTells, TellsGrant, Connected, ConnectedBy, OnTheWay, Told
<1>4. ASSUME NEW a \in Accounts, SwitchAccount(a)
      PROVE  Inv'
  <2>. DEFINE m == Message("accountsChanged", a)
  <2>1. m \in Told /\ m \in TellsAccount /\ m \notin TellsChain /\ m \notin TellsGrant
        /\ m.value = a
    BY WalletAssumption DEF Told, TellsAccount, TellsChain, TellsGrant, Message
  <2>2. /\ messages' = Append(messages, m) /\ messages' \in Seq(Told) /\ walletAccount' = a
        /\ UNCHANGED <<walletChain, request, object, order>>
    BY <1>2, <1>4, <2>1 DEF SwitchAccount, Switch
  <2>. HIDE DEF m
  <2>3. /\ LastTells(messages', TellsAccount, a) /\ ~NoneTells(messages', TellsAccount)
        /\ NoneTells(messages', TellsGrant) <=> NoneTells(messages, TellsGrant)
        /\ NoneTells(messages', TellsChain) <=> NoneTells(messages, TellsChain)
        /\ LastTells(messages', TellsChain, walletChain)
    BY <1>1, <1>2, <2>1, <2>2, SentTells, SentOther DEF ChainIsTold
  <2>. QED
    BY <1>1, <1>2, <1>3, <2>2, <2>3
    DEF Inv, TypeOK, AccountIsTold, ChainIsTold, OrderIsTold, ConnectedBy, object
<1>5. ASSUME NEW chain \in Chains, SwitchNetwork(chain)
      PROVE  Inv'
  <2>. DEFINE m == Message("accountsChanged", walletAccount)
              n == Message("networkChanged", chain)
              between == Append(messages, m)
  <2>1. /\ m \in Told /\ m \in TellsAccount /\ m \notin TellsChain /\ m \notin TellsGrant
        /\ n \in Told /\ n \notin TellsAccount /\ n \in TellsChain /\ n \notin TellsGrant
        /\ m.value = walletAccount /\ n.value = chain
    BY <1>1, WalletAssumption DEF Told, TellsAccount, TellsChain, TellsGrant, Message, TypeOK
  <2>2. /\ walletChain' = chain
        /\ UNCHANGED <<walletAccount, request, object, order>>
        /\ messages' = messages \o <<m, n>>
    BY <1>5 DEF SwitchNetwork, Switch
  <2>. HIDE DEF m, n
  <2>3. messages' = Append(between, n) /\ between \in Seq(Told) /\ messages' \in Seq(Told)
    BY <1>2, <2>1, <2>2
  <2>4. /\ LastTells(between, TellsAccount, walletAccount) /\ ~NoneTells(between, TellsAccount)
        /\ NoneTells(between, TellsGrant) <=> NoneTells(messages, TellsGrant)
    BY <1>1, <1>2, <2>1, <2>2, SentTells, SentOther
  <2>. HIDE DEF between
  <2>5. /\ LastTells(messages', TellsAccount, walletAccount)
        /\ ~NoneTells(messages', TellsAccount)
        /\ NoneTells(messages', TellsGrant) <=> NoneTells(messages, TellsGrant)
        /\ LastTells(messages', TellsChain, chain) /\ ~NoneTells(messages', TellsChain)
    BY <2>1, <2>3, <2>4, SentTells, SentOther
  <2>. QED
    BY <1>1, <1>2, <1>3, <2>2, <2>3, <2>5
    DEF Inv, TypeOK, AccountIsTold, ChainIsTold, OrderIsTold, ConnectedBy, object
<1>6. CASE Lock
  <2>. DEFINE m == Message("accountsChanged", None)
  <2>1. m \in Told /\ m \notin TellsAccount /\ m \notin TellsChain /\ m \notin TellsGrant
    BY DEF Told, TellsAccount, TellsChain, TellsGrant, Message
  <2>2. /\ messages' = Append(messages, m) /\ messages' \in Seq(Told)
        /\ UNCHANGED <<walletAccount, walletChain, request, object, order>>
    BY <1>2, <1>6, <2>1 DEF Lock, Switch
  <2>. HIDE DEF m
  <2>3. /\ \A telling \in {TellsAccount, TellsChain, TellsGrant} :
             NoneTells(messages', telling) <=> NoneTells(messages, telling)
        /\ LastTells(messages', TellsAccount, walletAccount)
        /\ LastTells(messages', TellsChain, walletChain)
    BY <1>1, <1>2, <2>1, <2>2, SentOther DEF AccountIsTold, ChainIsTold
  <2>. QED
    BY <1>1, <1>2, <1>3, <2>2, <2>3
    DEF Inv, TypeOK, AccountIsTold, ChainIsTold, OrderIsTold, ConnectedBy, object
<1>7. CASE GrantAccounts
  <2>. DEFINE m == Message("accounts", walletAccount)
  <2>1. /\ m \in Told /\ m \in TellsAccount /\ m \notin TellsChain /\ m \in TellsGrant
        /\ m.value = walletAccount
    BY <1>1, WalletAssumption DEF Told, TellsAccount, TellsChain, TellsGrant, Message, TypeOK
  <2>2. /\ messages' = Append(messages, m) /\ messages' \in Seq(Told)
        /\ UNCHANGED <<walletAccount, walletChain, object, order>>
    BY <1>2, <1>7, <2>1 DEF GrantAccounts, wallet
  <2>. HIDE DEF m
  <2>3. /\ LastTells(messages', TellsAccount, walletAccount)
        /\ ~NoneTells(messages', TellsGrant)
        /\ NoneTells(messages', TellsChain) <=> NoneTells(messages, TellsChain)
        /\ LastTells(messages', TellsChain, walletChain)
    BY <1>1, <1>2, <2>1, <2>2, SentTells, SentOther DEF ChainIsTold
  <2>. QED
    BY <1>1, <1>3, <2>2, <2>3
    DEF Inv, TypeOK, AccountIsTold, ChainIsTold, OrderIsTold, ConnectedBy, object
<1>8. ASSUME NEW what, Handle(what)
      PROVE  /\ messages # <<>> /\ Received \in Told /\ messages' \in Seq(Told)
             /\ Received.what = what
             /\ UNCHANGED <<walletAccount, walletChain, request, order>>
             /\ LastTells(messages', TellsAccount, walletAccount)
             /\ LastTells(messages', TellsChain, walletChain)
             /\ \A telling : Received \notin telling =>
                  (NoneTells(messages', telling) <=> NoneTells(messages, telling))
             /\ Received \in TellsAccount /\ NoneTells(messages', TellsAccount)
                  => Received.value = walletAccount
             /\ Received \in TellsChain /\ NoneTells(messages', TellsChain)
                  => Received.value = walletChain
  <2>1. /\ messages # <<>> /\ messages' = Tail(messages) /\ Received.what = what
        /\ UNCHANGED <<walletAccount, walletChain, request, order>>
    BY <1>8 DEF Handle, wallet
  <2>2. Received \in Told /\ messages' \in Seq(Told)
    BY <1>2, <2>1 DEF Received
  <2>. QED
    BY <1>1, <1>2, <2>1, <2>2, HandledTells DEF Received, AccountIsTold, ChainIsTold
<1>9. CASE HandleAccounts
  <2>1. Handle("accounts") /\ address' = Received.value /\ listening' = TRUE
        /\ UNCHANGED <<chainId, announced>>
    BY <1>9 DEF HandleAccounts, AnsweredAddress
  <2>2. Received \in TellsAccount /\ Received \notin TellsChain /\ Received.value \in Accounts
    <3>1. Received \in Told /\ Received.what = "accounts"
      BY <1>8, <2>1
    <3>2. Received.value \in Accounts
      BY <3>1 DEF Told
    <3>. QED  BY <3>1, <3>2, WalletAssumption DEF TellsAccount, TellsChain
  <2>3. NoneTells(messages', TellsChain) <=> NoneTells(messages, TellsChain)
    BY <1>8, <2>1, <2>2
  <2>4. NoneTells(messages', TellsAccount) => address' = walletAccount
    BY <1>8, <2>1, <2>2
  <2>5. AccountIsTold'
    BY <1>8, <2>1, <2>2, <2>4 DEF AccountIsTold
  <2>6. ChainIsTold'
    BY <1>1, <1>8, <2>1, <2>3 DEF ChainIsTold
  <2>. QED
    BY <1>1, <1>8, <2>1, <2>2, <2>5, <2>6 DEF Inv, TypeOK, OrderIsTold
<1>10. CASE HandleAccountsChanged
  <2>1. /\ Handle("accountsChanged")
        /\ address' = IF listening THEN AddressAfter(Received) ELSE address
        /\ UNCHANGED <<listening, chainId, announced>>
    BY <1>10 DEF HandleAccountsChanged
  <2>2. /\ Received \notin TellsGrant /\ Received \notin TellsChain
        /\ Received \in TellsAccount <=> Received.value # None
        /\ Received.value \in Accounts \union {None}
    <3>1. Received \in Told /\ Received.what = "accountsChanged"
      BY <1>8, <2>1
    <3>2. Received.value \in Accounts \union {None}
      BY <3>1 DEF Told
    <3>. QED  BY <3>1, <3>2, WalletAssumption DEF TellsAccount, TellsChain, TellsGrant
  <2>3. Connected' <=> Connected
    BY <1>2, <1>3, <1>8, <2>1, <2>2 DEF ConnectedBy
  <2>4. /\ address' \in Accounts \union {None}
        /\ Connected => address' \in Accounts
        /\ Connected /\ Received \in TellsAccount => address' = Received.value
        /\ Received \notin TellsAccount => address' = address
    BY <1>1, <2>1, <2>2 DEF AddressAfter, TypeOK, AccountIsTold
  <2>5. Connected' /\ NoneTells(messages', TellsAccount) => address' = walletAccount
    <3>1. CASE Received \in TellsAccount
      BY <1>8, <2>1, <2>3, <2>4, <3>1
    <3>2. CASE Received \notin TellsAccount
      <4>1. NoneTells(messages', TellsAccount) <=> NoneTells(messages, TellsAccount)
        BY <1>8, <2>1, <3>2
      <4>. QED  BY <1>1, <1>8, <2>1, <2>3, <2>4, <3>2, <4>1 DEF AccountIsTold
    <3>. QED  BY <3>1, <3>2
  <2>6. AccountIsTold'
    BY <1>1, <1>8, <2>1, <2>3, <2>4, <2>5 DEF AccountIsTold
  <2>7. NoneTells(messages', TellsChain) <=> NoneTells(messages, TellsChain)
    BY <1>8, <2>1, <2>2
  <2>8. ChainIsTold'
    BY <1>1, <1>8, <2>1, <2>7 DEF ChainIsTold
  <2>. QED
    BY <1>1, <1>8, <2>1, <2>4, <2>6, <2>8 DEF Inv, TypeOK, OrderIsTold
<1>11. CASE HandleNetworkChanged
  <2>1. /\ Handle("networkChanged") /\ UNCHANGED <<listening, address>>
        /\ IF listening THEN chainId' = Received.value /\ announced' = Received.value
           ELSE UNCHANGED <<chainId, announced>>
    BY <1>11 DEF HandleNetworkChanged, ChainIdAfter
  <2>2. Received \notin TellsAccount /\ Received \notin TellsGrant /\ Received \in TellsChain
    <3>1. Received \in Told /\ Received.what = "networkChanged"
      BY <1>8, <2>1
    <3>2. Received.value \in Chains
      BY <3>1 DEF Told
    <3>. QED  BY <3>1, <3>2, WalletAssumption DEF TellsAccount, TellsChain, TellsGrant
  <2>3. Connected' <=> Connected
    BY <1>2, <1>3, <1>8, <2>1, <2>2 DEF ConnectedBy
  <2>4. NoneTells(messages', TellsAccount) <=> NoneTells(messages, TellsAccount)
    BY <1>8, <2>1, <2>2
  <2>5. AccountIsTold'
    BY <1>1, <1>8, <2>1, <2>3, <2>4 DEF AccountIsTold
  <2>6. listening /\ NoneTells(messages', TellsChain) => chainId' = walletChain
    BY <1>8, <2>1, <2>2
  <2>7. ChainIsTold'
    BY <1>1, <1>8, <2>1, <2>6 DEF ChainIsTold
  <2>. QED
    BY <1>1, <1>8, <2>1, <2>5, <2>7 DEF Inv, TypeOK, OrderIsTold
<1>12. ASSUME UNCHANGED <<messages, request>>
       PROVE  Connected' <=> Connected
  BY <1>12 DEF Connected, OnTheWay
<1>13. CASE RefuseAccounts
  <2>1. ~Connected' /\ UNCHANGED <<walletAccount, walletChain, messages, object, order>>
    BY <1>13 DEF RefuseAccounts, Connected, wallet
  <2>. QED
    BY <1>1, <2>1 DEF Inv, TypeOK, AccountIsTold, ChainIsTold, OrderIsTold, object
<1>14. CASE AskChainId \/ ChainIdFails \/ UNCHANGED vars
  <2>1. UNCHANGED <<walletAccount, walletChain, messages, request, object, order>>
    BY <1>14 DEF AskChainId, ChainIdFails, vars, wallet, object
  <2>. QED
    BY <1>1, <1>12, <2>1 DEF Inv, TypeOK, AccountIsTold, ChainIsTold, OrderIsTold, object
<1>15. CASE AnswerChainId
  <2>1. /\ UNCHANGED <<walletAccount, walletChain, messages, request, listening, address,
                       announced, order>>
        /\ chainId' = NodeChain
    BY <1>15 DEF AnswerChainId, wallet
  <2>. QED
    BY <1>1, <1>12, <2>1 DEF Inv, TypeOK, AccountIsTold, ChainIsTold, OrderIsTold
<1>16. ASSUME NEW kind \in Kinds, AskWallet(kind)
       PROVE  Inv'
  <2>1. /\ UNCHANGED <<walletAccount, walletChain, messages, request, object>>
        /\ order'.kind = kind /\ order'.told = ToldAddress(kind)
        /\ order'.informed = UpToDate /\ order'.asked = walletAccount
    BY <1>16 DEF AskWallet, wallet, NoOrder
  <2>2. UpToDate => address = walletAccount
    BY <1>1, <1>2, UpToDateTells, WalletAssumption DEF UpToDate, AccountIsTold
  <2>3. OrderIsTold'
    <3>. DEFINE t == ToldAddress(kind)
    <3>1. t = IF kind = "unique" THEN <<kind, address>> ELSE <<kind, None>>
      BY DEF ToldAddress, calculateContractAddressFromHash
    <3>. HIDE DEF t
    <3>2. PICK u \in BOOLEAN : u = UpToDate
      BY DEF UpToDate, Connected, OnTheWay
    <3>3. u => address = walletAccount
      BY <2>2, <3>2
    <3>4. order' = [step |-> "asked", kind |-> kind, told |-> t, informed |-> u,
                    asked |-> walletAccount, by |-> None]
      BY <1>16, <3>2 DEF AskWallet, NoOrder, t
    <3>. QED
      BY <1>1, <3>1, <3>3, <3>4 DEF OrderIsTold, TypeOK, Kinds
  <2>. QED
    BY <1>1, <1>12, <2>1, <2>3 DEF Inv, TypeOK, AccountIsTold, ChainIsTold, object
<1>17. CASE FillOrder \/ RefuseOrder
  <2>1. UNCHANGED <<walletAccount, walletChain, messages, request, object>>
    BY <1>17 DEF FillOrder, RefuseOrder, wallet
  <2>2. OrderIsTold'
    BY <1>1, <1>17 DEF OrderIsTold, TypeOK, FillOrder, RefuseOrder
  <2>. QED
    BY <1>1, <1>12, <2>1, <2>2 DEF Inv, TypeOK, AccountIsTold, ChainIsTold, object
<1>. QED
  BY <1>4, <1>5, <1>6, <1>7, <1>9, <1>10, <1>11, <1>13, <1>14, <1>15, <1>16, <1>17 DEF Next

------------------------------------------------------------------------------
\* The object's address becomes the wallet's account, and a contract deployed through
\* the wallet is where deploy() said, if the account has not changed meanwhile.
THEOREM WorksWithWalletsAccountAlways == Spec => []WorksWithWalletsAccount
<1>1. Inv => WorksWithWalletsAccount
  <2>. SUFFICES ASSUME Inv
                PROVE  AddressFollowsWallet /\ DeployedAsTold
    BY DEF WorksWithWalletsAccount
  <2>1. AddressFollowsWallet
    BY UpToDateTells, WalletAssumption DEF Inv, TypeOK, AccountIsTold, AddressFollowsWallet
  <2>2. DeployedAsTold
    BY DEF Inv, OrderIsTold, DeployedAsTold, calculateContractAddressFromHash
  <2>. QED  BY <2>1, <2>2
<1>. QED  BY <1>1, InitInv, NextInv, PTL DEF Spec

\* A network the wallet has left is not the chain id of the channel, once the message
\* of the new one is handled, whatever answers of the node come late.
THEOREM NoFormerChainAlways == Spec => []NoFormerChain
<1>1. Inv => NoFormerChain
  BY ConnectedTells DEF Inv, TypeOK, ChainIsTold, NoFormerChain
<1>. QED  BY <1>1, InitInv, NextInv, PTL DEF Spec
==============================================================================
