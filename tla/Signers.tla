------------------------------ MODULE Signers ------------------------------
(***************************************************************************)
(* The signers of src/src/signer: Signer and EthSigner hold a key, the two *)
(* Ledger signers send commands (APDUs) to a device over a transport that  *)
(* the page owns.  A signature is asked for by a call; calls run at the    *)
(* same time, of one signer or of several on the same transport.           *)
(*                                                                         *)
(* The device and the transport are not part of the repository.  A device  *)
(* collects the commands of one instruction, starts again when a path      *)
(* arrives, shows what it collected to its user and answers the last       *)
(* command with the hash it computed and a signature of it.  A transport   *)
(* carries one command at a time: what is sent meanwhile waits its turn,   *)
(* arrives in any order, or is refused.                                    *)
(***************************************************************************)
EXTENDS TransactionHash

CONSTANTS
  Callers,    \* calls of signing methods
  Signers,
  ClassOf(_), \* of a signer: "stark", "eth", "ledger111" or "ledger221"
  PathOf(_),  \* the derivation path of a Ledger signer
  JobsOf(_),  \* of a call: records [signer, op, message, tx]
  Transports, \* among "queued", "unordered", "refusing"
  PartLen     \* felts in one command: 7

IsList(s) == s \in Seq({s[i] : i \in DOMAIN s})

\* A job's method is the one for its kind of transaction.  A declaration has a
\* compiled class hash from version 2 on: declare() chooses the version so.
ASSUME SignersAssumption ==
  /\ PartLen \in Nat /\ PartLen > 2
  /\ \A c \in Callers : \A j \in JobsOf(c) :
       /\ j.signer \in Signers
       /\ j.op \in {"invoke", "deploy", "declare", "message", "pubKey"}
       /\ j.op \notin {"message", "pubKey"} => j.tx.kind = j.op
       /\ j.op = "declare" => (j.tx.compiledClassHash = NoHash <=> j.tx.version[2] < 2)
       /\ IsList(j.tx.ctor) /\ IsList(j.tx.calls)
       /\ \A i \in DOMAIN j.tx.calls : IsList(j.tx.calls[i].args)

VARIABLES
  job,
  pc,         \* of a call: "ready", "running", "done"
  script,     \* the commands it has still to send
  answer,     \* the device's last answer to it
  result,     \* what it returns, or throws
  pubKey,     \* of a signer: the key it has asked for, once
  transport,
  flight,     \* commands sent and not processed, in the order of sending
  device,     \* what the device has collected
  refusals,   \* calls the user refused on the device
  mixed       \* calls that met another call's commands at the device

vars == <<job, pc, script, answer, result, pubKey, transport, flight, device, refusals, mixed>>

IsLedger(s) == ClassOf(s) \in {"ledger111", "ledger221"}
Unset == <<"unset">>
Failed == [ok |-> FALSE, hash |-> Unset, key |-> Unset]
Returns(hash, key) == [ok |-> TRUE, hash |-> hash, key |-> key]

\* The key of a signer: a Ledger's is derived from its path.
KeyOf(s) == IF IsLedger(s) THEN <<"path", PathOf(s)>> ELSE <<"own", s>>

------------------------------------------------------------------------------
(* What a signer hashes.                                                    *)

messageHash(m) == <<"message", m>>

IsSupported(j) ==
  j.op \in {"invoke", "deploy", "declare"} =>
    j.tx.version \in ETransactionVersion2 \union ETransactionVersion3

msgHash(j) ==
  CASE j.op = "invoke" -> calculateInvokeTransactionHash(j.tx)
    [] j.op = "deploy" -> calculateDeployAccountTransactionHash(j.tx)
    [] j.op = "declare" -> calculateDeclareTransactionHash(j.tx)
    [] OTHER -> messageHash(j.message)

\* The Ledger signer of version 2.2.1 has the device compute the hash, too.
IsShown(j) == ClassOf(j.signer) = "ledger221" /\ j.op \in {"invoke", "deploy"}

------------------------------------------------------------------------------
(* The commands.  The parts of a long call but the first are not awaited.   *)

Apdu(ins, p1, p2, data) == [ins |-> ins, p1 |-> p1, p2 |-> p2, data |-> data, awaited |-> TRUE]
LooseApdu(ins, p1, p2, data) == [Apdu(ins, p1, p2, data) EXCEPT !.awaited = FALSE]

Chunks(words) ==
  LET count == (Len(words) + PartLen - 1) \div PartLen
      PartEnd(i) == IF PartLen * i < Len(words) THEN PartLen * i ELSE Len(words)
  IN [i \in 1 .. count |-> SubSeq(words, PartLen * (i - 1) + 1, PartEnd(i))]

encodeCall(call) == Chunks(<<call.to, call.selector>> \o call.args)

CallCommands(ins, p1, call) ==
  LET parts == encodeCall(call)
  IN <<Apdu(ins, p1, 0, parts[1])>>
       \o [i \in 1 .. Len(parts) - 1 |-> LooseApdu(ins, p1, 1, parts[i + 1])]
       \o <<Apdu(ins, p1, 2, <<>>)>>

CallsCommands(ins, p1, calls) ==
  FlattenSeq([i \in DOMAIN calls |-> CallCommands(ins, p1, calls[i])])

ConstructorCommands(ins, p1, ctor) ==
  LET parts == Chunks(ctor) IN [i \in DOMAIN parts |-> Apdu(ins, p1, 0, parts[i])]

\* Mutant: the chain before the fee.
ChainFirst(path, tx) ==
  <<Apdu(4, 0, 0, path),
    Apdu(4, 1, 0, <<tx.sender, tx.chain, tx.maxFee, tx.nonce>>),
    Apdu(4, 2, 0, <<N(Len(tx.calls))>>)>>
    \o CallsCommands(4, 3, tx.calls)

signTxV1(path, tx) ==
  <<Apdu(4, 0, 0, path),
    Apdu(4, 1, 0, <<tx.sender, tx.maxFee, tx.chain, tx.nonce>>),
    Apdu(4, 2, 0, <<N(Len(tx.calls))>>)>>
    \o CallsCommands(4, 3, tx.calls)

\* The fourth command carries the paymaster's data again.
signTxV3(path, tx) ==
  <<Apdu(3, 0, 0, path),
    Apdu(3, 1, 0, <<tx.sender, tx.tip, encodeResourceBounds("L1_GAS", tx.l1),
                    encodeResourceBounds("L2_GAS", tx.l2), tx.chain, tx.nonce,
                    hashDAMode(intDAM(tx.nonceDAM), intDAM(tx.feeDAM))>>),
    Apdu(3, 2, 0, tx.paymaster),
    Apdu(3, 3, 0, tx.paymaster),
    Apdu(3, 4, 0, <<N(Len(tx.calls))>>)>>
    \o CallsCommands(3, 5, tx.calls)

signDeployAccountV1(path, tx) ==
  <<Apdu(6, 0, 0, path),
    Apdu(6, 1, 0, <<tx.sender, tx.classHash, tx.salt, tx.chain, tx.nonce>>),
    Apdu(6, 2, 0, <<tx.maxFee>>),
    Apdu(6, 3, 0, <<N(Len(tx.ctor))>>)>>
    \o ConstructorCommands(6, 4, tx.ctor)

signDeployAccountV3(path, tx) ==
  <<Apdu(5, 0, 0, path),
    Apdu(5, 1, 0, <<tx.sender, tx.chain, tx.nonce,
                    hashDAMode(intDAM(tx.nonceDAM), intDAM(tx.feeDAM)), tx.classHash, tx.salt>>),
    Apdu(5, 2, 0, <<tx.tip, encodeResourceBounds("L1_GAS", tx.l1),
                    encodeResourceBounds("L2_GAS", tx.l2)>>),
    Apdu(5, 3, 0, tx.paymaster),
    Apdu(5, 4, 0, <<N(Len(tx.ctor))>>)>>
    \o ConstructorCommands(5, 5, tx.ctor)

signRaw(path, hash) == <<Apdu(2, 0, 0, path), Apdu(2, 1, 0, <<hash>>)>>

getPublicKeys(path) == <<Apdu(1, 0, 0, path)>>

IsV3(j) == j.tx.version \in ETransactionVersion3

Script(j) ==
  LET path == <<PathOf(j.signer)>>
  IN CASE j.op = "pubKey" -> getPublicKeys(path)
       [] IsShown(j) /\ j.op = "invoke" ->
            IF IsV3(j) THEN signTxV3(path, j.tx) ELSE signTxV1(path, j.tx)
       [] IsShown(j) /\ j.op = "deploy" ->
            IF IsV3(j) THEN signDeployAccountV3(path, j.tx) ELSE signDeployAccountV1(path, j.tx)
       [] OTHER -> signRaw(path, msgHash(j))

\* A paymaster's data and the deployment data of an invocation are one part each.
FitsItsCommands(j) ==
  IsShown(j) /\ j.op = "invoke" /\ IsV3(j) =>
    Len(j.tx.paymaster) <= PartLen /\ Len(j.tx.deployData) <= PartLen

------------------------------------------------------------------------------
(* The device.                                                              *)

Idle == [ins |-> 0, path |-> <<>>, head |-> <<>>, parts |-> <<>>, open |-> FALSE, closed |-> 0]
NoAnswer == [hash |-> Unset, key |-> Unset]

HeadLen(ins) == CASE ins = 4 -> 2 [] ins = 3 -> 4 [] ins = 6 -> 3 [] ins = 5 -> 4 [] OTHER -> 0
TakesCalls(ins) == ins \in {3, 4}

Announced(dev) == dev.head[HeadLen(dev.ins)][1][2]

\* Whether the device takes the command after what it has collected.
Accepts(dev, c) ==
  \/ c.p1 = 0
  \/ /\ c.ins = dev.ins
     /\ \/ c.ins = 2
        \/ c.p1 <= HeadLen(c.ins) /\ c.p1 = Len(dev.head) + 1
        \/ /\ c.p1 = HeadLen(c.ins) + 1 /\ Len(dev.head) = HeadLen(c.ins)
           /\ TakesCalls(c.ins) => (dev.open <=> c.p2 # 0)

Collect(dev, c) ==
  IF c.p1 = 0 THEN [Idle EXCEPT !.ins = c.ins, !.path = c.data]
  ELSE IF c.ins = 2 \/ c.p1 <= HeadLen(c.ins) THEN [dev EXCEPT !.head = Append(@, c.data)]
  ELSE IF ~TakesCalls(c.ins) THEN [dev EXCEPT !.parts = Append(@, c.data)]
  ELSE CASE c.p2 = 0 -> [dev EXCEPT !.parts = Append(@, c.data), !.open = TRUE]
         [] c.p2 = 1 -> [dev EXCEPT !.parts[Len(dev.parts)] = @ \o c.data]
         [] OTHER -> [dev EXCEPT !.open = FALSE, !.closed = @ + 1]

\* Everything is there: the user is asked, and the answer carries a signature.
IsComplete(dev) ==
  CASE dev.ins = 2 -> dev.head # <<>>
    [] TakesCalls(dev.ins) ->
         Len(dev.head) = HeadLen(dev.ins) /\ ~dev.open /\ dev.closed > 0
           /\ dev.closed >= Announced(dev)
    [] dev.ins \in {5, 6} ->
         Len(dev.head) = HeadLen(dev.ins) /\ dev.parts # <<>>
           /\ Len(FlattenSeq(dev.parts)) >= Announced(dev)
    [] OTHER -> FALSE

CallFrom(words) == [to |-> words[1], selector |-> words[2], args |-> SubSeq(words, 3, Len(words))]

DeviceHash(dev) ==
  LET h == dev.head
      calldata == fromCallsToExecuteCalldata_cairo1(
                    [i \in DOMAIN dev.parts |-> CallFrom(dev.parts[i])])
      ctor == FlattenSeq(dev.parts)
  IN CASE dev.ins = 2 -> h[1][1]
       [] dev.ins = 4 ->
            Pedersen(<<<<"invoke">>, V(1), h[1][1], N(0), Pedersen(calldata),
                       h[1][2], h[1][3], h[1][4]>>)
       [] dev.ins = 3 ->
            Poseidon(<<<<"invoke">>, V(3), h[1][1],
                       Poseidon(<<h[1][2], h[1][3], h[1][4]>>), Poseidon(h[2]),
                       h[1][5], h[1][6], h[1][7], Poseidon(h[3]), Poseidon(calldata)>>)
       [] dev.ins = 6 ->
            Pedersen(<<<<"deploy_account">>, V(1), h[1][1], N(0),
                       Pedersen(<<h[1][2], h[1][3]>> \o ctor), h[2][1], h[1][4], h[1][5]>>)
       [] dev.ins = 5 ->
            Poseidon(<<<<"deploy_account">>, V(3), h[1][1], Poseidon(h[2]), Poseidon(h[3]),
                       h[1][2], h[1][3], h[1][4], Poseidon(ctor), h[1][5], h[1][6]>>)

DeviceKey(dev) == <<"path", dev.path[1]>>

------------------------------------------------------------------------------
Init ==
  /\ job \in {f \in [Callers -> UNION {JobsOf(c) : c \in Callers}] :
                \A c \in Callers : f[c] \in JobsOf(c)}
  /\ pc = [c \in Callers |-> "ready"]
  /\ script = [c \in Callers |-> <<>>]
  /\ answer = [c \in Callers |-> NoAnswer]
  /\ result = [c \in Callers |-> Failed]
  /\ pubKey = [s \in Signers |-> Unset]
  /\ transport \in Transports
  /\ flight = <<>>
  /\ device = Idle
  /\ refusals = {}
  /\ mixed = {}

End(c, r) ==
  /\ pc' = [pc EXCEPT ![c] = "done"]
  /\ script' = [script EXCEPT ![c] = <<>>]
  /\ result' = [result EXCEPT ![c] = r]

\* Signer and EthSigner sign without asking anyone.
SignWithKey(c) ==
  /\ pc[c] = "ready" /\ ~IsLedger(job[c].signer)
  /\ End(c, IF job[c].op = "pubKey" THEN Returns(Unset, KeyOf(job[c].signer))
            ELSE IF IsSupported(job[c]) THEN Returns(msgHash(job[c]), KeyOf(job[c].signer))
            ELSE Failed)
  /\ UNCHANGED <<job, answer, pubKey, transport, flight, device, refusals, mixed>>

\* getPubKey() and getFullPubKey() of a Ledger that has been asked before.
CachedKey(c) ==
  /\ pc[c] = "ready" /\ IsLedger(job[c].signer)
  /\ job[c].op = "pubKey" /\ pubKey[job[c].signer] # Unset
  /\ End(c, Returns(Unset, pubKey[job[c].signer]))
  /\ UNCHANGED <<job, answer, pubKey, transport, flight, device, refusals, mixed>>

\* A version that is no known one, or data that is too long, throws.
RefuseToSign(c) ==
  /\ pc[c] = "ready" /\ IsLedger(job[c].signer)
  /\ ~IsSupported(job[c]) \/ ~FitsItsCommands(job[c])
  /\ End(c, Failed)
  /\ UNCHANGED <<job, answer, pubKey, transport, flight, device, refusals, mixed>>

Start(c) ==
  /\ pc[c] = "ready" /\ IsLedger(job[c].signer)
  /\ job[c].op = "pubKey" => pubKey[job[c].signer] = Unset
  /\ IsSupported(job[c]) /\ FitsItsCommands(job[c])
  /\ pc' = [pc EXCEPT ![c] = "running"]
  /\ script' = [script EXCEPT ![c] = Script(job[c])]
  /\ UNCHANGED <<job, answer, result, pubKey, transport, flight, device, refusals, mixed>>

IsWaiting(c) == \E i \in DOMAIN flight : flight[i].call = c /\ flight[i].apdu.awaited

\* How many commands are sent before the call waits again.
NextAwaited(c) ==
  CHOOSE n \in DOMAIN script[c] :
    script[c][n].awaited /\ \A m \in 1 .. n - 1 : ~script[c][m].awaited

Sent(c) == [i \in 1 .. NextAwaited(c) |-> [call |-> c, apdu |-> script[c][i]]]

\* A transport that refuses what is sent while it is busy takes one command, if
\* any.  When the awaited one is refused the call throws; nobody hears of the
\* refusal of another.
Send(c) ==
  /\ pc[c] = "running" /\ ~IsWaiting(c) /\ script[c] # <<>>
  /\ IF transport # "refusing"
     THEN /\ flight' = flight \o Sent(c)
          /\ script' = [script EXCEPT ![c] = SubSeq(@, NextAwaited(c) + 1, Len(@))]
          /\ UNCHANGED <<pc, result, mixed>>
     ELSE IF flight = <<>> /\ NextAwaited(c) = 1
     THEN /\ flight' = Sent(c)
          /\ script' = [script EXCEPT ![c] = Tail(@)]
          /\ UNCHANGED <<pc, result, mixed>>
     ELSE /\ flight' = IF flight = <<>> THEN <<Sent(c)[1]>> ELSE flight
          /\ mixed' = IF \E i \in DOMAIN flight : flight[i].call # c
                      THEN mixed \union {c} ELSE mixed
          /\ End(c, Failed)
  /\ answer' = [answer EXCEPT ![c] = NoAnswer]
  /\ UNCHANGED <<job, pubKey, transport, device, refusals>>

\* The other calls that are in the middle of their commands.
MixedBy(i) ==
  {c \in Callers \ {flight[i].call} :
     /\ pc[c] = "running" /\ Len(script[c]) < Len(Script(job[c]))
     /\ script[c] # <<>> \/ \E k \in DOMAIN flight : flight[k].call = c}

\* The device processes a command, and answers.
Process(i) ==
  LET c == flight[i].call
      cmd == flight[i].apdu
      collected == Collect(device, cmd)
  IN /\ transport # "unordered" => i = 1
     /\ flight' = RemoveAt(flight, i)
     /\ mixed' = mixed \union MixedBy(i)
     /\ IF ~Accepts(device, cmd)
        THEN /\ device' = Idle
             /\ IF cmd.awaited THEN End(c, Failed) ELSE UNCHANGED <<pc, script, result>>
             /\ UNCHANGED <<answer, refusals, pubKey>>
        ELSE IF cmd.ins = 1
        THEN /\ device' = Idle
             /\ pubKey' = [pubKey EXCEPT ![job[c].signer] = DeviceKey(collected)]
             /\ End(c, Returns(Unset, DeviceKey(collected)))
             /\ UNCHANGED <<answer, refusals>>
        ELSE IF ~IsComplete(collected)
        THEN /\ device' = collected
             /\ UNCHANGED <<pc, script, answer, result, pubKey, refusals>>
        ELSE /\ device' = Idle
             /\ UNCHANGED pubKey
             /\ \/ /\ answer' = [answer EXCEPT ![c] = [hash |-> DeviceHash(collected),
                                                       key |-> DeviceKey(collected)]]
                   /\ UNCHANGED <<pc, script, result, refusals>>
                \/ /\ refusals' = refusals \union {c}
                   /\ IF cmd.awaited THEN End(c, Failed) ELSE UNCHANGED <<pc, script, result>>
                   /\ UNCHANGED answer
     /\ UNCHANGED <<job, transport>>

\* Mutant: a call that gets no signature sends everything again.
FinishOrRetry(c) ==
  /\ pc[c] = "running" /\ ~IsWaiting(c) /\ script[c] = <<>>
  /\ IF answer[c] = NoAnswer
     THEN /\ script' = [script EXCEPT ![c] = Script(job[c])]
          /\ UNCHANGED <<pc, result>>
     ELSE End(c, Returns(answer[c].hash, answer[c].key))
  /\ UNCHANGED <<job, answer, pubKey, transport, flight, device, refusals, mixed>>

\* The last answer is there.  Without a signature in it, decoding throws; what
\* the device has shown must be what the library has hashed.
Finish(c) ==
  /\ pc[c] = "running" /\ ~IsWaiting(c) /\ script[c] = <<>>
  /\ End(c, IF answer[c] = NoAnswer \/ (IsShown(job[c]) /\ answer[c].hash # msgHash(job[c]))
            THEN Failed ELSE Returns(answer[c].hash, answer[c].key))
  /\ UNCHANGED <<job, answer, pubKey, transport, flight, device, refusals, mixed>>

AllDone == (\A c \in Callers : pc[c] = "done") /\ flight = <<>>

Done == AllDone /\ UNCHANGED vars

Next ==
  \/ \E c \in Callers :
       \/ SignWithKey(c) \/ CachedKey(c) \/ RefuseToSign(c)
       \/ Start(c) \/ Send(c) \/ Finish(c)
  \/ \E i \in DOMAIN flight : Process(i)
  \/ Done

\* A command that was sent is processed; the user answers what is shown.
Fairness ==
  /\ \A c \in Callers : WF_vars(SignWithKey(c) \/ CachedKey(c) \/ RefuseToSign(c)
                                \/ Start(c) \/ Send(c) \/ Finish(c))
  /\ WF_vars(\E i \in DOMAIN flight : Process(i))

Spec == Init /\ [][Next]_vars /\ Fairness

------------------------------------------------------------------------------
(* Properties.                                                              *)

Signs(c) == pc[c] = "done" /\ result[c].ok /\ job[c].op # "pubKey"

\* A signature that is returned is one of the hash the network will compute of
\* the transaction that was asked for, or of the message: whatever the signer,
\* and whatever other calls have told the device meanwhile.
SignedIsAsked ==
  \A c \in Callers : Signs(c) =>
    result[c].hash = IF job[c].op = "message" THEN messageHash(job[c].message)
                     ELSE ProtocolHash(job[c].tx)

\* A key or a signature is the signer's own, unless another call's commands
\* came between its own: a path that another signer sends replaces this one's.
OwnKey ==
  \A c \in Callers :
    pc[c] = "done" /\ result[c].ok /\ c \notin mixed => result[c].key = KeyOf(job[c].signer)

\* When a signature is returned the device has processed every part of what it
\* signs, though no part but the first is waited for.
NothingLeft ==
  \A c \in Callers : pc[c] = "done" /\ result[c].ok =>
    \A i \in DOMAIN flight : flight[i].call # c

\* A caller gets what its own signer answers to its own question, once the device
\* has the whole of it.
AnswersAreOwn == SignedIsAsked /\ OwnKey /\ NothingLeft

IsLong(call) == Len(call.args) + 2 > PartLen

\* Transactions a device cannot be told of: it takes them for the version that
\* is sent, and for an account of Cairo 1.
CannotBeShown(j) ==
  /\ IsShown(j)
  /\ \/ j.tx.version \notin {V(1), V(3)}
     \/ j.op = "invoke" /\ (j.tx.cairo # 1 \/ j.tx.calls = <<>>)
     \/ j.op = "invoke" /\ IsV3(j) /\ j.tx.deployData # j.tx.paymaster
     \/ j.op = "deploy" /\ j.tx.ctor = <<>>

\* A call that throws has one of these reasons; every other transaction is
\* signed.  A call whose data takes several commands does not wait for them, and
\* is sure of its signature only on a transport that keeps their order.
FailureHasCause ==
  \A c \in Callers : pc[c] = "done" /\ ~result[c].ok =>
    \/ c \in refusals \/ c \in mixed
    \/ ~IsSupported(job[c]) \/ ~FitsItsCommands(job[c]) \/ CannotBeShown(job[c])
    \/ /\ IsShown(job[c]) /\ job[c].op = "invoke" /\ transport # "queued"
       /\ \E i \in DOMAIN job[c].tx.calls : IsLong(job[c].tx.calls[i])

\* Every call returns or throws.
EveryCallEnds == <>(\A c \in Callers : pc[c] = "done")

\* "APDU 3 = account deployment data".
DeploymentDataIsSent ==
  \A i \in DOMAIN flight : flight[i].apdu.ins = 3 /\ flight[i].apdu.p1 = 3 =>
    flight[i].apdu.data = job[flight[i].call].tx.deployData
=============================================================================
