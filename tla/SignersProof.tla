---------------------------- MODULE SignersProof ----------------------------
(***************************************************************************)
(* Proofs about Signers.                                                   *)
(*                                                                         *)
(* First, what is hashed: the library's hash of a supported transaction is *)
(* the network's, part by part.  Second, what is sent: whatever the method *)
(* and however long the data, the commands of a call begin with its path,  *)
(* which comes nowhere else, and end with one that is awaited.  This is    *)
(* had by induction over the lists of calls, from the least number (WFMin) *)
(* of a set for which it fails.                                            *)
(*                                                                         *)
(* Third, the inductive invariant Inv: what a call has still to send is    *)
(* the end of its commands; in flight, its path is alone of it, and one    *)
(* command at most is awaited; and unless it met commands of another call, *)
(* the device works with its path from its first command to its last.      *)
(*                                                                         *)
(* Fourth, why a call fails.  The commands of a signature are followed     *)
(* through the device, by induction over the list: it takes each, it is    *)
(* complete with the last and no sooner, and the hash it computes of what  *)
(* it has collected is the library's.  The inductive invariant CauseInv    *)
(* says of a call that is clear (no command of another came between, the   *)
(* user did not refuse, the device can be told of it, and the transport    *)
(* does not part its commands) how far the device is with it; so a clear   *)
(* call does not fail, and what is not clear is a cause that               *)
(* FailureHasCause names.                                                  *)
(***************************************************************************)
EXTENDS Signers, SequenceTheorems, WellFoundedInduction, TLAPS

------------------------------------------------------------------------------
(* The hashes of the library are the network's.                             *)

Jobs == UNION {JobsOf(c) : c \in Callers}

\* The parts of a hash of version 0 to 2, put together in two ways.
AsLibrary(a, b, c, d, e, f, g, h, rest) == <<a, b, c, d, e, f, g>> \o (<<h>> \o rest)
AsProtocol(a, b, c, d, e, f, g, h, rest) == <<a, b, c, d>> \o (<<e, f, g, h>> \o rest)

\* The parts of a hash, put together the library's way and the network's.
LEMMA SameParts ==
  ASSUME NEW a, NEW b, NEW c, NEW d, NEW e, NEW f, NEW g, NEW h, NEW S, NEW rest \in Seq(S)
  PROVE  AsLibrary(a, b, c, d, e, f, g, h, rest) = AsProtocol(a, b, c, d, e, f, g, h, rest)
<1>. DEFINE T == S \union {a, b, c, d, e, f, g, h}
            seven == <<a, b, c, d, e, f, g>>
            one == <<h>>
            four == <<a, b, c, d>>
            others == <<e, f, g, h>>
<1>1. /\ seven \in Seq(T) /\ one \in Seq(T) /\ four \in Seq(T) /\ others \in Seq(T)
      /\ rest \in Seq(T)
  OBVIOUS
<1>2. seven \o one = four \o others
  OBVIOUS
<1>. HIDE DEF T, seven, one, four, others
<1>3. (seven \o one) \o rest = seven \o (one \o rest)
  <2>1. seven \in Seq(T) /\ one \in Seq(T) /\ rest \in Seq(T)
    BY <1>1
  <2>. QED  BY <2>1, ConcatAssociative
<1>4. (four \o others) \o rest = four \o (others \o rest)
  <2>1. four \in Seq(T) /\ others \in Seq(T) /\ rest \in Seq(T)
    BY <1>1
  <2>. QED  BY <2>1, ConcatAssociative
<1>5. seven \o (one \o rest) = four \o (others \o rest)
  BY <1>2, <1>3, <1>4, Zenon
<1>. QED  BY <1>5, Zenon DEF seven, one, four, others, AsLibrary, AsProtocol

\* A version that is supported is one of ETransactionVersion3 if its number is 3.
LEMMA VersionsAre ==
  ASSUME NEW version \in ETransactionVersion2 \union ETransactionVersion3
  PROVE  version \in ETransactionVersion3 <=> version[2] = 3
BY DEF ETransactionVersion2, ETransactionVersion3, V, F

\* calculate*TransactionHash() of a supported version is the hash the network has.
LEMMA HashIsProtocol ==
  ASSUME NEW tx, tx.version \in ETransactionVersion2 \union ETransactionVersion3
  PROVE  /\ tx.kind = "invoke" => calculateInvokeTransactionHash(tx) = ProtocolHash(tx)
         /\ tx.kind = "deploy" => calculateDeployAccountTransactionHash(tx) = ProtocolHash(tx)
         /\ tx.kind = "declare" /\ (tx.compiledClassHash = NoHash <=> tx.version[2] < 2) =>
              calculateDeclareTransactionHash(tx) = ProtocolHash(tx)
<1>1. CASE tx.version \in ETransactionVersion3
  <2>1. tx.version[2] = 3
    BY <1>1, VersionsAre
  <2>. QED
    BY <1>1, <2>1
    DEF calculateInvokeTransactionHash, calculateDeployAccountTransactionHash,
        calculateDeclareTransactionHash, ProtocolHash, InvokeV3, DeployV3, DeclareV3, CommonV3,
        hashFeeField, hashDAMode
<1>2. CASE tx.version \notin ETransactionVersion3
  <2>1. tx.version[2] # 3
    BY <1>2, VersionsAre
  <2>2. ASSUME tx.kind = "invoke"
        PROVE  calculateInvokeTransactionHash(tx) = ProtocolHash(tx)
    <3>1. PICK hash : hash = Pedersen(getExecuteCalldata(tx.calls, tx.cairo))
      OBVIOUS
    <3>2. calculateInvokeTransactionHash(tx) =
            Pedersen(<<<<"invoke">>, tx.version, tx.sender, N(0), hash, tx.maxFee, tx.chain>>
                       \o <<tx.nonce>>)
      BY <1>2, <3>1 DEF calculateInvokeTransactionHash, InvokeV2, CommonV2
    <3>3. ProtocolHash(tx) =
            Pedersen(<<<<"invoke">>, tx.version, tx.sender, N(0)>>
                       \o <<hash, tx.maxFee, tx.chain, tx.nonce>>)
      BY <2>1, <2>2, <3>1 DEF ProtocolHash
    <3>4. <<<<"invoke">>, tx.version, tx.sender, N(0), hash, tx.maxFee, tx.chain>> \o <<tx.nonce>>
            = <<<<"invoke">>, tx.version, tx.sender, N(0)>> \o <<hash, tx.maxFee, tx.chain, tx.nonce>>
      OBVIOUS
    <3>. QED  BY <3>2, <3>3, <3>4, Zenon
  <2>3. ASSUME tx.kind = "deploy"
        PROVE  calculateDeployAccountTransactionHash(tx) = ProtocolHash(tx)
    <3>1. PICK hash : hash = Pedersen(<<tx.classHash, tx.salt>> \o tx.ctor)
      OBVIOUS
    <3>2. calculateDeployAccountTransactionHash(tx) =
            Pedersen(<<<<"deploy_account">>, tx.version, tx.sender, N(0), hash, tx.maxFee, tx.chain>>
                       \o <<tx.nonce>>)
      BY <1>2, <3>1 DEF calculateDeployAccountTransactionHash, DeployV2, CommonV2
    <3>3. ProtocolHash(tx) =
            Pedersen(<<<<"deploy_account">>, tx.version, tx.sender, N(0)>>
                       \o <<hash, tx.maxFee, tx.chain, tx.nonce>>)
      BY <2>1, <2>3, <3>1 DEF ProtocolHash
    <3>4. <<<<"deploy_account">>, tx.version, tx.sender, N(0), hash, tx.maxFee, tx.chain>> \o <<tx.nonce>>
            = <<<<"deploy_account">>, tx.version, tx.sender, N(0)>> \o <<hash, tx.maxFee, tx.chain, tx.nonce>>
      OBVIOUS
    <3>. QED  BY <3>2, <3>3, <3>4, Zenon
  <2>4. ASSUME tx.kind = "declare", tx.compiledClassHash = NoHash <=> tx.version[2] < 2
        PROVE  calculateDeclareTransactionHash(tx) = ProtocolHash(tx)
    <3>1. PICK hash : hash = Pedersen(<<tx.classHash>>)
      OBVIOUS
    <3>2. PICK compiled : compiled = IF tx.version[2] < 2 THEN <<>> ELSE <<tx.compiledClassHash>>
      BY Zenon
    <3>3. calculateDeclareTransactionHash(tx) =
            Pedersen(<<<<"declare">>, tx.version, tx.sender, N(0), hash, tx.maxFee, tx.chain>>
                       \o (<<tx.nonce>> \o compiled))
      BY <1>2, <2>4, <3>1, <3>2 DEF calculateDeclareTransactionHash, DeclareV2, CommonV2
    <3>4. ProtocolHash(tx) =
            Pedersen(<<<<"declare">>, tx.version, tx.sender, N(0)>>
                       \o (<<hash, tx.maxFee, tx.chain, tx.nonce>> \o compiled))
      BY <2>1, <2>4, <3>1, <3>2 DEF ProtocolHash
    <3>5. compiled = <<>> \/ compiled = <<tx.compiledClassHash>>
      BY <3>2
    <3>6. PICK S : compiled \in Seq(S)
      <4>1. <<>> \in Seq({}) /\ <<tx.compiledClassHash>> \in Seq({tx.compiledClassHash})
        OBVIOUS
      <4>. QED  BY <3>5, <4>1, Zenon
    <3>7. AsLibrary(<<"declare">>, tx.version, tx.sender, N(0), hash, tx.maxFee, tx.chain,
                    tx.nonce, compiled)
            = AsProtocol(<<"declare">>, tx.version, tx.sender, N(0), hash, tx.maxFee, tx.chain,
                         tx.nonce, compiled)
      BY <3>6, SameParts
    <3>. QED  BY <3>3, <3>4, <3>7, Zenon DEF AsLibrary, AsProtocol
  <2>. QED  BY <2>2, <2>3, <2>4
<1>. QED  BY <1>1, <1>2

\* What a signer signs for a job is what the network will hash.
LEMMA MsgHashIsAsked ==
  ASSUME NEW j \in Jobs, IsSupported(j), j.op # "pubKey"
  PROVE  msgHash(j) = IF j.op = "message" THEN messageHash(j.message) ELSE ProtocolHash(j.tx)
<1>1. /\ j.op \in {"invoke", "deploy", "declare", "message"}
      /\ j.op # "message" => j.tx.kind = j.op
      /\ j.op = "declare" => (j.tx.compiledClassHash = NoHash <=> j.tx.version[2] < 2)
  BY SignersAssumption DEF Jobs
<1>2. j.op # "message" => j.tx.version \in ETransactionVersion2 \union ETransactionVersion3
  BY <1>1 DEF IsSupported
<1>3. CASE j.op = "message"
  BY <1>3 DEF msgHash
<1>4. CASE j.op # "message"
  BY <1>1, <1>2, <1>4, HashIsProtocol DEF msgHash
<1>. QED  BY <1>3, <1>4

------------------------------------------------------------------------------
(* Lists written one after the other.                                       *)

NatLess == {ss \in Nat \X Nat : ss[1] < ss[2]}

\* A set of naturals that is not empty has a least one.
LEMMA LeastNatural ==
  ASSUME NEW T \in SUBSET Nat, T # {}
  PROVE  \E n \in T : \A m \in T : n <= m
<1>1. IsWellFoundedOn(NatLess, Nat)
  BY NatLessThanWellFounded DEF OpToRel, NatLess
<1>2. PICK n \in T : \A m \in T : ~ (<<m, n>> \in NatLess)
  BY <1>1, WFMin, Zenon
<1>3. ASSUME NEW m \in T PROVE n <= m
  <2>1. m \in Nat /\ n \in Nat
    OBVIOUS
  <2>2. m < n => <<m, n>> \in NatLess
    BY <2>1 DEF NatLess
  <2>. QED BY <1>2, <2>1, <2>2
<1>. QED BY <1>3

\* What holds of 0, and of n + 1 when it holds of n, holds of all naturals.
LEMMA InductionOn ==
  ASSUME NEW T, 0 \in T, \A n \in Nat : n \in T => n + 1 \in T
  PROVE  Nat \subseteq T
<1>1. SUFFICES ASSUME Nat \ T # {} PROVE FALSE
  OBVIOUS
<1>2. PICK n \in Nat \ T : \A m \in Nat \ T : n <= m
  BY <1>1, LeastNatural, Zenon
<1>3. n - 1 \in Nat
  BY <1>2
<1>. QED BY <1>2, <1>3

IsJoining(f, seqs, n) ==
  f = [i \in 1 .. n |-> IF i = 1 THEN seqs[i] ELSE f[i - 1] \o seqs[i]]

\* The function that FlattenSeq defines by recursion exists.
LEMMA JoiningExists ==
  ASSUME NEW seqs
  PROVE  \A n \in Nat : \E f : IsJoining(f, seqs, n)
<1>. DEFINE T == {n \in Nat : \E f : IsJoining(f, seqs, n)}
<1>1. 0 \in T
  <2>1. IsJoining([i \in 1 .. 0 |-> 0], seqs, 0)
    BY DEF IsJoining
  <2>. QED BY <2>1
<1>2. ASSUME NEW n \in Nat, n \in T
      PROVE  n + 1 \in T
  <2>1. PICK f : IsJoining(f, seqs, n)
    BY <1>2
  <2>. DEFINE g == [i \in 1 .. n + 1 |-> IF i = 1 THEN seqs[i] ELSE f[i - 1] \o seqs[i]]
  <2>2. \A i \in 1 .. n : f[i] = IF i = 1 THEN seqs[i] ELSE f[i - 1] \o seqs[i]
    BY <2>1, Zenon DEF IsJoining
  <2>3. \A i \in 1 .. n : g[i] = f[i]
    BY <2>2
  <2>4. ASSUME NEW i \in 1 .. n + 1
        PROVE  g[i] = IF i = 1 THEN seqs[i] ELSE g[i - 1] \o seqs[i]
    <3>1. g[i] = IF i = 1 THEN seqs[i] ELSE f[i - 1] \o seqs[i]
      OBVIOUS
    <3>2. i # 1 => i - 1 \in 1 .. n
      OBVIOUS
    <3>. HIDE DEF g
    <3>. QED  BY <2>3, <3>1, <3>2
  <2>5. DOMAIN g = 1 .. n + 1
    OBVIOUS
  <2>6. g = [i \in 1 .. n + 1 |-> g[i]]
    OBVIOUS
  <2>. HIDE DEF g
  <2>7. g = [i \in 1 .. n + 1 |-> IF i = 1 THEN seqs[i] ELSE g[i - 1] \o seqs[i]]
    BY <2>4, <2>6, Zenon
  <2>8. IsJoining(g, seqs, n + 1)
    BY <2>7, Zenon DEF IsJoining
  <2>. QED  BY <2>8
<1>. HIDE DEF T
<1>3. Nat \subseteq T
  BY <1>1, <1>2, InductionOn
<1>. QED  BY <1>3 DEF T

\* FlattenSeq is the last value of that function.
LEMMA FlattenIsJoined ==
  ASSUME NEW seqs, Len(seqs) \in Nat \ {0}
  PROVE  \E f : IsJoining(f, seqs, Len(seqs)) /\ FlattenSeq(seqs) = f[Len(seqs)]
<1>. DEFINE f == CHOOSE f : IsJoining(f, seqs, Len(seqs))
<1>1. IsJoining(f, seqs, Len(seqs))
  BY JoiningExists
<1>2. FlattenSeq(seqs) = f[Len(seqs)]
  BY DEF FlattenSeq, IsJoining
<1>. QED  BY <1>1, <1>2, Zenon

\* A function on 1 to n is a list.
LEMMA FunctionIsList ==
  ASSUME NEW n \in Nat, NEW S, NEW f \in [1 .. n -> S]
  PROVE  f \in Seq(S) /\ Len(f) = n /\ DOMAIN f = 1 .. n
OBVIOUS

\* A list of members of a set is one of a larger set.
LEMMA SubsetList ==
  ASSUME NEW S, NEW T, S \subseteq T, NEW s \in Seq(S)
  PROVE  s \in Seq(T)
OBVIOUS

\* Lists of S that end in T.
EndsIn(S, T) == {s \in Seq(S) : s # <<>> /\ s[Len(s)] \in T}

\* What ends two lists is what ends the second.
LEMMA ConcatenationEnds ==
  ASSUME NEW S, NEW T, NEW s \in Seq(S), NEW t \in EndsIn(S, T)
  PROVE  s \o t \in EndsIn(S, T)
<1>1. t \in Seq(S) /\ t # <<>> /\ t[Len(t)] \in T
  BY DEF EndsIn
<1>2. PICK u : u = s \o t
  BY Zenon
<1>3. PICK a \in Nat, b \in Nat \ {0} : a = Len(s) /\ b = Len(t)
  BY <1>1
<1>4. u \in Seq(S) /\ Len(u) = a + b
  BY <1>1, <1>2, <1>3
<1>5. u[a + b] = t[b]
  BY <1>1, <1>2, <1>3
<1>6. u # <<>>
  BY <1>3, <1>4
<1>. QED  BY <1>1, <1>2, <1>3, <1>4, <1>5, <1>6, Zenon DEF EndsIn

\* Such lists, written one after the other, are such a list.
LEMMA FlattenEnds ==
  ASSUME NEW S, NEW T, NEW seqs \in Seq(EndsIn(S, T))
  PROVE  FlattenSeq(seqs) \in EndsIn(S, T) \union {<<>>}
<1>1. CASE seqs = <<>>
  BY <1>1 DEF FlattenSeq
<1>2. CASE seqs # <<>>
  <2>1. PICK n \in Nat \ {0} : n = Len(seqs)
    BY <1>2
  <2>2. PICK f : IsJoining(f, seqs, n) /\ FlattenSeq(seqs) = f[n]
    BY <2>1, FlattenIsJoined
  <2>3. \A i \in 1 .. n : f[i] = IF i = 1 THEN seqs[i] ELSE f[i - 1] \o seqs[i]
    BY <2>2, Zenon DEF IsJoining
  <2>. DEFINE D == {k \in Nat : k \in 1 .. n => f[k] \in EndsIn(S, T)}
  <2>4. 0 \in D
    OBVIOUS
  <2>5. ASSUME NEW k \in Nat, k \in D
        PROVE  k + 1 \in D
    <3>. SUFFICES ASSUME k + 1 \in 1 .. n
                  PROVE  f[k + 1] \in EndsIn(S, T)
      OBVIOUS
    <3>1. seqs[k + 1] \in EndsIn(S, T)
      BY <2>1
    <3>2. CASE k = 0
      <4>1. f[k + 1] = seqs[k + 1]
        BY <2>3, <3>2
      <4>. QED  BY <3>1, <4>1
    <3>3. CASE k # 0
      <4>1. k \in 1 .. n /\ k + 1 # 1 /\ (k + 1) - 1 = k
        BY <3>3
      <4>2. f[k] \in EndsIn(S, T) /\ f[k + 1] = f[k] \o seqs[k + 1]
        BY <2>3, <2>5, <4>1, Zenon
      <4>3. f[k] \in Seq(S)
        BY <4>2 DEF EndsIn
      <4>. QED  BY <3>1, <4>2, <4>3, ConcatenationEnds
    <3>. QED  BY <3>2, <3>3
  <2>. HIDE DEF D
  <2>6. Nat \subseteq D
    BY <2>4, <2>5, InductionOn
  <2>7. f[n] \in EndsIn(S, T)
    BY <2>6 DEF D
  <2>. QED  BY <2>2, <2>7
<1>. QED  BY <1>1, <1>2

------------------------------------------------------------------------------
(* The commands of a call.                                                  *)

\* Commands that are not for a public key, and those after the first.
CommandSet(Data) == [ins : 2 .. 6, p1 : Nat, p2 : 0 .. 2, data : Data, awaited : BOOLEAN]
LaterSet(Data) == {c \in CommandSet(Data) : c.p1 # 0}
AwaitedSet(Data) == {c \in LaterSet(Data) : c.awaited = TRUE}

\* What is in a command, awaited or not.
LEMMA ApduIs ==
  ASSUME NEW ins \in 2 .. 6, NEW p1 \in Nat, NEW p2 \in 0 .. 2, NEW Data, NEW data \in Data
  PROVE  /\ Apdu(ins, p1, p2, data) \in CommandSet(Data) /\ LooseApdu(ins, p1, p2, data) \in CommandSet(Data)
         /\ p1 # 0 => /\ Apdu(ins, p1, p2, data) \in AwaitedSet(Data)
                      /\ LooseApdu(ins, p1, p2, data) \in LaterSet(Data)
BY Zenon DEF Apdu, LooseApdu, CommandSet, LaterSet, AwaitedSet

\* A list is cut into at least one part, if it is not empty.
LEMMA ChunksAre ==
  ASSUME NEW words, Len(words) \in Nat
  PROVE  Len(Chunks(words)) \in Nat /\ DOMAIN Chunks(words) = 1 .. Len(Chunks(words))
<1>. DEFINE count == (Len(words) + PartLen - 1) \div PartLen
            PartEnd(i) == IF PartLen * i < Len(words) THEN PartLen * i ELSE Len(words)
            part(i) == SubSeq(words, PartLen * (i - 1) + 1, PartEnd(i))
<1>1. count \in Int
  BY SignersAssumption
<1>2. Chunks(words) = [i \in 1 .. count |-> part(i)]
  BY DEF Chunks
<1>3. PICK m \in Nat : 1 .. count = 1 .. m
  <2>1. count \in Nat \/ 1 .. count = 1 .. 0
    BY <1>1
  <2>. QED  BY <2>1, Zenon
<1>. HIDE DEF count, part
<1>4. PICK parts : parts = [i \in 1 .. m |-> part(i)]
  BY Zenon
<1>5. parts \in [1 .. m -> {part(i) : i \in 1 .. m}]
  BY <1>4
<1>6. parts \in Seq({part(i) : i \in 1 .. m}) /\ Len(parts) = m
  BY <1>5, FunctionIsList, Zenon
<1>. QED  BY <1>2, <1>3, <1>4, <1>6, Zenon

\* A call: its parts, and the awaited command that closes it.
LEMMA CallCommandsAre ==
  ASSUME NEW ins \in 2 .. 6, NEW p1 \in Nat \ {0}, NEW call, IsList(call.args), NEW Data,
         <<>> \in Data, \A i \in Nat : encodeCall(call)[i] \in Data
  PROVE  CallCommands(ins, p1, call) \in EndsIn(LaterSet(Data), AwaitedSet(Data))
<1>1. PICK parts : parts = encodeCall(call)
  OBVIOUS
<1>2. Len(parts) \in Nat
  <2>1. call.args \in Seq({call.args[i] : i \in DOMAIN call.args})
    BY DEF IsList
  <2>2. Len(<<call.to, call.selector>> \o call.args) \in Nat
    BY <2>1
  <2>. QED  BY <1>1, <2>2, ChunksAre DEF encodeCall
<1>3. PICK m \in Nat : 1 .. Len(parts) - 1 = 1 .. m
  <2>1. Len(parts) - 1 \in Nat \/ 1 .. Len(parts) - 1 = 1 .. 0
    BY <1>2
  <2>. QED  BY <2>1
<1>4. PICK first : first = <<Apdu(ins, p1, 0, parts[1])>>
  BY Zenon
<1>5. PICK loose : loose = [i \in 1 .. m |-> LooseApdu(ins, p1, 1, parts[i + 1])]
  BY Zenon
<1>6. PICK closing : closing = <<Apdu(ins, p1, 2, <<>>)>>
  BY Zenon
<1>7. CallCommands(ins, p1, call) = (first \o loose) \o closing
  BY <1>1, <1>3, <1>4, <1>5, <1>6, Zenon DEF CallCommands
<1>8. \A i \in Nat : parts[i] \in Data
  BY <1>1
<1>9. first \in Seq(LaterSet(Data))
  <2>1. Apdu(ins, p1, 0, parts[1]) \in AwaitedSet(Data)
    BY <1>8, ApduIs
  <2>. QED  BY <1>4, <2>1 DEF AwaitedSet
<1>10. loose \in Seq(LaterSet(Data))
  <2>1. \A i \in 1 .. m : LooseApdu(ins, p1, 1, parts[i + 1]) \in LaterSet(Data)
    BY <1>8, ApduIs
  <2>2. loose \in [1 .. m -> LaterSet(Data)]
    BY <1>5, <2>1
  <2>. QED  BY <2>2, FunctionIsList
<1>11. closing \in EndsIn(LaterSet(Data), AwaitedSet(Data))
  <2>1. PICK a : a = Apdu(ins, p1, 2, <<>>)
    OBVIOUS
  <2>2. a \in AwaitedSet(Data)
    BY <2>1, ApduIs
  <2>3. a \in LaterSet(Data)
    BY <2>2 DEF AwaitedSet
  <2>4. closing = <<a>>
    BY <1>6, <2>1
  <2>. QED  BY <2>2, <2>3, <2>4 DEF EndsIn
<1>12. first \o loose \in Seq(LaterSet(Data))
  BY <1>9, <1>10
<1>. QED  BY <1>7, <1>11, <1>12, ConcatenationEnds, Zenon

\* Calls are a list, and so are the arguments of each.
AreCalls(calls) == IsList(calls) /\ \A i \in DOMAIN calls : IsList(calls[i].args)

\* What is sent of the calls is among Data.
Holds(Data, calls) ==
  /\ <<>> \in Data
  /\ \A i \in DOMAIN calls : \A k \in Nat : encodeCall(calls[i])[k] \in Data

\* The commands of all calls come after the first, and the last one is awaited.
LEMMA CallsCommandsAre ==
  ASSUME NEW ins \in 2 .. 6, NEW p1 \in Nat \ {0}, NEW calls, AreCalls(calls),
         NEW Data, Holds(Data, calls)
  PROVE  CallsCommands(ins, p1, calls) \in EndsIn(LaterSet(Data), AwaitedSet(Data)) \union {<<>>}
<1>0. /\ IsList(calls) /\ <<>> \in Data
      /\ \A i \in DOMAIN calls : IsList(calls[i].args)
      /\ \A i \in DOMAIN calls : \A k \in Nat : encodeCall(calls[i])[k] \in Data
  BY DEF AreCalls, Holds
<1>1. PICK n \in Nat : DOMAIN calls = 1 .. n
  BY <1>0 DEF IsList
<1>2. PICK seqs : seqs = [i \in 1 .. n |-> CallCommands(ins, p1, calls[i])]
  BY Zenon
<1>3. \A i \in 1 .. n : CallCommands(ins, p1, calls[i]) \in EndsIn(LaterSet(Data), AwaitedSet(Data))
  <2>. SUFFICES ASSUME NEW i \in 1 .. n
                PROVE  CallCommands(ins, p1, calls[i]) \in EndsIn(LaterSet(Data), AwaitedSet(Data))
    OBVIOUS
  <2>1. PICK call : call = calls[i]
    OBVIOUS
  <2>2. IsList(call.args) /\ \A k \in Nat : encodeCall(call)[k] \in Data
    BY <1>0, <1>1, <2>1
  <2>3. CallCommands(ins, p1, call) \in EndsIn(LaterSet(Data), AwaitedSet(Data))
    BY <1>0, <2>2, CallCommandsAre
  <2>. QED  BY <2>1, <2>3
<1>4. seqs \in [1 .. n -> EndsIn(LaterSet(Data), AwaitedSet(Data))]
  BY <1>2, <1>3
<1>5. seqs \in Seq(EndsIn(LaterSet(Data), AwaitedSet(Data)))
  BY <1>4, FunctionIsList
<1>6. CallsCommands(ins, p1, calls) = FlattenSeq(seqs)
  BY <1>1, <1>2 DEF CallsCommands
<1>. QED  BY <1>5, <1>6, FlattenEnds

\* The arguments of a constructor, each awaited.
LEMMA ConstructorCommandsAre ==
  ASSUME NEW ins \in 2 .. 6, NEW p1 \in Nat \ {0}, NEW ctor, IsList(ctor), NEW Data,
         \A k \in Nat : Chunks(ctor)[k] \in Data
  PROVE  ConstructorCommands(ins, p1, ctor)
           \in EndsIn(LaterSet(Data), AwaitedSet(Data)) \union {<<>>}
<1>1. PICK n \in Nat : n = Len(Chunks(ctor)) /\ DOMAIN Chunks(ctor) = 1 .. n
  <2>1. Len(ctor) \in Nat
    BY DEF IsList
  <2>. QED  BY <2>1, ChunksAre
<1>2. PICK cmds : cmds = ConstructorCommands(ins, p1, ctor)
  OBVIOUS
<1>3. cmds = [i \in 1 .. n |-> Apdu(ins, p1, 0, Chunks(ctor)[i])]
  BY <1>1, <1>2 DEF ConstructorCommands
<1>4. \A i \in 1 .. n : Apdu(ins, p1, 0, Chunks(ctor)[i]) \in AwaitedSet(Data)
  BY ApduIs
<1>5. cmds \in [1 .. n -> AwaitedSet(Data)]
  BY <1>3, <1>4
<1>6. cmds \in [1 .. n -> LaterSet(Data)]
  BY <1>5 DEF AwaitedSet
<1>7. cmds \in Seq(LaterSet(Data)) /\ Len(cmds) = n
  BY <1>6, FunctionIsList
<1>8. n # 0 => cmds[Len(cmds)] \in AwaitedSet(Data)
  BY <1>5, <1>7
<1>9. n = 0 => cmds = <<>>
  BY <1>7
<1>. QED  BY <1>2, <1>7, <1>8, <1>9 DEF EndsIn

\* The commands of a call: the path first, and the last awaited.
IsScript(s, path) ==
  /\ s \in Seq({s[n] : n \in DOMAIN s}) /\ Len(s) \in Nat \ {0}
  /\ s[1].p1 = 0 /\ s[1].data = path /\ s[1].awaited = TRUE
  /\ \A n \in 1 .. Len(s) : s[n].ins \in 1 .. 6 /\ (n # 1 => s[n].p1 # 0)
  /\ s[Len(s)].awaited = TRUE

\* A head of commands, and more of them or none.
IsHead(head, Data, path) ==
  /\ head \in Seq(CommandSet(Data)) /\ Len(head) \in Nat \ {0}
  /\ head[1].p1 = 0 /\ head[1].data = path
  /\ \A i \in 1 .. Len(head) : head[i].awaited = TRUE /\ (i # 1 => head[i].p1 # 0)

IsSigning(s, path) == IsScript(s, path) /\ \A n \in 1 .. Len(s) : s[n].ins \in 2 .. 6

\* A head of commands and later ones are the commands of one signature.
LEMMA HeadAndMore ==
  ASSUME NEW Data, NEW head, NEW path, IsHead(head, Data, path),
         NEW more \in EndsIn(LaterSet(Data), AwaitedSet(Data)) \union {<<>>}
  PROVE  IsSigning(head \o more, path)
<1>0. PICK n \in Nat \ {0} :
        /\ head \in Seq(CommandSet(Data)) /\ Len(head) = n
        /\ head[1].p1 = 0 /\ head[1].data = path /\ \A i \in 1 .. n : head[i].awaited = TRUE
        /\ \A i \in 2 .. n : head[i].p1 # 0
  BY DEF IsHead
<1>1. more \in Seq(LaterSet(Data)) /\ (more # <<>> => more[Len(more)] \in AwaitedSet(Data))
  <2>1. CASE more = <<>>
    BY <2>1
  <2>2. CASE more # <<>>
    BY <2>2 DEF EndsIn
  <2>. QED  BY <2>1, <2>2
<1>2. PICK m \in Nat : m = Len(more)
  BY <1>1
<1>3. PICK s : s = head \o more
  BY Zenon
<1>4. more \in Seq(CommandSet(Data))
  <2>1. LaterSet(Data) \subseteq CommandSet(Data)
    BY DEF LaterSet
  <2>. QED  BY <1>1, <2>1, SubsetList
<1>5. s \in Seq(CommandSet(Data)) /\ Len(s) = n + m
  <2>1. PICK S : S = CommandSet(Data)
    OBVIOUS
  <2>2. head \in Seq(S) /\ more \in Seq(S)
    BY <1>0, <1>4, <2>1
  <2>3. s \in Seq(S) /\ Len(s) = Len(head) + Len(more)
    BY <1>3, <2>2, ConcatProperties
  <2>. QED  BY <1>0, <1>2, <2>1, <2>3
<1>6. \A i \in 1 .. n : s[i] = head[i]
  BY <1>0, <1>3, <1>4
<1>7. \A i \in 1 .. m : s[n + i] = more[i]
  BY <1>0, <1>2, <1>3, <1>4
<1>8. \A i \in 1 .. n + m : s[i] \in CommandSet(Data)
  <2>1. PICK S : S = CommandSet(Data)
    OBVIOUS
  <2>2. s \in Seq(S) /\ Len(s) = n + m
    BY <1>5, <2>1
  <2>3. \A i \in 1 .. Len(s) : s[i] \in S
    BY <2>2, ElementOfSeq
  <2>. QED  BY <2>1, <2>2, <2>3
<1>9. \A i \in 1 .. n + m : s[i].ins \in 2 .. 6
  BY <1>8 DEF CommandSet
<1>10. ASSUME NEW i \in 1 .. n + m, i # 1
       PROVE  s[i].p1 # 0
  <2>1. CASE i <= n
    <3>1. i \in 2 .. n
      BY <1>10, <2>1
    <3>. QED  BY <1>0, <1>6, <3>1
  <2>2. CASE ~(i <= n)
    <3>1. PICK k \in 1 .. m : i = n + k
      <4>1. i - n \in 1 .. m /\ i = n + (i - n)
        BY <2>2
      <4>. QED  BY <4>1
    <3>2. more[k] \in LaterSet(Data)
      BY <1>1, <1>2
    <3>. QED  BY <1>7, <3>1, <3>2 DEF LaterSet
  <2>. QED  BY <2>1, <2>2
<1>11. s[n + m].awaited = TRUE
  <2>1. CASE m = 0
    BY <1>0, <1>6, <2>1
  <2>2. CASE m # 0
    <3>1. m \in 1 .. m /\ more # <<>>
      BY <1>2, <2>2
    <3>2. more[m] \in AwaitedSet(Data)
      BY <1>1, <1>2, <3>1
    <3>. QED  BY <1>7, <3>1, <3>2 DEF AwaitedSet
  <2>. QED  BY <2>1, <2>2, Zenon
<1>12. s[1] = head[1] /\ 1 \in 1 .. n
  BY <1>6
<1>13. s \in Seq({s[i] : i \in DOMAIN s})
  BY <1>5
<1>14. IsScript(s, path)
  BY <1>0, <1>5, <1>9, <1>10, <1>11, <1>12, <1>13 DEF IsScript
<1>. QED  BY <1>3, <1>5, <1>9, <1>14 DEF IsSigning

\* signTxV1() sends the path first, once, and awaits its last command.
LEMMA SignTxV1Is ==
  ASSUME NEW tx, IsList(tx.calls), \A i \in DOMAIN tx.calls : IsList(tx.calls[i].args), NEW path
  PROVE  IsSigning(signTxV1(path, tx), path)
<1>1. PICK d1 : d1 = <<tx.sender, tx.maxFee, tx.chain, tx.nonce>>
  BY Zenon
<1>2. PICK d2 : d2 = <<N(Len(tx.calls))>>
  BY Zenon
<1>3. PICK Data : Data = {path, <<>>, d1, d2}
                      \union UNION {{encodeCall(tx.calls[i])[k] : k \in Nat} : i \in DOMAIN tx.calls}
  BY Zenon
<1>4. PICK more : more = CallsCommands(4, 3, tx.calls)
  OBVIOUS
<1>5. PICK head : head = <<Apdu(4, 0, 0, path),
                          Apdu(4, 1, 0, d1),
                          Apdu(4, 2, 0, d2)>>
  BY Zenon
<1>6. signTxV1(path, tx) = head \o more
  BY <1>1, <1>2, <1>4, <1>5 DEF signTxV1
<1>7. more \in EndsIn(LaterSet(Data), AwaitedSet(Data)) \union {<<>>}
  <2>1. PICK calls : calls = tx.calls
    OBVIOUS
  <2>2. AreCalls(calls)
    BY <2>1 DEF AreCalls
  <2>3. Holds(Data, calls)
    BY <1>3, <2>1 DEF Holds
  <2>4. CallsCommands(4, 3, calls) \in EndsIn(LaterSet(Data), AwaitedSet(Data)) \union {<<>>}
    BY <2>2, <2>3, CallsCommandsAre
  <2>. QED  BY <1>4, <2>1, <2>4
<1>8. head \in Seq(CommandSet(Data)) /\ Len(head) = 3
  <2>1. /\ Apdu(4, 0, 0, path) \in CommandSet(Data)
        /\ Apdu(4, 1, 0, d1) \in CommandSet(Data)
        /\ Apdu(4, 2, 0, d2) \in CommandSet(Data)
    BY <1>3, ApduIs
  <2>. QED  BY <1>5, <2>1
<1>9. IsHead(head, Data, path)
  <2>1. /\ head[1].p1 = 0 /\ head[1].data = path
        /\ \A i \in 1 .. 3 : head[i].awaited = TRUE /\ (i # 1 => head[i].p1 # 0)
    BY <1>5 DEF Apdu
  <2>. QED  BY <1>8, <2>1 DEF IsHead
<1>. QED  BY <1>6, <1>7, <1>9, HeadAndMore

\* So does signTxV3(),
LEMMA SignTxV3Is ==
  ASSUME NEW tx, IsList(tx.calls), \A i \in DOMAIN tx.calls : IsList(tx.calls[i].args), NEW path
  PROVE  IsSigning(signTxV3(path, tx), path)
<1>1. PICK d1 : d1 = <<tx.sender, tx.tip, encodeResourceBounds("L1_GAS", tx.l1),
                         encodeResourceBounds("L2_GAS", tx.l2), tx.chain, tx.nonce,
                         hashDAMode(intDAM(tx.nonceDAM), intDAM(tx.feeDAM))>>
  BY Zenon
<1>2. PICK d2 : d2 = tx.paymaster
  OBVIOUS
<1>3. PICK d3 : d3 = tx.paymaster
  OBVIOUS
<1>4. PICK d4 : d4 = <<N(Len(tx.calls))>>
  BY Zenon
<1>5. PICK Data : Data = {path, <<>>, d1, d2, d3, d4}
                      \union UNION {{encodeCall(tx.calls[i])[k] : k \in Nat} : i \in DOMAIN tx.calls}
  BY Zenon
<1>6. PICK more : more = CallsCommands(3, 5, tx.calls)
  OBVIOUS
<1>7. PICK head : head = <<Apdu(3, 0, 0, path),
                          Apdu(3, 1, 0, d1),
                          Apdu(3, 2, 0, d2),
                          Apdu(3, 3, 0, d3),
                          Apdu(3, 4, 0, d4)>>
  BY Zenon
<1>8. signTxV3(path, tx) = head \o more
  BY <1>1, <1>2, <1>3, <1>4, <1>6, <1>7 DEF signTxV3
<1>9. more \in EndsIn(LaterSet(Data), AwaitedSet(Data)) \union {<<>>}
  <2>1. PICK calls : calls = tx.calls
    OBVIOUS
  <2>2. AreCalls(calls)
    BY <2>1 DEF AreCalls
  <2>3. Holds(Data, calls)
    BY <1>5, <2>1 DEF Holds
  <2>4. CallsCommands(3, 5, calls) \in EndsIn(LaterSet(Data), AwaitedSet(Data)) \union {<<>>}
    BY <2>2, <2>3, CallsCommandsAre
  <2>. QED  BY <1>6, <2>1, <2>4
<1>10. head \in Seq(CommandSet(Data)) /\ Len(head) = 5
  <2>1. /\ Apdu(3, 0, 0, path) \in CommandSet(Data)
        /\ Apdu(3, 1, 0, d1) \in CommandSet(Data)
        /\ Apdu(3, 2, 0, d2) \in CommandSet(Data)
        /\ Apdu(3, 3, 0, d3) \in CommandSet(Data)
        /\ Apdu(3, 4, 0, d4) \in CommandSet(Data)
    BY <1>5, ApduIs
  <2>. QED  BY <1>7, <2>1
<1>11. IsHead(head, Data, path)
  <2>1. /\ head[1].p1 = 0 /\ head[1].data = path
        /\ \A i \in 1 .. 5 : head[i].awaited = TRUE /\ (i # 1 => head[i].p1 # 0)
    BY <1>7 DEF Apdu
  <2>. QED  BY <1>10, <2>1 DEF IsHead
<1>. QED  BY <1>8, <1>9, <1>11, HeadAndMore

\* signDeployAccountV1(),
LEMMA SignDeployV1Is ==
  ASSUME NEW tx, IsList(tx.ctor), NEW path
  PROVE  IsSigning(signDeployAccountV1(path, tx), path)
<1>1. PICK d1 : d1 = <<tx.sender, tx.classHash, tx.salt, tx.chain, tx.nonce>>
  BY Zenon
<1>2. PICK d2 : d2 = <<tx.maxFee>>
  BY Zenon
<1>3. PICK d3 : d3 = <<N(Len(tx.ctor))>>
  BY Zenon
<1>4. PICK Data : Data = {path, <<>>, d1, d2, d3}
                      \union {Chunks(tx.ctor)[k] : k \in Nat}
  BY Zenon
<1>5. PICK more : more = ConstructorCommands(6, 4, tx.ctor)
  OBVIOUS
<1>6. PICK head : head = <<Apdu(6, 0, 0, path),
                          Apdu(6, 1, 0, d1),
                          Apdu(6, 2, 0, d2),
                          Apdu(6, 3, 0, d3)>>
  BY Zenon
<1>7. signDeployAccountV1(path, tx) = head \o more
  BY <1>1, <1>2, <1>3, <1>5, <1>6 DEF signDeployAccountV1
<1>8. more \in EndsIn(LaterSet(Data), AwaitedSet(Data)) \union {<<>>}
  <2>1. <<>> \in Data /\ \A k \in Nat : Chunks(tx.ctor)[k] \in Data
    BY <1>4
  <2>. QED  BY <1>5, <2>1, ConstructorCommandsAre
<1>9. head \in Seq(CommandSet(Data)) /\ Len(head) = 4
  <2>1. /\ Apdu(6, 0, 0, path) \in CommandSet(Data)
        /\ Apdu(6, 1, 0, d1) \in CommandSet(Data)
        /\ Apdu(6, 2, 0, d2) \in CommandSet(Data)
        /\ Apdu(6, 3, 0, d3) \in CommandSet(Data)
    BY <1>4, ApduIs
  <2>. QED  BY <1>6, <2>1
<1>10. IsHead(head, Data, path)
  <2>1. /\ head[1].p1 = 0 /\ head[1].data = path
        /\ \A i \in 1 .. 4 : head[i].awaited = TRUE /\ (i # 1 => head[i].p1 # 0)
    BY <1>6 DEF Apdu
  <2>. QED  BY <1>9, <2>1 DEF IsHead
<1>. QED  BY <1>7, <1>8, <1>10, HeadAndMore

\* signDeployAccountV3(),
LEMMA SignDeployV3Is ==
  ASSUME NEW tx, IsList(tx.ctor), NEW path
  PROVE  IsSigning(signDeployAccountV3(path, tx), path)
<1>1. PICK d1 : d1 = <<tx.sender, tx.chain, tx.nonce,
                         hashDAMode(intDAM(tx.nonceDAM), intDAM(tx.feeDAM)), tx.classHash, tx.salt>>
  BY Zenon
<1>2. PICK d2 : d2 = <<tx.tip, encodeResourceBounds("L1_GAS", tx.l1),
                         encodeResourceBounds("L2_GAS", tx.l2)>>
  BY Zenon
<1>3. PICK d3 : d3 = tx.paymaster
  OBVIOUS
<1>4. PICK d4 : d4 = <<N(Len(tx.ctor))>>
  BY Zenon
<1>5. PICK Data : Data = {path, <<>>, d1, d2, d3, d4}
                      \union {Chunks(tx.ctor)[k] : k \in Nat}
  BY Zenon
<1>6. PICK more : more = ConstructorCommands(5, 5, tx.ctor)
  OBVIOUS
<1>7. PICK head : head = <<Apdu(5, 0, 0, path),
                          Apdu(5, 1, 0, d1),
                          Apdu(5, 2, 0, d2),
                          Apdu(5, 3, 0, d3),
                          Apdu(5, 4, 0, d4)>>
  BY Zenon
<1>8. signDeployAccountV3(path, tx) = head \o more
  BY <1>1, <1>2, <1>3, <1>4, <1>6, <1>7 DEF signDeployAccountV3
<1>9. more \in EndsIn(LaterSet(Data), AwaitedSet(Data)) \union {<<>>}
  <2>1. <<>> \in Data /\ \A k \in Nat : Chunks(tx.ctor)[k] \in Data
    BY <1>5
  <2>. QED  BY <1>6, <2>1, ConstructorCommandsAre
<1>10. head \in Seq(CommandSet(Data)) /\ Len(head) = 5
  <2>1. /\ Apdu(5, 0, 0, path) \in CommandSet(Data)
        /\ Apdu(5, 1, 0, d1) \in CommandSet(Data)
        /\ Apdu(5, 2, 0, d2) \in CommandSet(Data)
        /\ Apdu(5, 3, 0, d3) \in CommandSet(Data)
        /\ Apdu(5, 4, 0, d4) \in CommandSet(Data)
    BY <1>5, ApduIs
  <2>. QED  BY <1>7, <2>1
<1>11. IsHead(head, Data, path)
  <2>1. /\ head[1].p1 = 0 /\ head[1].data = path
        /\ \A i \in 1 .. 5 : head[i].awaited = TRUE /\ (i # 1 => head[i].p1 # 0)
    BY <1>7 DEF Apdu
  <2>. QED  BY <1>10, <2>1 DEF IsHead
<1>. QED  BY <1>8, <1>9, <1>11, HeadAndMore

\* signRaw(), whose second command has the hash,
LEMMA SignRawIs ==
  ASSUME NEW path, NEW hash
  PROVE  /\ IsSigning(signRaw(path, hash), path) /\ Len(signRaw(path, hash)) = 2
         /\ \A n \in 1 .. 2 : signRaw(path, hash)[n].ins = 2
         /\ signRaw(path, hash)[2].data = <<hash>>
<1>1. PICK s : s = signRaw(path, hash)
  OBVIOUS
<1>2. PICK a : a = Apdu(2, 0, 0, path)
  OBVIOUS
<1>3. PICK b : b = Apdu(2, 1, 0, <<hash>>)
  OBVIOUS
<1>4. /\ a.ins = 2 /\ a.p1 = 0 /\ a.data = path /\ a.awaited = TRUE
      /\ b.ins = 2 /\ b.p1 = 1 /\ b.data = <<hash>> /\ b.awaited = TRUE
  BY <1>2, <1>3 DEF Apdu
<1>5. s = <<a, b>>
  BY <1>1, <1>2, <1>3 DEF signRaw
<1>6. s \in Seq({s[n] : n \in DOMAIN s}) /\ Len(s) = 2 /\ s[1] = a /\ s[2] = b
  BY <1>5
<1>7. IsSigning(s, path)
  BY <1>4, <1>6 DEF IsSigning, IsScript
<1>. QED  BY <1>1, <1>4, <1>6, <1>7

\* and getPublicKeys(), which sends the path and nothing else.
LEMMA GetPublicKeysIs ==
  ASSUME NEW path
  PROVE  /\ IsScript(getPublicKeys(path), path) /\ Len(getPublicKeys(path)) = 1
         /\ getPublicKeys(path)[1].ins = 1
<1>1. PICK s : s = getPublicKeys(path)
  OBVIOUS
<1>2. PICK a : a = Apdu(1, 0, 0, path)
  OBVIOUS
<1>3. a.ins = 1 /\ a.p1 = 0 /\ a.data = path /\ a.awaited = TRUE
  BY <1>2 DEF Apdu
<1>4. s = <<a>>
  BY <1>1, <1>2 DEF getPublicKeys
<1>5. s \in Seq({s[n] : n \in DOMAIN s}) /\ Len(s) = 1 /\ s[1] = a
  BY <1>4
<1>. QED  BY <1>1, <1>3, <1>5 DEF IsScript

\* What Script says of a call.
LEMMA ScriptIs ==
  ASSUME NEW j \in Jobs
  PROVE  LET s == Script(j)
         IN /\ IsScript(s, <<PathOf(j.signer)>>)
            /\ j.op = "pubKey" => Len(s) = 1 /\ s[1].ins = 1
            /\ j.op # "pubKey" => \A n \in 1 .. Len(s) : s[n].ins \in 2 .. 6
            /\ j.op # "pubKey" /\ ~IsShown(j) =>
                 /\ Len(s) = 2 /\ \A n \in 1 .. 2 : s[n].ins = 2
                 /\ s[2].data = <<msgHash(j)>>
<1>1. PICK path : path = <<PathOf(j.signer)>>
  BY Zenon
<1>2. PICK s : s = Script(j)
  OBVIOUS
<1>3. /\ IsList(j.tx.ctor) /\ IsList(j.tx.calls)
      /\ \A i \in DOMAIN j.tx.calls : IsList(j.tx.calls[i].args)
  BY SignersAssumption DEF Jobs
<1>4. CASE j.op = "pubKey"
  <2>1. s = getPublicKeys(path)
    BY <1>1, <1>2, <1>4 DEF Script
  <2>. QED  BY <1>1, <1>2, <1>4, <2>1, GetPublicKeysIs
<1>5. CASE j.op # "pubKey" /\ IsShown(j)
  <2>1. j.op = "invoke" \/ j.op = "deploy"
    BY <1>5 DEF IsShown
  <2>2. CASE j.op = "invoke"
    <3>1. s = IF IsV3(j) THEN signTxV3(path, j.tx) ELSE signTxV1(path, j.tx)
      BY <1>1, <1>2, <1>5, <2>2 DEF Script
    <3>2. IsSigning(s, path)
      BY <1>3, <3>1, SignTxV3Is, SignTxV1Is
    <3>. QED  BY <1>1, <1>2, <1>5, <3>2 DEF IsSigning
  <2>3. CASE j.op = "deploy"
    <3>1. s = IF IsV3(j) THEN signDeployAccountV3(path, j.tx) ELSE signDeployAccountV1(path, j.tx)
      BY <1>1, <1>2, <1>5, <2>3 DEF Script
    <3>2. IsSigning(s, path)
      BY <1>3, <3>1, SignDeployV3Is, SignDeployV1Is
    <3>. QED  BY <1>1, <1>2, <1>5, <3>2 DEF IsSigning
  <2>. QED  BY <2>1, <2>2, <2>3
<1>6. CASE j.op # "pubKey" /\ ~IsShown(j)
  <2>1. s = signRaw(path, msgHash(j))
    BY <1>1, <1>2, <1>6 DEF Script
  <2>2. IsSigning(s, path) /\ Len(s) = 2 /\ \A n \in 1 .. 2 : s[n].ins = 2
    BY <2>1, SignRawIs
  <2>3. s[2].data = <<msgHash(j)>>
    BY <2>1, SignRawIs
  <2>. QED  BY <1>1, <1>2, <1>6, <2>2, <2>3 DEF IsSigning
<1>. QED  BY <1>4, <1>5, <1>6

\* t is s without what is at place i.
IsWithout(t, s, i, n, S) ==
  /\ t \in Seq(S) /\ Len(t) = n - 1
  /\ \A k \in 1 .. n - 1 : t[k] = s[IF k < i THEN k ELSE k + 1]

\* What RemoveAt leaves of a list.
LEMMA RemovedAt ==
  ASSUME NEW S, NEW s \in Seq(S), NEW n \in Nat, Len(s) = n, NEW i \in 1 .. n
  PROVE  IsWithout(RemoveAt(s, i), s, i, n, S)
<1>1. PICK a : a = SubSeq(s, 1, i - 1)
  BY Zenon
<1>2. PICK b : b = SubSeq(s, i + 1, n)
  BY Zenon
<1>3. a \in Seq(S) /\ Len(a) = i - 1 /\ \A k \in 1 .. i - 1 : a[k] = s[k]
  <2>1. \A k \in 1 .. i - 1 : s[k] \in S
    OBVIOUS
  <2>2. i - 1 \in Int /\ 1 \in Int
    OBVIOUS
  <2>. QED  BY <1>1, <2>1, <2>2, SubSeqProperties
<1>4. b \in Seq(S) /\ Len(b) = n - i /\ \A k \in 1 .. n - i : b[k] = s[i + k]
  <2>1. \A k \in i + 1 .. n : s[k] \in S
    OBVIOUS
  <2>2. i + 1 \in Int /\ n \in Int /\ n - (i + 1) + 1 = n - i
    OBVIOUS
  <2>3. /\ b \in Seq(S) /\ Len(b) = IF i + 1 <= n THEN n - (i + 1) + 1 ELSE 0
        /\ \A k \in 1 .. n - (i + 1) + 1 : b[k] = s[(i + 1) + k - 1]
    BY <1>2, <2>1, <2>2, SubSeqProperties
  <2>4. \A k \in 1 .. n - i : b[k] = s[i + k]
    <3>. SUFFICES ASSUME NEW k \in 1 .. n - i PROVE b[k] = s[i + k]
      OBVIOUS
    <3>1. (i + 1) + k - 1 = i + k
      OBVIOUS
    <3>. QED  BY <2>2, <2>3, <3>1
  <2>. QED  BY <2>2, <2>3, <2>4
<1>5. PICK u : u = a \o b
  BY Zenon
<1>6. u = RemoveAt(s, i)
  BY <1>1, <1>2, <1>5 DEF RemoveAt
<1>7. /\ u \in Seq(S) /\ Len(u) = Len(a) + Len(b)
      /\ \A k \in 1 .. Len(a) + Len(b) : u[k] = IF k <= Len(a) THEN a[k] ELSE b[k - Len(a)]
  BY <1>3, <1>4, <1>5, ConcatProperties, Zenon
<1>8. Len(u) = n - 1
  BY <1>3, <1>4, <1>7
<1>9. ASSUME NEW k \in 1 .. n - 1
      PROVE  u[k] = s[IF k < i THEN k ELSE k + 1]
  <2>1. CASE k < i
    <3>1. k \in 1 .. i - 1 /\ k \in 1 .. (i - 1) + (n - i)
      BY <2>1
    <3>2. u[k] = a[k]
      BY <1>3, <1>4, <1>7, <3>1
    <3>. QED  BY <1>3, <2>1, <3>1, <3>2
  <2>2. CASE ~(k < i)
    <3>1. k - (i - 1) \in 1 .. n - i /\ k \in 1 .. (i - 1) + (n - i) /\ ~(k <= i - 1)
          /\ i + (k - (i - 1)) = k + 1
      BY <2>2
    <3>2. u[k] = b[k - (i - 1)]
      BY <1>3, <1>4, <1>7, <3>1
    <3>. QED  BY <1>4, <2>2, <3>1, <3>2, Zenon
  <2>. QED  BY <2>1, <2>2
<1>. QED  BY <1>6, <1>7, <1>8, <1>9 DEF IsWithout

------------------------------------------------------------------------------
(* The inductive invariant.                                                 *)

Commands(j) == {Script(j)[n] : n \in 1 .. Len(Script(j))}
AllCommands == UNION {Commands(job[c]) : c \in Callers}

Types ==
  /\ job \in [Callers -> Jobs] /\ pc \in [Callers -> {"ready", "running", "done"}]
  /\ script = [c \in Callers |-> script[c]] /\ answer = [c \in Callers |-> answer[c]]
  /\ result = [c \in Callers |-> result[c]] /\ pubKey = [s \in Signers |-> pubKey[s]]
  /\ transport \in Transports
  /\ flight \in Seq([call : Callers, apdu : AllCommands])

InFlight(c) == \E k \in DOMAIN flight : flight[k].call = c
FirstInFlight(c) == \E k \in DOMAIN flight : flight[k].call = c /\ flight[k].apdu.p1 = 0
HasSent(c) == Len(script[c]) < Len(Script(job[c]))

\* What a call has still to send is the end of its commands.
IsEndOf(rest, j) ==
  LET s == Script(j)
  IN /\ rest \in Seq(Commands(j)) /\ Len(rest) <= Len(s)
     /\ \A n \in 1 .. Len(rest) : rest[n] = s[Len(s) - Len(rest) + n]

RestIsOwn(c) == IsEndOf(script[c], job[c])

\* What the device has answered to it is about its own hash and key.
AnswerIsOwn(c) ==
  answer[c] # NoAnswer =>
    /\ job[c].op # "pubKey" /\ (~IsShown(job[c]) => answer[c].hash = msgHash(job[c]))
    /\ c \notin mixed => answer[c].key = KeyOf(job[c].signer)

\* Between the first of its commands and the last, the device works for it.
DeviceIsHeld(c) ==
  c \notin mixed /\ HasSent(c) /\ (script[c] # <<>> \/ InFlight(c)) /\ ~FirstInFlight(c) =>
    device.ins = 0 \/ device.path = <<PathOf(job[c].signer)>>

CallInv(c) ==
  /\ pc[c] = "ready" => ~InFlight(c) /\ answer[c] = NoAnswer
  /\ pc[c] = "running" =>
       /\ IsLedger(job[c].signer) /\ IsSupported(job[c])
       /\ RestIsOwn(c) /\ AnswerIsOwn(c) /\ DeviceIsHeld(c)
       /\ InFlight(c) => HasSent(c)

\* In flight, a first command is alone of its call, and at most one is awaited;
\* a call on an ordered transport awaits the last.
FlightOf(k) ==
  /\ flight[k].apdu \in Commands(job[flight[k].call]) /\ IsLedger(job[flight[k].call].signer)
  /\ flight[k].apdu.awaited => pc[flight[k].call] = "running"
  /\ \A l \in DOMAIN flight : flight[l].call = flight[k].call =>
       /\ flight[k].apdu.p1 = 0 => l = k
       /\ flight[k].apdu.awaited /\ flight[l].apdu.awaited => l = k
  /\ transport # "unordered" /\ pc[flight[k].call] = "running" =>
       \E l \in DOMAIN flight : l >= k /\ flight[l].call = flight[k].call /\ flight[l].apdu.awaited

DeviceInv ==
  /\ \A s \in Signers : pubKey[s] \in {Unset, KeyOf(s)}
  /\ DOMAIN device = {"ins", "path", "head", "parts", "open", "closed"}
  /\ device = [f \in DOMAIN device |-> device[f]]
  /\ device.ins = 2 => device.head = <<>>

Asked(j) == IF j.op = "message" THEN messageHash(j.message) ELSE ProtocolHash(j.tx)

\* A call ends with an answer to its own question.
Fits(c, r) ==
  r.ok => /\ job[c].op # "pubKey" => r.hash = Asked(job[c])
          /\ c \notin mixed => r.key = KeyOf(job[c].signer)
          /\ transport # "unordered" => ~InFlight(c)

Results == \A c \in Callers : pc[c] = "done" => Fits(c, result[c])

Inv ==
  /\ Types /\ (\A c \in Callers : CallInv(c)) /\ (\A k \in DOMAIN flight : FlightOf(k))
  /\ DeviceInv /\ Results

------------------------------------------------------------------------------
(* The initial states, and calls that end.                                  *)

\* No call has sent anything, and the device has collected nothing.
LEMMA InitHolds == Init => Inv
<1>. SUFFICES ASSUME Init PROVE Inv
  OBVIOUS
<1>1. DOMAIN flight = {} /\ flight = <<>>
  BY DEF Init
<1>2. job \in [Callers -> Jobs]
  BY DEF Init, Jobs
<1>3. Types
  BY <1>1, <1>2 DEF Init, Types
<1>4. \A c \in Callers : CallInv(c)
  BY <1>1 DEF Init, CallInv, InFlight
<1>5. DeviceInv
  BY DEF Init, DeviceInv, Idle
<1>6. Results
  BY DEF Init, Results
<1>. QED  BY <1>1, <1>3, <1>4, <1>5, <1>6 DEF Inv

\* What is in flight is a list of commands, each of a call.
LEMMA FlightIs ==
  ASSUME Types
  PROVE  /\ DOMAIN flight = 1 .. Len(flight) /\ Len(flight) \in Nat
         /\ \A k \in DOMAIN flight : /\ flight[k] \in [call : Callers, apdu : AllCommands]
                                    /\ flight[k].call \in Callers
<1>1. flight \in Seq([call : Callers, apdu : AllCommands])
  BY DEF Types
<1>2. \A k \in DOMAIN flight : flight[k] \in [call : Callers, apdu : AllCommands]
  <2>1. PICK Sendable : Sendable = [call : Callers, apdu : AllCommands]
    BY Zenon
  <2>2. flight \in Seq(Sendable)
    BY <1>1, <2>1
  <2>3. \A k \in DOMAIN flight : flight[k] \in Sendable
    BY <2>2
  <2>. QED  BY <2>1, <2>3
<1>3. \A k \in DOMAIN flight : flight[k].call \in Callers
  <2>. SUFFICES ASSUME NEW k \in DOMAIN flight PROVE flight[k].call \in Callers
    OBVIOUS
  <2>1. PICK e : e = flight[k]
    OBVIOUS
  <2>2. e \in [call : Callers, apdu : AllCommands]
    BY <1>2, <2>1
  <2>. QED  BY <2>1, <2>2
<1>4. DOMAIN flight = 1 .. Len(flight) /\ Len(flight) \in Nat
  BY <1>1
<1>. QED  BY <1>2, <1>3, <1>4

\* A step of call c: nothing of the other calls changes, but what of them may
\* have met commands of c.
StepOf(c) ==
  /\ job' = job /\ transport' = transport /\ mixed \subseteq mixed'
  /\ pc' \in [Callers -> {"ready", "running", "done"}]
  /\ script' = [d \in Callers |-> script'[d]] /\ answer' = [d \in Callers |-> answer'[d]]
  /\ result' = [d \in Callers |-> result'[d]] /\ pubKey' = [s \in Signers |-> pubKey'[s]]
  /\ flight' \in Seq([call : Callers, apdu : AllCommands])
  /\ \A d \in Callers \ {c} :
       /\ pc'[d] = pc[d] /\ script'[d] = script[d] /\ answer'[d] = answer[d]
       /\ result'[d] = result[d]
       /\ (InFlight(d)' <=> InFlight(d)) /\ (FirstInFlight(d)' <=> FirstInFlight(d))

\* A step of one call keeps the invariant when it keeps what is about that call.
LEMMA StepKeeps ==
  ASSUME Inv, NEW c \in Callers, StepOf(c), CallInv(c)',
         \A d \in Callers \ {c} : pc[d] = "running" => DeviceIsHeld(d)',
         \A k \in DOMAIN flight' : FlightOf(k)',
         DeviceInv', pc'[c] = "done" => Fits(c, result[c])'
  PROVE  Inv'
<1>1. Types'
  <2>1. AllCommands' = AllCommands
    BY DEF AllCommands, StepOf
  <2>. QED  BY <2>1 DEF Inv, Types, StepOf
<1>2. ASSUME NEW d \in Callers
      PROVE  CallInv(d)'
  <2>1. CASE d # c
    <3>1. /\ CallInv(d) /\ pc'[d] = pc[d] /\ (InFlight(d)' <=> InFlight(d))
          /\ job' = job /\ script'[d] = script[d] /\ answer'[d] = answer[d]
          /\ mixed \subseteq mixed'
      BY <2>1 DEF Inv, StepOf
    <3>2. (HasSent(d)' <=> HasSent(d)) /\ (RestIsOwn(d)' <=> RestIsOwn(d))
      BY <3>1 DEF HasSent, RestIsOwn
    <3>3. AnswerIsOwn(d) => AnswerIsOwn(d)'
      BY <3>1 DEF AnswerIsOwn
    <3>. QED  BY <2>1, <3>1, <3>2, <3>3 DEF CallInv
  <2>. QED  BY <2>1
<1>3. Results'
  <2>. SUFFICES ASSUME NEW d \in Callers, pc'[d] = "done", d # c
               PROVE  Fits(d, result[d])'
    BY DEF Results
  <2>1. Fits(d, result[d])
    BY DEF Inv, Results, StepOf
  <2>2. /\ job' = job /\ result'[d] = result[d] /\ transport' = transport
        /\ mixed \subseteq mixed' /\ (InFlight(d)' <=> InFlight(d))
    BY DEF StepOf
  <2>. QED  BY <2>1, <2>2 DEF Fits
<1>. QED  BY <1>1, <1>2, <1>3 DEF Inv

\* What a call that ends changes.
LEMMA EndIs ==
  ASSUME Types, NEW c \in Callers, NEW r, End(c, r)
  PROVE  /\ pc' \in [Callers -> {"ready", "running", "done"}]
         /\ script' = [d \in Callers |-> script'[d]] /\ result' = [d \in Callers |-> result'[d]]
         /\ \A d \in Callers \ {c} :
              pc'[d] = pc[d] /\ script'[d] = script[d] /\ result'[d] = result[d]
         /\ pc'[c] = "done" /\ script'[c] = <<>> /\ result'[c] = r
<1>1. /\ pc' = [pc EXCEPT ![c] = "done"] /\ script' = [script EXCEPT ![c] = <<>>]
      /\ result' = [result EXCEPT ![c] = r]
  BY DEF End
<1>2. /\ pc \in [Callers -> {"ready", "running", "done"}]
      /\ script = [d \in Callers |-> script[d]] /\ result = [d \in Callers |-> result[d]]
  BY DEF Types
<1>. QED  BY <1>1, <1>2, Zenon

\* A call that waits for nothing may end with what answers its question.
LEMMA EndKeeps ==
  ASSUME Inv, NEW c \in Callers, NEW r, pc[c] # "done", ~IsWaiting(c), End(c, r), Fits(c, r),
         UNCHANGED <<job, answer, pubKey, transport, flight, device, mixed>>
  PROVE  Inv'
<1>1. Types
  BY DEF Inv
<1>2. \A d \in Callers : InFlight(d)' = InFlight(d) /\ FirstInFlight(d)' = FirstInFlight(d)
  BY DEF InFlight, FirstInFlight
<1>3. StepOf(c)
  <2>1. /\ flight \in Seq([call : Callers, apdu : AllCommands])
        /\ answer = [d \in Callers |-> answer[d]] /\ pubKey = [s \in Signers |-> pubKey[s]]
    BY <1>1 DEF Types
  <2>. QED  BY <1>1, <1>2, <2>1, EndIs DEF StepOf
<1>4. CallInv(c)'
  BY <1>1, EndIs DEF CallInv
<1>5. ASSUME NEW d \in Callers \ {c}, pc[d] = "running"
      PROVE  DeviceIsHeld(d)'
  <2>1. DeviceIsHeld(d)
    BY <1>5 DEF Inv, CallInv
  <2>2. script'[d] = script[d]
    BY <1>1, EndIs
  <2>3. HasSent(d)' <=> HasSent(d)
    BY <2>2 DEF HasSent
  <2>. QED  BY <1>2, <2>1, <2>2, <2>3 DEF DeviceIsHeld
<1>6. ASSUME NEW k \in DOMAIN flight
      PROVE  FlightOf(k)'
  <2>1. FlightOf(k) /\ flight[k].call \in Callers
    BY FlightIs DEF Inv
  <2>2. flight[k].apdu.awaited => flight[k].call # c
    BY DEF IsWaiting
  <2>3. flight[k].apdu.awaited => pc'[flight[k].call] = "running"
    BY <1>1, <2>1, <2>2, EndIs DEF FlightOf
  <2>4. pc'[flight[k].call] = "running" => pc[flight[k].call] = "running"
    BY <1>1, <2>1, EndIs
  <2>. QED  BY <2>1, <2>3, <2>4 DEF FlightOf
<1>7. DeviceInv'
  BY DEF Inv, DeviceInv
<1>8. Fits(c, result[c])'
  <2>1. result'[c] = r
    BY <1>1, EndIs
  <2>. QED  BY <1>2, <2>1 DEF Fits
<1>. QED  BY <1>3, <1>4, <1>5, <1>6, <1>7, <1>8, StepKeeps

\* A call of which nothing is in flight waits for nothing.
LEMMA Waiting == ASSUME NEW c \in Callers, ~InFlight(c) PROVE ~IsWaiting(c)
BY DEF IsWaiting, InFlight

\* A call's job is one of those that are asked for, of a signer there is.
LEMMA JobIs == ASSUME Inv, NEW c \in Callers PROVE job[c] \in Jobs /\ job[c].signer \in Signers
<1>1. job[c] \in Jobs
  BY DEF Inv, Types
<1>. QED  BY <1>1, SignersAssumption DEF Jobs

\* Signer and EthSigner hash what was asked for, and sign with the key they hold.
LEMMA SignWithKeyKeeps ==
  ASSUME Inv, NEW c \in Callers, SignWithKey(c)
  PROVE  Inv'
<1>1. PICK r : /\ End(c, r)
               /\ r = IF job[c].op = "pubKey" THEN Returns(Unset, KeyOf(job[c].signer))
                      ELSE IF IsSupported(job[c]) THEN Returns(msgHash(job[c]), KeyOf(job[c].signer))
                      ELSE Failed
  BY DEF SignWithKey
<1>2. /\ pc[c] = "ready"
      /\ UNCHANGED <<job, answer, pubKey, transport, flight, device, mixed>>
  BY DEF SignWithKey
<1>3. CallInv(c) /\ ~InFlight(c)
  BY <1>2 DEF Inv, CallInv
<1>4. r.ok => r.key = KeyOf(job[c].signer)
  BY <1>1 DEF Returns, Failed
<1>5. r.ok /\ job[c].op # "pubKey" => IsSupported(job[c]) /\ r.hash = msgHash(job[c])
  BY <1>1 DEF Returns, Failed
<1>6. r.ok /\ job[c].op # "pubKey" => r.hash = Asked(job[c])
  BY <1>5, JobIs, MsgHashIsAsked DEF Asked
<1>7. Fits(c, r)
  BY <1>3, <1>4, <1>6 DEF Fits
<1>. QED  BY <1>1, <1>2, <1>3, <1>7, Waiting, EndKeeps

\* The key that was kept is the signer's.
LEMMA CachedKeyKeeps ==
  ASSUME Inv, NEW c \in Callers, CachedKey(c)
  PROVE  Inv'
<1>1. PICK r : End(c, r) /\ r = Returns(Unset, pubKey[job[c].signer])
  BY DEF CachedKey
<1>2. /\ pc[c] = "ready" /\ job[c].op = "pubKey" /\ pubKey[job[c].signer] # Unset
      /\ UNCHANGED <<job, answer, pubKey, transport, flight, device, mixed>>
  BY DEF CachedKey
<1>3. CallInv(c) /\ ~InFlight(c)
  BY <1>2 DEF Inv, CallInv
<1>4. pubKey[job[c].signer] = KeyOf(job[c].signer)
  BY <1>2, JobIs DEF Inv, DeviceInv
<1>5. Fits(c, r)
  BY <1>1, <1>2, <1>3, <1>4 DEF Fits, Returns
<1>. QED  BY <1>1, <1>2, <1>3, <1>5, Waiting, EndKeeps

\* Nothing was sent for a call that throws at once.
LEMMA RefuseToSignKeeps ==
  ASSUME Inv, NEW c \in Callers, RefuseToSign(c)
  PROVE  Inv'
<1>1. /\ pc[c] = "ready" /\ End(c, Failed)
      /\ UNCHANGED <<job, answer, pubKey, transport, flight, device, mixed>>
  BY DEF RefuseToSign
<1>2. CallInv(c) /\ ~InFlight(c)
  BY <1>1 DEF Inv, CallInv
<1>3. Fits(c, Failed)
  BY DEF Fits, Failed
<1>. QED  BY <1>1, <1>2, <1>3, Waiting, EndKeeps

\* On a transport that keeps the order, a call that waits for nothing has
\* nothing left in flight.
LEMMA NothingInFlight ==
  ASSUME Inv, NEW c \in Callers, pc[c] = "running", ~IsWaiting(c), transport # "unordered"
  PROVE  ~InFlight(c)
<1>. SUFFICES ASSUME NEW k \in DOMAIN flight, flight[k].call = c PROVE FALSE
  BY DEF InFlight
<1>1. FlightOf(k)
  BY DEF Inv
<1>2. \E l \in DOMAIN flight : flight[l].call = flight[k].call /\ flight[l].apdu.awaited
  BY <1>1 DEF FlightOf
<1>. QED  BY <1>2 DEF IsWaiting

\* The hash that was signed was sent by the library, or is compared with its own.
LEMMA FinishKeeps ==
  ASSUME Inv, NEW c \in Callers, Finish(c)
  PROVE  Inv'
<1>1. PICK r : /\ End(c, r)
               /\ r = IF answer[c] = NoAnswer
                          \/ (IsShown(job[c]) /\ answer[c].hash # msgHash(job[c]))
                      THEN Failed ELSE Returns(answer[c].hash, answer[c].key)
  BY DEF Finish
<1>2. /\ pc[c] = "running" /\ ~IsWaiting(c)
      /\ UNCHANGED <<job, answer, pubKey, transport, flight, device, mixed>>
  BY DEF Finish
<1>3. IsSupported(job[c]) /\ AnswerIsOwn(c)
  BY <1>2 DEF Inv, CallInv
<1>4. r.ok => /\ answer[c] # NoAnswer /\ (IsShown(job[c]) => answer[c].hash = msgHash(job[c]))
              /\ r.hash = answer[c].hash /\ r.key = answer[c].key
  BY <1>1 DEF Returns, Failed
<1>5. r.ok => /\ job[c].op # "pubKey" /\ r.hash = msgHash(job[c])
              /\ c \notin mixed => r.key = KeyOf(job[c].signer)
  BY <1>3, <1>4 DEF AnswerIsOwn
<1>6. r.ok => r.hash = Asked(job[c])
  BY <1>3, <1>5, JobIs, MsgHashIsAsked DEF Asked
<1>7. Fits(c, r)
  BY <1>2, <1>5, <1>6, NothingInFlight DEF Fits
<1>. QED  BY <1>1, <1>2, <1>7, EndKeeps

\* A call that starts has all of its commands to send.
LEMMA StartKeeps ==
  ASSUME Inv, NEW c \in Callers, Start(c)
  PROVE  Inv'
<1>1. /\ pc[c] = "ready" /\ IsLedger(job[c].signer) /\ IsSupported(job[c])
      /\ pc' = [pc EXCEPT ![c] = "running"]
      /\ script' = [script EXCEPT ![c] = Script(job[c])]
      /\ job' = job /\ answer' = answer /\ result' = result /\ pubKey' = pubKey
      /\ transport' = transport /\ flight' = flight /\ device' = device /\ mixed' = mixed
  BY DEF Start
<1>2. /\ pc' \in [Callers -> {"ready", "running", "done"}]
      /\ script' = [d \in Callers |-> script'[d]]
      /\ \A d \in Callers \ {c} : pc'[d] = pc[d] /\ script'[d] = script[d]
      /\ pc'[c] = "running" /\ script'[c] = Script(job[c])
  <2>1. /\ pc \in [Callers -> {"ready", "running", "done"}]
        /\ script = [d \in Callers |-> script[d]]
    BY DEF Inv, Types
  <2>. QED  BY <1>1, <2>1
<1>3. \A d \in Callers : InFlight(d)' = InFlight(d) /\ FirstInFlight(d)' = FirstInFlight(d)
  BY <1>1 DEF InFlight, FirstInFlight
<1>4. StepOf(c)
  <2>1. /\ flight \in Seq([call : Callers, apdu : AllCommands])
        /\ answer = [d \in Callers |-> answer[d]] /\ pubKey = [s \in Signers |-> pubKey[s]]
        /\ result = [d \in Callers |-> result[d]]
    BY DEF Inv, Types
  <2>. QED  BY <1>1, <1>2, <1>3, <2>1 DEF StepOf
<1>5. ~InFlight(c) /\ answer[c] = NoAnswer
  BY <1>1 DEF Inv, CallInv
<1>6. CallInv(c)'
  <2>1. PICK s : s = Script(job[c])
    OBVIOUS
  <2>2. IsScript(s, <<PathOf(job[c].signer)>>)
    BY <2>1, JobIs, ScriptIs
  <2>3. s \in Seq(Commands(job[c])) /\ Len(s) \in Nat
    <3>1. s \in Seq({s[n] : n \in DOMAIN s})
      BY <2>2 DEF IsScript
    <3>2. {s[n] : n \in DOMAIN s} = {s[n] : n \in 1 .. Len(s)}
      BY <3>1
    <3>. QED  BY <2>1, <3>1, <3>2 DEF Commands
  <2>4. RestIsOwn(c)'
    <3>1. IsEndOf(s, job[c])
      BY <2>1, <2>3 DEF IsEndOf
    <3>. QED  BY <1>1, <1>2, <2>1, <3>1 DEF RestIsOwn
  <2>5. ~HasSent(c)'
    BY <1>1, <1>2, <2>1, <2>3 DEF HasSent
  <2>6. ~InFlight(c)' /\ AnswerIsOwn(c)'
    BY <1>1, <1>3, <1>5 DEF AnswerIsOwn
  <2>7. DeviceIsHeld(c)'
    BY <2>5 DEF DeviceIsHeld
  <2>. QED  BY <1>1, <1>2, <2>4, <2>6, <2>7 DEF CallInv
<1>7. ASSUME NEW d \in Callers \ {c}, pc[d] = "running"
      PROVE  DeviceIsHeld(d)'
  <2>1. DeviceIsHeld(d)
    BY <1>7 DEF Inv, CallInv
  <2>2. HasSent(d)' <=> HasSent(d)
    BY <1>1, <1>2 DEF HasSent
  <2>. QED  BY <1>1, <1>2, <1>3, <2>1, <2>2 DEF DeviceIsHeld
<1>8. ASSUME NEW k \in DOMAIN flight
      PROVE  FlightOf(k)'
  <2>1. FlightOf(k) /\ flight[k].call \in Callers
    BY FlightIs DEF Inv
  <2>2. flight[k].call # c
    BY <1>5 DEF InFlight
  <2>3. pc'[flight[k].call] = pc[flight[k].call]
    BY <1>2, <2>1, <2>2
  <2>. QED  BY <1>1, <2>1, <2>3 DEF FlightOf
<1>9. DeviceInv'
  BY <1>1 DEF Inv, DeviceInv
<1>. QED  BY <1>1, <1>2, <1>4, <1>6, <1>7, <1>8, <1>9, StepKeeps

------------------------------------------------------------------------------
(* Commands that are sent.                                                  *)

\* The command with the path is awaited.
LEMMA FirstIsAwaited ==
  ASSUME NEW j \in Jobs, NEW a \in Commands(j), a.p1 = 0
  PROVE  a.awaited
<1>1. PICK s : s = Script(j)
  OBVIOUS
<1>2. IsScript(s, <<PathOf(j.signer)>>)
  BY <1>1, ScriptIs
<1>3. PICK n \in 1 .. Len(s) : a = s[n]
  BY <1>1 DEF Commands
<1>. QED  BY <1>2, <1>3 DEF IsScript

\* A call that has commands left sends them up to one it awaits; the first of
\* all it sends alone.
LEMMA NextAwaitedIs ==
  ASSUME Inv, NEW c \in Callers, pc[c] = "running", script[c] # <<>>
  PROVE  LET n == NextAwaited(c)
         IN /\ script[c] \in Seq(Commands(job[c])) /\ n \in 1 .. Len(script[c])
            /\ script[c][n].awaited /\ \A m \in 1 .. n - 1 : ~script[c][m].awaited
            /\ ~HasSent(c) => n = 1 /\ script[c][1].p1 = 0
            /\ Len(script[c]) <= Len(Script(job[c])) /\ Len(Script(job[c])) \in Nat
<1>1. PICK C : C = Commands(job[c])
  OBVIOUS
<1>2. PICK s : s = Script(job[c])
  OBVIOUS
<1>3. PICK r : r = script[c]
  OBVIOUS
<1>4. IsScript(s, <<PathOf(job[c].signer)>>)
  BY <1>2, JobIs, ScriptIs
<1>5. PICK L \in Nat \ {0} : L = Len(s)
  BY <1>4 DEF IsScript
<1>6. /\ r \in Seq(C) /\ Len(r) <= L
      /\ \A n \in 1 .. Len(r) : r[n] = s[L - Len(r) + n]
  BY <1>1, <1>2, <1>3, <1>5, Zenon DEF Inv, CallInv, RestIsOwn, IsEndOf
<1>7. PICK l \in Nat : l = Len(r)
  BY <1>6
<1>8. l # 0 /\ DOMAIN r = 1 .. l
  BY <1>3, <1>6, <1>7
<1>9. r[l] = s[L] /\ r[l].awaited
  <2>1. l \in 1 .. l /\ L - l + l = L
    BY <1>8
  <2>. QED  BY <1>4, <1>5, <1>6, <1>7, <2>1 DEF IsScript
<1>10. PICK n \in {m \in 1 .. l : r[m].awaited} : \A m \in {m \in 1 .. l : r[m].awaited} : n <= m
  <2>1. {m \in 1 .. l : r[m].awaited} \in SUBSET Nat
    OBVIOUS
  <2>2. l \in {m \in 1 .. l : r[m].awaited}
    BY <1>8, <1>9
  <2>. QED  BY <2>1, <2>2, LeastNatural, Zenon
<1>11. n \in DOMAIN r /\ r[n].awaited /\ \A m \in 1 .. n - 1 : ~r[m].awaited
  BY <1>8, <1>10
<1>12. PICK a : a = NextAwaited(c)
  OBVIOUS
<1>13. a \in DOMAIN r /\ r[a].awaited /\ \A m \in 1 .. a - 1 : ~r[m].awaited
  BY <1>3, <1>11, <1>12 DEF NextAwaited
<1>14. ~HasSent(c) => a = 1 /\ r[1].p1 = 0
  <2>. SUFFICES ASSUME ~HasSent(c) PROVE a = 1 /\ r[1].p1 = 0
    OBVIOUS
  <2>1. l = L
    BY <1>2, <1>3, <1>5, <1>6, <1>7 DEF HasSent
  <2>2. r[1] = s[1]
    BY <1>5, <1>6, <1>7, <2>1
  <2>3. r[1].awaited /\ r[1].p1 = 0
    BY <1>4, <2>2 DEF IsScript
  <2>4. 1 \notin 1 .. a - 1
    BY <1>13, <2>3
  <2>. QED  BY <1>8, <1>13, <2>3, <2>4
<1>. QED  BY <1>1, <1>2, <1>3, <1>5, <1>6, <1>7, <1>8, <1>12, <1>13, <1>14

\* What Send puts in flight.
LEMMA SentIs ==
  ASSUME Inv, NEW c \in Callers, pc[c] = "running", script[c] # <<>>
  PROVE  /\ Sent(c) \in Seq([call : Callers, apdu : AllCommands])
         /\ Len(Sent(c)) = NextAwaited(c)
         /\ \A i \in 1 .. NextAwaited(c) : Sent(c)[i] = [call |-> c, apdu |-> script[c][i]]
<1>1. PICK n \in Nat : n = NextAwaited(c)
  BY NextAwaitedIs
<1>2. PICK r : r = script[c]
  OBVIOUS
<1>3. PICK A : A = AllCommands
  OBVIOUS
<1>4. ASSUME NEW i \in 1 .. n PROVE r[i] \in A
  <2>1. r \in Seq(Commands(job[c])) /\ n \in 1 .. Len(r)
    BY <1>1, <1>2, NextAwaitedIs
  <2>2. r[i] \in Commands(job[c])
    BY <2>1
  <2>. QED  BY <1>3, <2>2 DEF AllCommands
<1>5. PICK f : f = [i \in 1 .. n |-> [call |-> c, apdu |-> r[i]]]
  BY Zenon
<1>6. f \in Seq([call : Callers, apdu : A]) /\ Len(f) = n
  BY <1>4, <1>5
<1>7. f = Sent(c)
  BY <1>1, <1>2, <1>5 DEF Sent
<1>. QED  BY <1>1, <1>2, <1>3, <1>5, <1>6, <1>7

\* What is sent comes last; what is left is the end of what there was.
Appended(c) ==
  LET n == NextAwaited(c)
  IN /\ flight' \in Seq([call : Callers, apdu : AllCommands])
     /\ Len(flight') = Len(flight) + n
     /\ \A k \in 1 .. Len(flight) : flight'[k] = flight[k]
     /\ \A i \in 1 .. n : flight'[Len(flight) + i] = [call |-> c, apdu |-> script[c][i]]
     /\ script'[c] \in Seq(Commands(job[c])) /\ Len(script'[c]) = Len(script[c]) - n
     /\ \A i \in 1 .. Len(script[c]) - n : script'[c][i] = script[c][n + i]

\* What a call sends is behind all that others sent, and off the front of its list.
LEMMA AppendedIs ==
  ASSUME Inv, NEW c \in Callers, pc[c] = "running", script[c] # <<>>, flight' = flight \o Sent(c),
         script' = [script EXCEPT ![c] = SubSeq(@, NextAwaited(c) + 1, Len(@))]
  PROVE  Appended(c)
<1>1. PICK Sendable : Sendable = [call : Callers, apdu : AllCommands]
  BY Zenon
<1>2. PICK g : g = Sent(c)
  OBVIOUS
<1>3. PICK n \in Nat : n = NextAwaited(c)
  BY NextAwaitedIs
<1>4. flight \in Seq(Sendable) /\ g \in Seq(Sendable)
  BY <1>1, <1>2, SentIs, Zenon DEF Inv, Types
<1>5. PICK w \in Nat : w = Len(flight)
  BY <1>4
<1>6. Len(g) = n /\ \A i \in 1 .. n : g[i] = [call |-> c, apdu |-> script[c][i]]
  BY <1>2, <1>3, SentIs
<1>7. PICK u : u = flight \o g
  BY Zenon
<1>8. /\ u \in Seq(Sendable) /\ Len(u) = w + n
      /\ \A k \in 1 .. w + n : u[k] = IF k <= w THEN flight[k] ELSE g[k - w]
  BY <1>4, <1>5, <1>6, <1>7, ConcatProperties
<1>9. \A k \in 1 .. w : u[k] = flight[k]
  BY <1>8
<1>10. ASSUME NEW i \in 1 .. n PROVE u[w + i] = [call |-> c, apdu |-> script[c][i]]
  <2>1. w + i \in 1 .. w + n /\ ~(w + i <= w) /\ w + i - w = i
    OBVIOUS
  <2>2. u[w + i] = g[i]
    BY <1>8, <2>1
  <2>. QED  BY <1>6, <2>2
<1>11. PICK r : r = script[c]
  OBVIOUS
<1>12. PICK C : C = Commands(job[c])
  OBVIOUS
<1>13. r \in Seq(C) /\ n \in 1 .. Len(r)
  BY <1>3, <1>11, <1>12, NextAwaitedIs
<1>14. PICK l \in Nat : l = Len(r)
  BY <1>13
<1>15. script'[c] = SubSeq(r, n + 1, l)
  <2>1. script = [d \in Callers |-> script[d]]
    BY DEF Inv, Types
  <2>. QED  BY <1>3, <1>11, <1>14, <2>1, Zenon
<1>16. PICK t : t = SubSeq(r, n + 1, l)
  BY Zenon
<1>17. /\ t \in Seq(C) /\ Len(t) = IF n + 1 <= l THEN l - (n + 1) + 1 ELSE 0
       /\ \A i \in 1 .. l - (n + 1) + 1 : t[i] = r[(n + 1) + i - 1]
  <2>1. n + 1 \in Int /\ l \in Int /\ \A i \in n + 1 .. l : r[i] \in C
    BY <1>13, <1>14
  <2>. QED  BY <1>16, <2>1, SubSeqProperties
<1>18. Len(t) = l - n /\ \A i \in 1 .. l - n : t[i] = r[n + i]
  <2>1. n <= l /\ l - (n + 1) + 1 = l - n
    BY <1>13, <1>14
  <2>2. ASSUME NEW i \in 1 .. l - n PROVE t[i] = r[n + i]
    <3>1. (n + 1) + i - 1 = n + i
      OBVIOUS
    <3>. QED  BY <1>17, <2>1, <3>1
  <2>3. Len(t) = l - n
    BY <1>17, <2>1
  <2>. QED  BY <2>2, <2>3
<1>19. /\ flight' \in Seq(Sendable) /\ Len(flight') = w + n /\ (\A k \in 1 .. w : flight'[k] = flight[k])
       /\ \A i \in 1 .. n : flight'[w + i] = [call |-> c, apdu |-> script[c][i]]
  BY <1>2, <1>7, <1>8, <1>9, <1>10, Zenon
<1>20. /\ script'[c] \in Seq(C) /\ Len(script'[c]) = l - n
       /\ \A i \in 1 .. l - n : script'[c][i] = r[n + i]
  BY <1>15, <1>16, <1>17, <1>18, Zenon
<1>. QED  BY <1>1, <1>3, <1>5, <1>11, <1>12, <1>14, <1>19, <1>20, Zenon DEF Appended

\* Once a call has sent its first command it has no other that is a first one.
LEMMA LaterIsNotFirst ==
  ASSUME Inv, NEW c \in Callers, pc[c] = "running", NEW i \in 1 .. Len(script[c]), script[c][i].p1 = 0
  PROVE  ~HasSent(c) /\ i = 1
<1>1. PICK s : s = Script(job[c])
  OBVIOUS
<1>2. IsScript(s, <<PathOf(job[c].signer)>>)
  BY <1>1, JobIs, ScriptIs
<1>3. PICK L \in Nat : L = Len(s)
  BY <1>2 DEF IsScript
<1>4. IsEndOf(script[c], job[c])
  BY DEF Inv, CallInv, RestIsOwn
<1>5. PICK l \in Nat : l = Len(script[c])
  BY <1>4 DEF IsEndOf
<1>6. l <= L /\ script[c][i] = s[L - l + i]
  BY <1>1, <1>3, <1>4, <1>5, Zenon DEF IsEndOf
<1>7. L - l + i \in 1 .. L
  BY <1>5, <1>6
<1>8. L - l + i = 1
  BY <1>2, <1>3, <1>6, <1>7, Zenon DEF IsScript
<1>9. l = L /\ i = 1
  BY <1>5, <1>6, <1>8
<1>. QED  BY <1>1, <1>3, <1>5, <1>9 DEF HasSent

\* Sending keeps the invariant: before its last command the call awaits none, and
\* after its first it sends no other path.
LEMMA AppendKeeps ==
  ASSUME Inv, NEW c \in Callers, pc[c] = "running", ~IsWaiting(c), script[c] # <<>>,
         flight' = flight \o Sent(c),
         script' = [script EXCEPT ![c] = SubSeq(@, NextAwaited(c) + 1, Len(@))],
         answer' = [answer EXCEPT ![c] = NoAnswer],
         UNCHANGED <<job, pc, result, pubKey, transport, device, mixed>>
  PROVE  Inv'
<1>1. PICK n \in Nat : n = NextAwaited(c)
  BY NextAwaitedIs
<1>2. PICK w \in Nat : w = Len(flight)
  BY FlightIs, Zenon DEF Inv
<1>3. PICK r : r = script[c]
  OBVIOUS
<1>4. PICK l \in Nat : l = Len(r) /\ n \in 1 .. l
  BY <1>1, <1>3, NextAwaitedIs
<1>5. PICK L \in Nat : L = Len(Script(job[c])) /\ l <= L
  BY <1>3, <1>4, NextAwaitedIs
<1>6. r[n].awaited /\ (\A m \in 1 .. n - 1 : ~r[m].awaited) /\ (~HasSent(c) => n = 1 /\ r[1].p1 = 0)
  BY <1>1, <1>3, NextAwaitedIs
<1>7. /\ flight' \in Seq([call : Callers, apdu : AllCommands]) /\ Len(flight') = w + n
      /\ \A k \in 1 .. w : flight'[k] = flight[k]
      /\ \A i \in 1 .. n : flight'[w + i] = [call |-> c, apdu |-> r[i]]
      /\ script'[c] \in Seq(Commands(job[c])) /\ Len(script'[c]) = l - n
      /\ \A i \in 1 .. l - n : script'[c][i] = r[n + i]
  <2>1. Appended(c)
    BY AppendedIs, Zenon
  <2>. QED  BY <1>1, <1>2, <1>3, <1>4, <2>1, Zenon DEF Appended
<1>8. DOMAIN flight = 1 .. w /\ DOMAIN flight' = 1 .. w + n
  BY <1>2, <1>7, FlightIs DEF Inv
<1>9. ASSUME NEW k \in 1 .. w + n
      PROVE  \/ k \in 1 .. w /\ flight'[k] = flight[k]
             \/ \E i \in 1 .. n : k = w + i /\ flight'[k].call = c /\ flight'[k].apdu = r[i]
  <2>1. CASE k \in 1 .. w
    BY <1>7, <2>1, Zenon
  <2>2. CASE k \notin 1 .. w
    <3>1. PICK i \in 1 .. n : k = w + i
      <4>1. k - w \in 1 .. n /\ k = w + (k - w)
        BY <2>2
      <4>. QED  BY <4>1
    <3>2. flight'[k] = [call |-> c, apdu |-> r[i]]
      BY <1>7, <3>1, Zenon
    <3>3. flight'[k].call = c /\ flight'[k].apdu = r[i]
      BY <3>2
    <3>. QED  BY <3>1, <3>3
  <2>. QED  BY <2>1, <2>2, Zenon
<1>10. ASSUME NEW d \in Callers \ {c}
       PROVE  (InFlight(d)' <=> InFlight(d)) /\ (FirstInFlight(d)' <=> FirstInFlight(d))
  <2>1. \A k \in 1 .. w : k \in 1 .. w + n
    OBVIOUS
  <2>2. \A k \in 1 .. w + n : flight'[k].call = d => k \in 1 .. w /\ flight'[k] = flight[k]
    BY <1>9, Zenon
  <2>. QED  BY <1>7, <1>8, <2>1, <2>2, Zenon DEF InFlight, FirstInFlight
<1>11. StepOf(c)
  <2>1. /\ script = [d \in Callers |-> script[d]] /\ answer = [d \in Callers |-> answer[d]]
        /\ result = [d \in Callers |-> result[d]] /\ pubKey = [s \in Signers |-> pubKey[s]]
        /\ pc \in [Callers -> {"ready", "running", "done"}]
    BY DEF Inv, Types
  <2>2. /\ script' = [d \in Callers |-> script'[d]] /\ answer' = [d \in Callers |-> answer'[d]]
        /\ \A d \in Callers \ {c} : script'[d] = script[d] /\ answer'[d] = answer[d]
    BY <2>1, Zenon
  <2>. QED  BY <1>7, <1>10, <2>1, <2>2, Zenon DEF StepOf
<1>12. CallInv(c)'
  <2>1. CallInv(c)
    BY DEF Inv
  <2>2. RestIsOwn(c)'
    <3>1. IsEndOf(r, job[c])
      BY <1>3, <2>1 DEF CallInv, RestIsOwn
    <3>2. PICK s : s = Script(job[c])
      OBVIOUS
    <3>3. PICK t : t = script'[c]
      BY Zenon
    <3>4. \A i \in 1 .. l : r[i] = s[L - l + i]
      BY <1>4, <1>5, <3>1, <3>2, Zenon DEF IsEndOf
    <3>5. ASSUME NEW i \in 1 .. l - n PROVE t[i] = s[L - (l - n) + i]
      <4>1. n + i \in 1 .. l /\ L - l + (n + i) = L - (l - n) + i
        BY <1>4
      <4>. QED  BY <1>7, <3>3, <3>4, <4>1, Zenon
    <3>6. t \in Seq(Commands(job[c])) /\ Len(t) = l - n
      BY <1>7, <3>3, Zenon
    <3>8. l - n <= L
      BY <1>4, <1>5
    <3>7. IsEndOf(t, job[c])
      BY <1>5, <3>2, <3>5, <3>6, <3>8 DEF IsEndOf
    <3>. QED  BY <3>3, <3>7 DEF RestIsOwn
  <2>3. AnswerIsOwn(c)'
    <3>1. answer'[c] = NoAnswer
      BY DEF Inv, Types
    <3>. QED  BY <3>1 DEF AnswerIsOwn
  <2>4. HasSent(c)'
    <3>1. l - n < L
      BY <1>4, <1>5
    <3>2. Len(script'[c]) = l - n
      BY <1>7, Zenon
    <3>. QED  BY <1>5, <3>1, <3>2, Zenon DEF HasSent
  <2>5. DeviceIsHeld(c)'
    <3>. SUFFICES ASSUME c \notin mixed, ~FirstInFlight(c)'
                 PROVE  device.ins = 0 \/ device.path = <<PathOf(job[c].signer)>>
      BY DEF DeviceIsHeld
    <3>1. HasSent(c)
      <4>. SUFFICES ASSUME ~HasSent(c) PROVE FALSE
        OBVIOUS
      <4>1. w + 1 \in 1 .. w + n /\ flight'[w + 1] = [call |-> c, apdu |-> r[1]] /\ r[1].p1 = 0
        BY <1>4, <1>6, <1>7
      <4>2. flight'[w + 1].call = c /\ flight'[w + 1].apdu.p1 = 0
        BY <4>1
      <4>. QED  BY <1>8, <4>1, <4>2, Zenon DEF FirstInFlight
    <3>2. ~FirstInFlight(c)
      <4>1. \A k \in 1 .. w : k \in 1 .. w + n
        OBVIOUS
      <4>. QED  BY <1>7, <1>8, <4>1 DEF FirstInFlight
    <3>. QED  BY <2>1, <3>1, <3>2 DEF CallInv, DeviceIsHeld
  <2>. QED  BY <2>1, <2>2, <2>3, <2>4, <2>5 DEF CallInv
<1>13. ASSUME NEW d \in Callers \ {c}, pc[d] = "running"
       PROVE  DeviceIsHeld(d)'
  <2>1. DeviceIsHeld(d)
    BY <1>13 DEF Inv, CallInv
  <2>2. script'[d] = script[d] /\ job' = job
    BY <1>11 DEF StepOf
  <2>3. HasSent(d)' <=> HasSent(d)
    BY <2>2 DEF HasSent
  <2>. QED  BY <1>10, <2>1, <2>2, <2>3 DEF DeviceIsHeld
<1>14. ASSUME NEW k \in DOMAIN flight'
       PROVE  FlightOf(k)'
  <2>1. CASE k \in 1 .. w
    <3>1. FlightOf(k) /\ flight'[k] = flight[k] /\ flight[k].call \in Callers
      BY <1>7, <1>8, <2>1, FlightIs, Zenon DEF Inv
    <3>2. /\ flight[k].apdu \in Commands(job[flight[k].call])
          /\ IsLedger(job[flight[k].call].signer)
          /\ flight[k].apdu.awaited => pc[flight[k].call] = "running"
      BY <3>1 DEF FlightOf
    <3>3. flight[k].call = c => ~flight[k].apdu.awaited /\ flight[k].apdu.p1 # 0
      <4>1. flight[k].call = c => ~flight[k].apdu.awaited
        BY <1>8, <2>1 DEF IsWaiting
      <4>. QED  BY <3>2, <4>1, JobIs, FirstIsAwaited
    <3>4. ASSUME NEW m \in 1 .. w + n, flight'[m].call = flight[k].call
          PROVE  /\ flight[k].apdu.p1 = 0 => m = k
                 /\ flight[k].apdu.awaited /\ flight'[m].apdu.awaited => m = k
      <4>1. CASE m \in 1 .. w
        BY <1>7, <1>8, <2>1, <3>1, <3>4, <4>1, Zenon DEF FlightOf
      <4>2. CASE m \notin 1 .. w
        <5>1. flight[k].call = c
          BY <1>9, <3>4, <4>2, Zenon
        <5>. QED  BY <3>3, <5>1
      <4>. QED  BY <4>1, <4>2, Zenon
    <3>5. transport # "unordered" /\ pc[flight[k].call] = "running" =>
            \E m \in 1 .. w + n : m >= k /\ flight'[m].call = flight[k].call /\ flight'[m].apdu.awaited
      <4>. SUFFICES ASSUME transport # "unordered", pc[flight[k].call] = "running"
                   PROVE  \E m \in 1 .. w + n : /\ m >= k /\ flight'[m].call = flight[k].call
                                               /\ flight'[m].apdu.awaited
        BY Zenon
      <4>1. PICK m \in 1 .. w : m >= k /\ flight[m].call = flight[k].call /\ flight[m].apdu.awaited
        BY <1>8, <3>1 DEF FlightOf
      <4>2. m \in 1 .. w + n /\ flight'[m] = flight[m]
        BY <1>7, <4>1
      <4>. QED  BY <4>1, <4>2, Zenon
    <3>. QED  BY <1>8, <3>1, <3>2, <3>4, <3>5, SMTT(30) DEF FlightOf
  <2>2. CASE k \notin 1 .. w
    <3>1. PICK i \in 1 .. n : k = w + i /\ flight'[k].call = c /\ flight'[k].apdu = r[i]
      BY <1>8, <1>9, <2>2
    <3>2. r[i] \in Commands(job[c]) /\ IsLedger(job[c].signer)
      <4>1. r \in Seq(Commands(job[c])) /\ i \in 1 .. Len(r)
        BY <1>3, <1>4, <3>1, NextAwaitedIs
      <4>2. IsLedger(job[c].signer)
        BY DEF Inv, CallInv
      <4>. QED  BY <4>1, <4>2
    <3>3. ASSUME NEW m \in 1 .. w + n, flight'[m].call = c
          PROVE  (r[i].p1 = 0 => m = k) /\ (r[i].awaited /\ flight'[m].apdu.awaited => m = k)
      <4>1. CASE m \in 1 .. w
        <5>1. flight[m].call = c /\ ~flight[m].apdu.awaited
          BY <1>7, <1>8, <3>3, <4>1, Zenon DEF IsWaiting
        <5>2. HasSent(c)
          BY <1>8, <4>1, <5>1 DEF Inv, CallInv, InFlight
        <5>3. r[i].p1 # 0
          BY <1>3, <1>4, <1>5, <3>1, <5>2, LaterIsNotFirst, SMTT(30)
        <5>. QED  BY <1>7, <4>1, <5>1, <5>3, Zenon
      <4>2. CASE m \notin 1 .. w
        <5>1. PICK h \in 1 .. n : m = w + h /\ flight'[m].apdu = r[h]
          BY <1>9, <4>2, Zenon
        <5>2. r[i].p1 = 0 => i = 1 /\ n = 1
          BY <1>3, <1>4, <1>6, <3>1, LaterIsNotFirst, SMTT(30)
        <5>3. r[i].awaited => i = n
          BY <1>6, <3>1
        <5>4. r[h].awaited => h = n
          BY <1>6, <5>1
        <5>5. r[i].p1 = 0 => h = i
          BY <5>2
        <5>6. r[i].awaited /\ flight'[m].apdu.awaited => h = i
          BY <5>1, <5>3, <5>4, Zenon
        <5>7. h = i => m = k
          BY <3>1, <5>1, Zenon
        <5>. QED  BY <5>5, <5>6, <5>7, Zenon
      <4>. QED  BY <4>1, <4>2, Zenon
    <3>4. w + n \in 1 .. w + n /\ w + n >= k /\ flight'[w + n].call = c /\ flight'[w + n].apdu.awaited
      <4>1. n \in 1 .. n
        BY <1>4
      <4>2. flight'[w + n] = [call |-> c, apdu |-> r[n]]
        BY <1>7, <4>1, Zenon
      <4>. QED  BY <1>4, <1>6, <3>1, <4>2
    <3>. QED  BY <1>8, <3>1, <3>2, <3>3, <3>4, Zenon DEF FlightOf
  <2>. QED  BY <2>1, <2>2
<1>15. DeviceInv' /\ pc'[c] = "running"
  BY DEF Inv, DeviceInv
<1>. QED  BY <1>11, <1>12, <1>13, <1>14, <1>15, StepKeeps

\* A call whose command the busy transport refuses has at most sent one that
\* nobody awaits.
LEMMA RefusedKeeps ==
  ASSUME Inv, NEW c \in Callers, pc[c] = "running", ~IsWaiting(c), script[c] # <<>>,
         ~(flight = <<>> /\ NextAwaited(c) = 1),
         flight' = IF flight = <<>> THEN <<Sent(c)[1]>> ELSE flight,
         mixed \subseteq mixed', End(c, Failed),
         answer' = [answer EXCEPT ![c] = NoAnswer], UNCHANGED <<job, pubKey, transport, device>>
  PROVE  Inv'
<1>1. Types
  BY DEF Inv
<1>2. /\ pc' \in [Callers -> {"ready", "running", "done"}]
      /\ script' = [d \in Callers |-> script'[d]] /\ result' = [d \in Callers |-> result'[d]]
      /\ \A d \in Callers \ {c} : pc'[d] = pc[d] /\ script'[d] = script[d] /\ result'[d] = result[d]
      /\ pc'[c] = "done" /\ script'[c] = <<>> /\ result'[c] = Failed
  BY <1>1, EndIs
<1>3. /\ answer' = [d \in Callers |-> answer'[d]] /\ pubKey' = [s \in Signers |-> pubKey'[s]]
      /\ \A d \in Callers \ {c} : answer'[d] = answer[d]
  BY <1>1, Zenon DEF Types
<1>4. PICK Sendable : Sendable = [call : Callers, apdu : AllCommands]
  BY Zenon
<1>5. PICK e : e = Sent(c)[1]
  OBVIOUS
<1>6. PICK r : r = script[c]
  OBVIOUS
<1>7. /\ e \in Sendable /\ e.call = c /\ e.apdu = r[1] /\ r[1] \in Commands(job[c])
      /\ IsLedger(job[c].signer) /\ (NextAwaited(c) # 1 => ~r[1].awaited)
  <2>1. PICK n \in Nat : n = NextAwaited(c)
    BY NextAwaitedIs
  <2>2. /\ r \in Seq(Commands(job[c])) /\ n \in 1 .. Len(r)
        /\ \A m \in 1 .. n - 1 : ~r[m].awaited
    BY <1>6, <2>1, NextAwaitedIs
  <2>3. PICK t : t = Sent(c)
    OBVIOUS
  <2>4. t \in Seq(Sendable) /\ Len(t) = n /\ \A i \in 1 .. n : t[i] = [call |-> c, apdu |-> r[i]]
    BY <1>4, <1>6, <2>1, <2>3, SentIs, Zenon
  <2>5. 1 \in 1 .. n /\ 1 \in 1 .. Len(r) /\ (n # 1 => 1 \in 1 .. n - 1)
    BY <2>2
  <2>6. e \in Sendable
    BY <1>5, <2>3, <2>4, <2>5
  <2>7. e = [call |-> c, apdu |-> r[1]]
    BY <1>5, <2>3, <2>4, <2>5
  <2>8. IsLedger(job[c].signer)
    BY DEF Inv, CallInv
  <2>. QED  BY <2>1, <2>2, <2>5, <2>6, <2>7, <2>8
<1>8. \/ flight' = flight
      \/ flight = <<>> /\ flight' = <<e>> /\ ~r[1].awaited
  BY <1>5, <1>7
<1>9. flight' \in Seq(Sendable)
  <2>1. flight \in Seq(Sendable)
    BY <1>1, <1>4 DEF Types
  <2>2. <<e>> \in Seq(Sendable)
    BY <1>7
  <2>. QED  BY <1>8, <2>1, <2>2
<1>10. ASSUME NEW d \in Callers \ {c}
       PROVE  (InFlight(d)' <=> InFlight(d)) /\ (FirstInFlight(d)' <=> FirstInFlight(d))
  <2>1. CASE flight' = flight
    BY <2>1 DEF InFlight, FirstInFlight
  <2>2. CASE flight = <<>> /\ flight' = <<e>>
    <3>1. DOMAIN flight = {} /\ DOMAIN flight' = {1} /\ flight'[1].call # d
      BY <1>7, <2>2
    <3>. QED  BY <3>1 DEF InFlight, FirstInFlight
  <2>. QED  BY <1>8, <2>1, <2>2
<1>11. StepOf(c)
  BY <1>2, <1>3, <1>4, <1>9, <1>10 DEF StepOf
<1>12. CallInv(c)'
  BY <1>2 DEF CallInv
<1>13. ASSUME NEW d \in Callers \ {c}, pc[d] = "running"
       PROVE  DeviceIsHeld(d)'
  <2>1. DeviceIsHeld(d)
    BY <1>13 DEF Inv, CallInv
  <2>2. script'[d] = script[d] /\ job' = job /\ (HasSent(d)' <=> HasSent(d))
    BY <1>2 DEF HasSent
  <2>. QED  BY <1>10, <2>1, <2>2 DEF DeviceIsHeld
<1>14. ASSUME NEW k \in DOMAIN flight'
       PROVE  FlightOf(k)'
  <2>1. CASE flight' = flight
    <3>1. FlightOf(k) /\ flight[k].call \in Callers
      BY <1>1, <2>1, FlightIs DEF Inv
    <3>2. flight[k].apdu.awaited => flight[k].call # c
      BY <2>1 DEF IsWaiting
    <3>3. flight[k].apdu.awaited => pc'[flight[k].call] = "running"
      BY <1>2, <3>1, <3>2 DEF FlightOf
    <3>4. pc'[flight[k].call] = "running" => pc[flight[k].call] = "running"
      BY <1>2, <3>1
    <3>. QED  BY <2>1, <3>1, <3>3, <3>4 DEF FlightOf
  <2>2. CASE flight' = <<e>> /\ ~r[1].awaited
    <3>1. DOMAIN flight' = {1} /\ flight'[1].call = c /\ flight'[1].apdu = r[1]
      BY <1>7, <2>2
    <3>. QED  BY <1>2, <1>7, <2>2, <3>1 DEF FlightOf
  <2>. QED  BY <1>8, <2>1, <2>2
<1>15. DeviceInv'
  BY DEF Inv, DeviceInv
<1>16. Fits(c, result[c])'
  BY <1>2 DEF Fits, Failed
<1>. QED  BY <1>11, <1>12, <1>13, <1>14, <1>15, <1>16, StepKeeps

\* What an idle transport takes of a call is sent as on any other.
LEMMA SentAlone ==
  ASSUME Inv, NEW c \in Callers, pc[c] = "running", script[c] # <<>>, flight = <<>>,
         NextAwaited(c) = 1, flight' = Sent(c), script' = [script EXCEPT ![c] = Tail(@)]
  PROVE  /\ flight' = flight \o Sent(c)
         /\ script' = [script EXCEPT ![c] = SubSeq(@, NextAwaited(c) + 1, Len(@))]
<1>1. flight' = flight \o Sent(c)
  <2>1. PICK S : S = [call : Callers, apdu : AllCommands]
    BY Zenon
  <2>2. PICK t : t = Sent(c)
    OBVIOUS
  <2>3. t \in Seq(S)
    BY <2>1, <2>2, SentIs, Zenon
  <2>4. <<>> \o t = t
    BY <2>3
  <2>. QED  BY <2>2, <2>4
<1>2. Tail(script[c]) = SubSeq(script[c], NextAwaited(c) + 1, Len(script[c]))
  <2>1. PICK r : r = script[c]
    OBVIOUS
  <2>2. r \in Seq(Commands(job[c])) /\ r # <<>>
    BY <2>1, NextAwaitedIs
  <2>3. Tail(r) = SubSeq(r, 2, Len(r))
    BY <2>2
  <2>. QED  BY <2>1, <2>3
<1>3. script' = [script EXCEPT ![c] = SubSeq(@, NextAwaited(c) + 1, Len(@))]
  BY <1>2, Zenon
<1>. QED  BY <1>1, <1>3, Zenon

\* Whatever the transport, what a call sends keeps the invariant.
LEMMA SendKeeps ==
  ASSUME Inv, NEW c \in Callers, Send(c)
  PROVE  Inv'
<1>1. /\ pc[c] = "running" /\ ~IsWaiting(c) /\ script[c] # <<>>
      /\ answer' = [answer EXCEPT ![c] = NoAnswer]
      /\ UNCHANGED <<job, pubKey, transport, device>>
  BY DEF Send
<1>2. CASE transport # "refusing"
  <2>1. /\ flight' = flight \o Sent(c)
        /\ script' = [script EXCEPT ![c] = SubSeq(@, NextAwaited(c) + 1, Len(@))]
        /\ UNCHANGED <<pc, result, mixed>>
    BY <1>2 DEF Send
  <2>. QED  BY <1>1, <2>1, AppendKeeps, Zenon
<1>3. CASE transport = "refusing" /\ flight = <<>> /\ NextAwaited(c) = 1
  <2>1. /\ flight' = Sent(c) /\ script' = [script EXCEPT ![c] = Tail(@)]
        /\ UNCHANGED <<pc, result, mixed>>
    BY <1>3 DEF Send
  <2>2. /\ flight' = flight \o Sent(c)
        /\ script' = [script EXCEPT ![c] = SubSeq(@, NextAwaited(c) + 1, Len(@))]
    BY <1>1, <1>3, <2>1, SentAlone, Zenon
  <2>. QED  BY <1>1, <2>1, <2>2, AppendKeeps, Zenon
<1>4. CASE transport = "refusing" /\ ~(flight = <<>> /\ NextAwaited(c) = 1)
  <2>1. /\ flight' = IF flight = <<>> THEN <<Sent(c)[1]>> ELSE flight
        /\ mixed' = IF \E i \in DOMAIN flight : flight[i].call # c
                    THEN mixed \union {c} ELSE mixed
        /\ End(c, Failed)
    BY <1>4 DEF Send
  <2>2. mixed \subseteq mixed'
    BY <2>1
  <2>. QED  BY <1>1, <1>4, <2>1, <2>2, RefusedKeeps, Zenon
<1>. QED  BY <1>2, <1>3, <1>4

------------------------------------------------------------------------------
(* Commands the device processes.                                           *)

\* What a command of a call can be.
LEMMA CommandIs ==
  ASSUME NEW j \in Jobs, NEW a \in Commands(j)
  PROVE  /\ a.ins \in 1 .. 6 /\ (a.p1 = 0 => a.data = <<PathOf(j.signer)>> /\ a.awaited)
         /\ j.op = "pubKey" => a.ins = 1
         /\ a.ins = 1 => j.op = "pubKey" /\ a.p1 = 0
         /\ j.op # "pubKey" /\ ~IsShown(j) => a.ins = 2 /\ (a.p1 # 0 => a.data = <<msgHash(j)>>)
<1>1. PICK s : s = Script(j)
  OBVIOUS
<1>2. /\ IsScript(s, <<PathOf(j.signer)>>)
      /\ j.op = "pubKey" => Len(s) = 1 /\ s[1].ins = 1
      /\ j.op # "pubKey" => \A n \in 1 .. Len(s) : s[n].ins \in 2 .. 6
      /\ j.op # "pubKey" /\ ~IsShown(j) =>
           Len(s) = 2 /\ (\A n \in 1 .. 2 : s[n].ins = 2) /\ s[2].data = <<msgHash(j)>>
  BY <1>1, ScriptIs
<1>3. PICK L \in Nat : L = Len(s)
  BY <1>2 DEF IsScript
<1>4. PICK n \in 1 .. L : a = s[n]
  BY <1>1, <1>3 DEF Commands
<1>5. /\ a.ins \in 1 .. 6 /\ (n # 1 => a.p1 # 0)
      /\ n = 1 => a.p1 = 0 /\ a.data = <<PathOf(j.signer)>> /\ a.awaited
  BY <1>2, <1>3, <1>4 DEF IsScript
<1>6. j.op = "pubKey" => n = 1 /\ a.ins = 1
  BY <1>2, <1>3, <1>4
<1>7. j.op # "pubKey" => a.ins \in 2 .. 6
  BY <1>2, <1>3, <1>4
<1>8. j.op # "pubKey" /\ ~IsShown(j) => a.ins = 2 /\ (n # 1 => n = 2 /\ a.data = <<msgHash(j)>>)
  BY <1>2, <1>3, <1>4
<1>. QED  BY <1>5, <1>6, <1>7, <1>8

IsDevice(dev) ==
  /\ DOMAIN dev = {"ins", "path", "head", "parts", "open", "closed"}
  /\ dev = [f \in DOMAIN dev |-> dev[f]]

\* The device new is dev after the command a.
HasTaken(dev, a, new) ==
  /\ IsDevice(new)
  /\ a.p1 = 0 => new.ins = a.ins /\ new.path = a.data /\ new.head = <<>>
  /\ a.p1 # 0 => new.ins = dev.ins /\ new.path = dev.path
  /\ a.p1 # 0 /\ a.ins = 2 => new.head = Append(dev.head, a.data)

\* A path starts anew; any other command keeps the path, and signRaw's adds its hash.
LEMMA CollectIs ==
  ASSUME NEW dev, IsDevice(dev), NEW a, NEW new, new = Collect(dev, a)
  PROVE  HasTaken(dev, a, new)
<1>. USE DEF HasTaken
<1>1. new = Collect(dev, a)
  OBVIOUS
<1>2. CASE a.p1 = 0
  <2>1. new = [Idle EXCEPT !.ins = a.ins, !.path = a.data]
    BY <1>1, <1>2 DEF Collect
  <2>2. IsDevice(new) /\ new.ins = a.ins /\ new.path = a.data /\ new.head = <<>>
    BY <2>1, Zenon DEF Idle, IsDevice
  <2>. QED  BY <1>1, <1>2, <2>2
<1>3. CASE a.p1 # 0
  <2>1. CASE a.ins = 2 \/ a.p1 <= HeadLen(a.ins)
    <3>1. new = [dev EXCEPT !.head = Append(@, a.data)]
      BY <1>1, <1>3, <2>1 DEF Collect
    <3>2. /\ IsDevice(new) /\ new.ins = dev.ins /\ new.path = dev.path
          /\ new.head = Append(dev.head, a.data)
      BY <3>1, Zenon DEF IsDevice
    <3>. QED  BY <1>1, <1>3, <3>2
  <2>2. CASE ~(a.ins = 2 \/ a.p1 <= HeadLen(a.ins))
    <3>1. \/ new = [dev EXCEPT !.parts = Append(@, a.data), !.open = TRUE]
          \/ new = [dev EXCEPT !.parts[Len(dev.parts)] = @ \o a.data]
          \/ new = [dev EXCEPT !.open = FALSE, !.closed = @ + 1]
          \/ new = [dev EXCEPT !.parts = Append(@, a.data)]
      BY <1>1, <1>3, <2>2 DEF Collect
    <3>2. IsDevice(new) /\ new.ins = dev.ins /\ new.path = dev.path
      BY <3>1, Zenon DEF IsDevice
    <3>. QED  BY <1>1, <1>3, <2>2, <3>2
  <2>. QED  BY <2>1, <2>2
<1>. QED  BY <1>2, <1>3

\* Where the command k has been before the command i was taken out.
Before(k, i) == IF k < i THEN k ELSE k + 1

\* What is in flight once the device has taken a command out of it.
LEMMA TakenOut ==
  ASSUME Types, NEW i \in DOMAIN flight, flight' = RemoveAt(flight, i)
  PROVE  /\ flight' \in Seq([call : Callers, apdu : AllCommands])
         /\ \A k \in DOMAIN flight' : /\ Before(k, i) \in DOMAIN flight \ {i}
                                     /\ flight'[k] = flight[Before(k, i)]
         /\ \A l \in DOMAIN flight \ {i} : \E k \in DOMAIN flight' : Before(k, i) = l
<1>1. PICK Sendable : Sendable = [call : Callers, apdu : AllCommands]
  BY Zenon
<1>2. flight \in Seq(Sendable)
  BY <1>1 DEF Types
<1>3. PICK w \in Nat : w = Len(flight)
  BY <1>2
<1>4. i \in 1 .. w /\ DOMAIN flight = 1 .. w
  BY <1>2, <1>3
<1>5. /\ flight' \in Seq(Sendable) /\ Len(flight') = w - 1
      /\ \A k \in 1 .. w - 1 : flight'[k] = flight[IF k < i THEN k ELSE k + 1]
  <2>1. IsWithout(RemoveAt(flight, i), flight, i, w, Sendable)
    BY <1>2, <1>3, <1>4, RemovedAt
  <2>. QED  BY <2>1 DEF IsWithout
<1>6. DOMAIN flight' = 1 .. w - 1
  BY <1>5
<1>7. \A k \in 1 .. w - 1 : Before(k, i) \in (1 .. w) \ {i}
  BY <1>4 DEF Before
<1>8. ASSUME NEW l \in (1 .. w) \ {i}
      PROVE  \E k \in 1 .. w - 1 : Before(k, i) = l
  <2>1. CASE l < i
    <3>1. l \in 1 .. w - 1 /\ Before(l, i) = l
      BY <1>4, <2>1 DEF Before
    <3>. QED  BY <3>1
  <2>2. CASE ~(l < i)
    <3>1. l - 1 \in 1 .. w - 1 /\ Before(l - 1, i) = l
      BY <1>4, <2>2 DEF Before
    <3>. QED  BY <3>1
  <2>. QED  BY <2>1, <2>2
<1>. QED  BY <1>1, <1>4, <1>5, <1>6, <1>7, <1>8, Zenon DEF Before

\* The device answers the call whose command it took, about the path it holds.
LEMMA ProcessKeeps ==
  ASSUME Inv, NEW i \in DOMAIN flight, Process(i)
  PROVE  Inv'
<1>. PICK c : c = flight[i].call
  OBVIOUS
<1>. PICK cmd : cmd = flight[i].apdu
  OBVIOUS
<1>. PICK new : new = Collect(device, cmd)
  OBVIOUS
<1>1. /\ c \in Callers /\ FlightOf(i) /\ Types /\ CallInv(c) /\ job[c] \in Jobs
      /\ job[c].signer \in Signers
  BY FlightIs, JobIs DEF Inv
<1>2. /\ cmd \in Commands(job[c]) /\ IsLedger(job[c].signer) /\ InFlight(c)
      /\ cmd.awaited => pc[c] = "running"
      /\ pc[c] \in {"running", "done"}
  <2>1. InFlight(c)
    BY DEF InFlight
  <2>2. pc[c] # "ready" /\ pc[c] \in {"ready", "running", "done"}
    BY <1>1, <2>1 DEF CallInv, Types
  <2>. QED  BY <1>1, <2>1, <2>2 DEF FlightOf
<1>3. /\ transport # "unordered" => i = 1
      /\ flight' = RemoveAt(flight, i) /\ mixed' = mixed \union MixedBy(i)
      /\ job' = job /\ transport' = transport
  BY DEF Process
<1>4. \/ /\ cmd.awaited /\ End(c, Failed) /\ device' = Idle /\ answer' = answer /\ pubKey' = pubKey
      \/ /\ device' = Idle /\ answer' = answer /\ pubKey' = pubKey
         /\ pc' = pc /\ script' = script /\ result' = result
      \/ /\ Accepts(device, cmd) /\ cmd.ins = 1 /\ device' = Idle /\ answer' = answer
         /\ pubKey' = [pubKey EXCEPT ![job[c].signer] = DeviceKey(new)]
         /\ End(c, Returns(Unset, DeviceKey(new)))
      \/ /\ Accepts(device, cmd) /\ ~IsComplete(new) /\ device' = new
         /\ answer' = answer /\ pubKey' = pubKey
         /\ pc' = pc /\ script' = script /\ result' = result
      \/ /\ Accepts(device, cmd) /\ cmd.ins # 1 /\ IsComplete(new) /\ device' = Idle /\ pubKey' = pubKey
         /\ answer' = [answer EXCEPT ![c] = [hash |-> DeviceHash(new), key |-> DeviceKey(new)]]
         /\ pc' = pc /\ script' = script /\ result' = result
  BY DEF Process
<1>5. /\ cmd.ins \in 1 .. 6
      /\ cmd.p1 = 0 => cmd.data = <<PathOf(job[c].signer)>> /\ cmd.awaited
      /\ job[c].op = "pubKey" => cmd.ins = 1
      /\ cmd.ins = 1 => job[c].op = "pubKey" /\ cmd.p1 = 0
      /\ job[c].op # "pubKey" /\ ~IsShown(job[c]) =>
           cmd.ins = 2 /\ (cmd.p1 # 0 => cmd.data = <<msgHash(job[c])>>)
  BY <1>1, <1>2, CommandIs
<1>6. /\ IsDevice(new)
      /\ cmd.p1 = 0 => new.ins = cmd.ins /\ new.path = cmd.data /\ new.head = <<>>
      /\ cmd.p1 # 0 => new.ins = device.ins /\ new.path = device.path
      /\ cmd.p1 # 0 /\ cmd.ins = 2 => new.head = Append(device.head, cmd.data)
  <2>1. IsDevice(device)
    BY DEF Inv, DeviceInv, IsDevice
  <2>2. HasTaken(device, cmd, new)
    BY <2>1, CollectIs
  <2>. QED  BY <2>2 DEF HasTaken
<1>7. /\ flight' \in Seq([call : Callers, apdu : AllCommands])
      /\ \A k \in DOMAIN flight' : /\ Before(k, i) \in DOMAIN flight \ {i}
                                  /\ flight'[k] = flight[Before(k, i)]
      /\ \A l \in DOMAIN flight \ {i} : \E k \in DOMAIN flight' : Before(k, i) = l
  BY <1>1, <1>3, TakenOut, Zenon
<1>8. ASSUME NEW d \in Callers \ {c}
      PROVE  (InFlight(d)' <=> InFlight(d)) /\ (FirstInFlight(d)' <=> FirstInFlight(d))
  BY <1>7 DEF InFlight, FirstInFlight
<1>9. /\ InFlight(c)' => InFlight(c)
      /\ cmd.p1 = 0 => ~InFlight(c)'
      /\ cmd.p1 # 0 => ~FirstInFlight(c)
  <2>1. InFlight(c)' => \E l \in DOMAIN flight \ {i} : flight[l].call = c
    BY <1>7 DEF InFlight
  <2>2. cmd.p1 = 0 => \A l \in DOMAIN flight : flight[l].call = c => l = i
    BY <1>1 DEF FlightOf
  <2>3. ASSUME NEW k \in DOMAIN flight, flight[k].call = c, flight[k].apdu.p1 = 0
        PROVE  k = i
    <3>1. FlightOf(k)
      BY DEF Inv
    <3>. QED  BY <2>3, <3>1 DEF FlightOf
  <2>4. cmd.p1 # 0 => ~FirstInFlight(c)
    BY <2>3 DEF FirstInFlight
  <2>. QED  BY <1>2, <2>1, <2>2, <2>4
\* The device has the path of the signer whose command it takes.
<1>10. Accepts(device, cmd) /\ (cmd.p1 = 0 \/ (pc[c] = "running" /\ c \notin mixed)) =>
         new.path = <<PathOf(job[c].signer)>>
  <2>1. CASE cmd.p1 = 0
    BY <1>5, <1>6, <2>1
  <2>2. CASE cmd.p1 # 0 /\ Accepts(device, cmd) /\ pc[c] = "running" /\ c \notin mixed
    <3>1. HasSent(c) /\ DeviceIsHeld(c)
      BY <1>1, <1>2, <2>2 DEF CallInv
    <3>2. device.ins = 0 \/ device.path = <<PathOf(job[c].signer)>>
      BY <1>2, <1>9, <2>2, <3>1 DEF DeviceIsHeld
    <3>3. device.ins = cmd.ins /\ device.ins # 0
      BY <1>5, <2>2 DEF Accepts
    <3>. QED  BY <1>6, <2>2, <3>2, <3>3
  <2>. QED  BY <2>1, <2>2
<1>11. DeviceKey(new) = <<"path", new.path[1]>> /\ KeyOf(job[c].signer) = <<"path", PathOf(job[c].signer)>>
  BY <1>2 DEF DeviceKey, KeyOf
<1>12. /\ pc' \in [Callers -> {"ready", "running", "done"}]
       /\ script' = [d \in Callers |-> script'[d]] /\ result' = [d \in Callers |-> result'[d]]
       /\ answer' = [d \in Callers |-> answer'[d]] /\ pubKey' = [t \in Signers |-> pubKey'[t]]
       /\ \A d \in Callers \ {c} : /\ pc'[d] = pc[d] /\ script'[d] = script[d]
                                  /\ result'[d] = result[d] /\ answer'[d] = answer[d]
       /\ \/ pc'[c] = "done" /\ cmd.awaited
          \/ pc'[c] = pc[c] /\ script'[c] = script[c] /\ result'[c] = result[c]
  <2>1. /\ pc \in [Callers -> {"ready", "running", "done"}]
        /\ script = [d \in Callers |-> script[d]] /\ result = [d \in Callers |-> result[d]]
        /\ answer = [d \in Callers |-> answer[d]] /\ pubKey = [t \in Signers |-> pubKey[t]]
    BY <1>1 DEF Types
  <2>2. /\ answer' = [d \in Callers |-> answer'[d]] /\ pubKey' = [t \in Signers |-> pubKey'[t]]
        /\ \A d \in Callers \ {c} : answer'[d] = answer[d]
    BY <1>4, <2>1
  <2>3. CASE pc' = pc /\ script' = script /\ result' = result
    BY <2>1, <2>2, <2>3
  <2>4. CASE cmd.awaited /\ \E r : End(c, r)
    BY <1>1, <2>2, <2>4, EndIs
  <2>. QED  BY <1>4, <1>5, <2>3, <2>4
<1>13. mixed \subseteq mixed'
  BY <1>3
<1>14. StepOf(c)
  BY <1>3, <1>7, <1>8, <1>12, <1>13 DEF StepOf
<1>15. ASSUME Accepts(device, cmd), cmd.ins # 1, IsComplete(new), pc[c] = "running",
              answer'[c] = [hash |-> DeviceHash(new), key |-> DeviceKey(new)]
       PROVE  AnswerIsOwn(c)'
  <2>1. answer'[c].hash = DeviceHash(new) /\ answer'[c].key = DeviceKey(new)
    BY <1>15
  <2>2. job[c].op # "pubKey"
    BY <1>5, <1>15
  <2>3. ~IsShown(job[c]) => DeviceHash(new) = msgHash(job[c])
    <3>. SUFFICES ASSUME ~IsShown(job[c]) PROVE DeviceHash(new) = msgHash(job[c])
      OBVIOUS
    <3>1. cmd.ins = 2 /\ (cmd.p1 # 0 => cmd.data = <<msgHash(job[c])>>)
      BY <1>5, <2>2
    <3>2. new.ins = 2
      BY <1>6, <1>15, <3>1 DEF Accepts
    <3>3. new.head # <<>>
      BY <1>15, <3>2 DEF IsComplete, TakesCalls
    <3>4. cmd.p1 # 0
      BY <1>6, <3>3
    <3>5. device.ins = 2
      BY <1>15, <3>1, <3>4 DEF Accepts
    <3>6. device.head = <<>>
      BY <3>5 DEF Inv, DeviceInv
    <3>7. new.head = <<cmd.data>>
      BY <1>6, <3>1, <3>4, <3>6
    <3>8. DeviceHash(new) = new.head[1][1]
      BY <3>2 DEF DeviceHash
    <3>. QED  BY <3>1, <3>4, <3>7, <3>8
  <2>4. c \notin mixed' => DeviceKey(new) = KeyOf(job[c].signer)
    BY <1>10, <1>11, <1>13, <1>15
  <2>. QED  BY <1>3, <2>1, <2>2, <2>3, <2>4 DEF AnswerIsOwn
<1>16. CallInv(c)'
  <2>1. CASE pc'[c] = "done"
    BY <2>1 DEF CallInv
  <2>2. CASE pc'[c] # "done"
    <3>1. pc[c] = "running" /\ pc'[c] = "running" /\ script'[c] = script[c]
      BY <1>2, <1>12, <2>2
    <3>2. IsSupported(job[c]) /\ RestIsOwn(c) /\ AnswerIsOwn(c) /\ DeviceIsHeld(c) /\ HasSent(c)
      BY <1>1, <1>2, <3>1 DEF CallInv
    <3>3. RestIsOwn(c)' /\ HasSent(c)'
      BY <1>3, <3>1, <3>2 DEF RestIsOwn, HasSent
    <3>4. AnswerIsOwn(c)'
      <4>1. CASE answer' = answer
        BY <1>3, <1>13, <3>2, <4>1 DEF AnswerIsOwn
      <4>2. CASE answer' # answer
        <5>1. /\ Accepts(device, cmd) /\ cmd.ins # 1 /\ IsComplete(new)
              /\ answer' = [answer EXCEPT ![c] = [hash |-> DeviceHash(new), key |-> DeviceKey(new)]]
          BY <1>4, <4>2
        <5>2. answer = [d \in Callers |-> answer[d]]
          BY <1>1 DEF Types
        <5>3. answer'[c] = [hash |-> DeviceHash(new), key |-> DeviceKey(new)]
          BY <1>1, <5>1, <5>2
        <5>. QED  BY <1>15, <3>1, <5>1, <5>3
      <4>. QED  BY <4>1, <4>2
    <3>5. DeviceIsHeld(c)'
      <4>1. CASE device' = Idle
        BY <4>1 DEF DeviceIsHeld, Idle
      <4>2. CASE Accepts(device, cmd) /\ device' = new
        BY <1>3, <1>10, <1>13, <3>1, <4>2 DEF DeviceIsHeld
      <4>. QED  BY <1>4, <4>1, <4>2
    <3>. QED  BY <1>2, <1>3, <3>1, <3>2, <3>3, <3>4, <3>5 DEF CallInv
  <2>. QED  BY <2>1, <2>2
\* Whoever else is in the middle of his commands has met this one.
<1>17. ASSUME NEW d \in Callers \ {c}, pc[d] = "running"
       PROVE  DeviceIsHeld(d)'
  <2>. SUFFICES ASSUME d \notin mixed', HasSent(d)', script'[d] # <<>> \/ InFlight(d)'
                PROVE  FALSE
    BY DEF DeviceIsHeld
  <2>1. script[d] # <<>> \/ InFlight(d)
    BY <1>8, <1>12
  <2>2. Len(script[d]) < Len(Script(job[d]))
    BY <1>3, <1>12 DEF HasSent
  <2>3. d \in MixedBy(i)
    BY <1>17, <2>1, <2>2 DEF MixedBy, InFlight
  <2>. QED  BY <1>3, <2>3
<1>18. ASSUME NEW k \in DOMAIN flight'
       PROVE  FlightOf(k)'
  <2>. PICK l : l = Before(k, i)
    OBVIOUS
  <2>1. l \in DOMAIN flight \ {i} /\ flight'[k] = flight[l]
    BY <1>7
  <2>2. FlightOf(l) /\ flight[l].call \in Callers
    BY <1>1, <2>1, FlightIs DEF Inv
  <2>3. /\ flight[l].apdu \in Commands(job[flight[l].call]) /\ IsLedger(job[flight[l].call].signer)
        /\ flight[l].apdu.awaited => pc[flight[l].call] = "running"
    BY <2>2 DEF FlightOf
  <2>4. flight[l].apdu.awaited => pc'[flight[l].call] = "running"
    <3>1. flight[l].call = c /\ flight[l].apdu.awaited => ~cmd.awaited
      BY <1>1, <2>1 DEF FlightOf
    <3>. QED  BY <1>12, <2>2, <2>3, <3>1
  <2>5. ASSUME NEW m \in DOMAIN flight', flight'[m].call = flight[l].call
        PROVE  /\ flight[l].apdu.p1 = 0 => m = k
               /\ flight[l].apdu.awaited /\ flight'[m].apdu.awaited => m = k
    <3>. PICK o : o = Before(m, i)
      OBVIOUS
    <3>1. o \in DOMAIN flight /\ flight'[m] = flight[o]
      BY <1>7
    <3>2. /\ flight[l].apdu.p1 = 0 => o = l
          /\ flight[l].apdu.awaited /\ flight[o].apdu.awaited => o = l
      BY <2>2, <2>5, <3>1 DEF FlightOf
    <3>3. o = l => m = k
      <4>1. k \in Nat /\ m \in Nat /\ i \in Nat
        BY <1>1, <1>7, FlightIs
      <4>. QED  BY <4>1 DEF Before
    <3>. QED  BY <3>1, <3>2, <3>3
  <2>6. ASSUME transport # "unordered", pc'[flight[l].call] = "running"
        PROVE  \E m \in DOMAIN flight' : /\ m >= k /\ flight'[m].call = flight[l].call
                                        /\ flight'[m].apdu.awaited
    <3>1. pc[flight[l].call] = "running" /\ i = 1
      BY <1>3, <1>12, <2>2, <2>6
    <3>2. PICK o \in DOMAIN flight : o >= l /\ flight[o].call = flight[l].call /\ flight[o].apdu.awaited
      BY <2>2, <2>6, <3>1 DEF FlightOf
    <3>3. k \in Nat \ {0} /\ o \in Nat \ {0}
      BY <1>1, <1>7, FlightIs
    <3>4. l = k + 1
      BY <3>1, <3>3 DEF Before
    <3>5. PICK m \in DOMAIN flight' : Before(m, i) = o
      <4>1. o # i
        BY <3>1, <3>2, <3>3, <3>4
      <4>. QED  BY <1>7, <4>1
    <3>6. m \in Nat \ {0}
      BY <1>7
    <3>7. o = m + 1 /\ m >= k
      BY <3>1, <3>2, <3>3, <3>4, <3>5, <3>6 DEF Before
    <3>8. flight'[m] = flight[o]
      BY <1>7, <3>5
    <3>. QED  BY <3>2, <3>7, <3>8
  <2>. QED  BY <1>3, <2>1, <2>3, <2>4, <2>5, <2>6 DEF FlightOf
<1>19. DeviceInv'
  <2>1. ASSUME NEW t \in Signers PROVE pubKey'[t] \in {Unset, KeyOf(t)}
    <3>1. pubKey[t] \in {Unset, KeyOf(t)} /\ pubKey = [u \in Signers |-> pubKey[u]]
      BY <1>1 DEF Inv, DeviceInv, Types
    <3>2. CASE pubKey' = pubKey
      BY <3>1, <3>2
    <3>3. CASE /\ Accepts(device, cmd) /\ cmd.ins = 1
               /\ pubKey' = [pubKey EXCEPT ![job[c].signer] = DeviceKey(new)]
      <4>1. DeviceKey(new) = KeyOf(job[c].signer)
        BY <1>5, <1>10, <1>11, <3>3
      <4>. QED  BY <1>1, <3>1, <3>3, <4>1
    <3>. QED  BY <1>4, <3>2, <3>3
  <2>2. IsDevice(device') /\ (device'.ins = 2 => device'.head = <<>>)
    <3>1. CASE device' = Idle
      BY <3>1 DEF Idle, IsDevice
    <3>2. CASE device' = new /\ ~IsComplete(new)
      BY <1>6, <3>2 DEF IsComplete, TakesCalls
    <3>. QED  BY <1>4, <3>1, <3>2
  <2>. QED  BY <2>1, <2>2 DEF DeviceInv, IsDevice
<1>20. ASSUME pc'[c] = "done"
       PROVE  Fits(c, result[c])'
  <2>1. CASE End(c, Failed)
    <3>1. result'[c] = Failed
      BY <1>1, <2>1, EndIs
    <3>. QED  BY <3>1 DEF Fits, Failed
  <2>2. CASE pc' = pc /\ result' = result
    <3>1. Fits(c, result[c])
      BY <1>1, <1>20, <2>2 DEF Inv, Results
    <3>. QED  BY <1>3, <1>9, <1>13, <2>2, <3>1 DEF Fits
  <2>3. CASE Accepts(device, cmd) /\ cmd.ins = 1 /\ End(c, Returns(Unset, DeviceKey(new)))
    <3>1. result'[c] = Returns(Unset, DeviceKey(new))
      BY <1>1, <2>3, EndIs
    <3>2. DeviceKey(new) = KeyOf(job[c].signer) /\ job[c].op = "pubKey" /\ ~InFlight(c)'
      BY <1>5, <1>9, <1>10, <1>11, <2>3
    <3>. QED  BY <1>3, <3>1, <3>2 DEF Fits, Returns
  <2>. QED  BY <1>4, <2>1, <2>2, <2>3
<1>. QED  BY <1>1, <1>14, <1>16, <1>17, <1>18, <1>19, <1>20, StepKeeps

------------------------------------------------------------------------------
(* The theorems about answers.                                              *)

\* What holds of calls, commands and the device at all times.
LEMMA InvHolds == Spec => []Inv
<1>1. Init => Inv
  BY InitHolds
<1>2. Inv /\ [Next]_vars => Inv'
  <2>. SUFFICES ASSUME Inv, [Next]_vars PROVE Inv'
    OBVIOUS
  <2>1. ASSUME NEW c \in Callers,
               \/ SignWithKey(c) \/ CachedKey(c) \/ RefuseToSign(c)
               \/ Start(c) \/ Send(c) \/ Finish(c)
        PROVE  Inv'
    BY <2>1, SignWithKeyKeeps, CachedKeyKeeps, RefuseToSignKeeps, StartKeeps, SendKeeps, FinishKeeps
  <2>2. ASSUME NEW i \in DOMAIN flight, Process(i)
        PROVE  Inv'
    BY <2>2, ProcessKeeps
  <2>3. CASE UNCHANGED vars
    <3>1. /\ job' = job /\ pc' = pc /\ script' = script /\ answer' = answer /\ result' = result
          /\ pubKey' = pubKey /\ transport' = transport /\ flight' = flight
          /\ device' = device /\ refusals' = refusals /\ mixed' = mixed
      BY <2>3 DEF vars
    <3>. QED
      BY <3>1
      DEF Inv, Types, AllCommands, CallInv, InFlight, FirstInFlight, HasSent, RestIsOwn,
          AnswerIsOwn, DeviceIsHeld, FlightOf, DeviceInv, Results, Fits
  <2>. QED  BY <2>1, <2>2, <2>3 DEF Next, Done
<1>. QED  BY <1>1, <1>2, PTL DEF Spec

\* A signature that is returned is one of the hash the network computes of what
\* was asked for, and a key that is returned is the signer's own, whatever other
\* calls tell the device meanwhile and however the transport carries it.
THEOREM SignedIsAskedAlways == Spec => [](SignedIsAsked /\ OwnKey)
<1>1. Inv => SignedIsAsked /\ OwnKey
  BY DEF Inv, Results, Fits, Asked, SignedIsAsked, OwnKey, Signs
<1>. QED  BY <1>1, InvHolds, PTL

\* On a transport that keeps the order of what it is given, the device has also
\* processed every part of what it signs.
THEOREM AnswersAreOwnAlways ==
  ASSUME "unordered" \notin Transports
  PROVE  Spec => []AnswersAreOwn
<1>1. Inv => SignedIsAsked /\ OwnKey
  BY DEF Inv, Results, Fits, Asked, SignedIsAsked, OwnKey, Signs
<1>2. Inv => NothingLeft
  <2>1. Inv => transport # "unordered"
    BY DEF Inv, Types
  <2>. QED  BY <2>1 DEF Inv, Results, Fits, NothingLeft, InFlight
<1>3. Inv => AnswersAreOwn
  BY <1>1, <1>2 DEF AnswersAreOwn
<1>. QED  BY <1>3, InvHolds, PTL

------------------------------------------------------------------------------
(* What the device collects.                                                *)

\* What is in the device.
IsAt(dev, ins, path, head, parts, open, closed) ==
  /\ IsDevice(dev)
  /\ dev.ins = ins /\ dev.path = path /\ dev.head = head
  /\ dev.parts = parts /\ dev.open = open /\ dev.closed = closed

\* The first command is taken whatever was collected.
LEMMA PathIsTaken ==
  ASSUME NEW dev, NEW a, a.p1 = 0, a.ins \in 2 .. 6, NEW new, new = Collect(dev, a)
  PROVE  /\ Accepts(dev, a) /\ ~IsComplete(new)
         /\ IsAt(new, a.ins, a.data, <<>>, <<>>, FALSE, 0)
<1>1. new = [Idle EXCEPT !.ins = a.ins, !.path = a.data]
  BY DEF Collect
<1>2. IsAt(new, a.ins, a.data, <<>>, <<>>, FALSE, 0)
  BY <1>1, Zenon DEF Idle, IsDevice, IsAt
<1>3. ~IsComplete(new)
  BY <1>2 DEF IsAt, IsComplete, TakesCalls
<1>. QED  BY <1>2, <1>3, Zenon DEF Accepts

\* A part of the head is taken after those before it.
LEMMA HeadIsTaken ==
  ASSUME NEW dev, NEW a, NEW new, new = Collect(dev, a), NEW ins \in 3 .. 6, NEW path,
         NEW S, NEW head \in Seq(S), IsAt(dev, ins, path, head, <<>>, FALSE, 0),
         a.ins = ins, a.p1 = Len(head) + 1, a.p1 <= HeadLen(ins)
  PROVE  /\ Accepts(dev, a) /\ ~IsComplete(new)
         /\ IsAt(new, ins, path, Append(head, a.data), <<>>, FALSE, 0)
<1>1. a.p1 # 0
  OBVIOUS
<1>2. new = [dev EXCEPT !.head = Append(@, a.data)]
  BY <1>1 DEF Collect
<1>3. IsAt(new, ins, path, Append(head, a.data), <<>>, FALSE, 0)
  BY <1>2, Zenon DEF IsDevice, IsAt
<1>4. ~IsComplete(new)
  BY <1>3 DEF IsAt, IsComplete, TakesCalls
<1>5. Accepts(dev, a)
  BY DEF IsAt, Accepts
<1>. QED  BY <1>3, <1>4, <1>5, Zenon

\* A part of the arguments of a constructor.
LEMMA ArgumentsAreTaken ==
  ASSUME NEW dev, NEW a, NEW new, new = Collect(dev, a), NEW ins \in {5, 6}, NEW path,
         NEW head, Len(head) = HeadLen(ins), NEW parts, IsAt(dev, ins, path, head, parts, FALSE, 0),
         a.ins = ins, a.p1 = HeadLen(ins) + 1
  PROVE  /\ Accepts(dev, a)
         /\ IsAt(new, ins, path, head, Append(parts, a.data), FALSE, 0)
<1>1. a.p1 # 0 /\ ~(a.ins = 2 \/ a.p1 <= HeadLen(ins)) /\ ~TakesCalls(a.ins)
  BY DEF HeadLen, TakesCalls
<1>2. new = [dev EXCEPT !.parts = Append(@, a.data)]
  BY <1>1 DEF Collect
<1>3. IsAt(new, ins, path, head, Append(parts, a.data), FALSE, 0)
  BY <1>2, Zenon DEF IsDevice, IsAt
<1>4. Accepts(dev, a)
  BY <1>1 DEF IsAt, Accepts
<1>. QED  BY <1>3, <1>4, Zenon

\* The first part of a call, more of it, and its end.
LEMMA CallIsTaken ==
  ASSUME NEW dev, NEW a, NEW new, new = Collect(dev, a), NEW ins \in {3, 4}, NEW path,
         NEW head, Len(head) = HeadLen(ins), NEW parts, NEW open \in BOOLEAN, NEW closed \in Nat,
         IsAt(dev, ins, path, head, parts, open, closed),
         a.ins = ins, a.p1 = HeadLen(ins) + 1, open <=> a.p2 # 0, a.p2 \in 0 .. 2
  PROVE  /\ Accepts(dev, a)
         /\ a.p2 = 0 => IsAt(new, ins, path, head, Append(parts, a.data), TRUE, closed)
         /\ a.p2 = 1 => IsAt(new, ins, path, head,
                             [parts EXCEPT ![Len(parts)] = @ \o a.data], TRUE, closed)
         /\ a.p2 = 2 => IsAt(new, ins, path, head, parts, FALSE, closed + 1)
<1>1. a.p1 # 0 /\ ~(a.ins = 2 \/ a.p1 <= HeadLen(ins)) /\ TakesCalls(a.ins)
  BY DEF HeadLen, TakesCalls
<1>2. new = CASE a.p2 = 0 -> [dev EXCEPT !.parts = Append(@, a.data), !.open = TRUE]
              [] a.p2 = 1 -> [dev EXCEPT !.parts[Len(dev.parts)] = @ \o a.data]
              [] OTHER -> [dev EXCEPT !.open = FALSE, !.closed = @ + 1]
  BY <1>1 DEF Collect
<1>3. ASSUME a.p2 = 0
      PROVE  IsAt(new, ins, path, head, Append(parts, a.data), TRUE, closed)
  <2>1. new = [dev EXCEPT !.parts = Append(@, a.data), !.open = TRUE]
    BY <1>2, <1>3
  <2>. QED  BY <2>1, Zenon DEF IsDevice, IsAt
<1>4. ASSUME a.p2 = 1
      PROVE  IsAt(new, ins, path, head, [parts EXCEPT ![Len(parts)] = @ \o a.data], TRUE, closed)
  <2>1. new = [dev EXCEPT !.parts[Len(dev.parts)] = @ \o a.data]
    BY <1>2, <1>4
  <2>2. open = TRUE
    BY <1>4
  <2>. QED  BY <2>1, <2>2, Zenon DEF IsDevice, IsAt
<1>5. ASSUME a.p2 = 2
      PROVE  IsAt(new, ins, path, head, parts, FALSE, closed + 1)
  <2>1. new = [dev EXCEPT !.open = FALSE, !.closed = @ + 1]
    BY <1>2, <1>5
  <2>. QED  BY <2>1, Zenon DEF IsDevice, IsAt
<1>6. Accepts(dev, a)
  BY <1>1 DEF IsAt, Accepts
<1>. QED  BY <1>3, <1>4, <1>5, <1>6, Zenon

\* The end of a call comes to the device.
EndComes(dev, a, new, ins, path, head, parts, closed) ==
  /\ new = Collect(dev, a) /\ ins \in {3, 4} /\ Len(head) = HeadLen(ins) /\ closed \in Nat
  /\ IsAt(dev, ins, path, head, parts, TRUE, closed)
  /\ a.ins = ins /\ a.p1 = HeadLen(ins) + 1 /\ a.p2 = 2

\* It is taken.
LEMMA EndIsTaken ==
  ASSUME NEW dev, NEW a, NEW new, NEW ins, NEW path, NEW head, NEW parts, NEW closed,
         EndComes(dev, a, new, ins, path, head, parts, closed)
  PROVE  Accepts(dev, a) /\ IsAt(new, ins, path, head, parts, FALSE, closed + 1)
<1>1. /\ new = Collect(dev, a) /\ ins \in {3, 4} /\ Len(head) = HeadLen(ins) /\ closed \in Nat
      /\ IsAt(dev, ins, path, head, parts, TRUE, closed)
      /\ a.ins = ins /\ a.p1 = HeadLen(ins) + 1 /\ a.p2 = 2
  BY Zenon DEF EndComes
<1>2. (TRUE <=> a.p2 # 0) /\ a.p2 \in 0 .. 2
  BY <1>1
<1>. QED  BY <1>1, <1>2, CallIsTaken, Zenon

------------------------------------------------------------------------------
(* The parts of a list.                                                     *)

\* Multiples of a number grow.
LEMMA MultiplesGrow ==
  ASSUME NEW q \in Nat, NEW a \in Nat, NEW b \in Nat, a <= b
  PROVE  q * a \in Nat /\ q * b \in Nat /\ q * a <= q * b
<1>1. b = a + (b - a) /\ b - a \in Nat
  OBVIOUS
<1>2. q * (a + (b - a)) = q * a + q * (b - a) /\ q * (b - a) \in Nat /\ q * a \in Nat
  BY <1>1
<1>. QED  BY <1>1, <1>2

\* The list is cut into m parts, the i-th of which ends at end[i].
AreCuts(words, parts, m, end) ==
  /\ DOMAIN parts = 1 .. m /\ Len(parts) = m
  /\ end \in [0 .. m -> Nat] /\ end[0] = 0 /\ end[m] = Len(words)
  /\ \A i \in 1 .. m : /\ end[i - 1] < end[i] /\ end[i] <= Len(words)
                       /\ parts[i] = SubSeq(words, end[i - 1] + 1, end[i])

\* Chunks() cuts a list so, and a short one not at all.
LEMMA ChunksAreCut ==
  ASSUME NEW words, NEW L \in Nat \ {0}, L = Len(words)
  PROVE  \E m \in Nat \ {0} : /\ \E end : AreCuts(words, Chunks(words), m, end)
                              /\ L <= PartLen => m = 1
<1>1. PICK q \in Nat \ {0} : q = PartLen
  BY SignersAssumption
<1>2. PICK m \in Nat, r \in 0 .. q - 1 : m = (L + q - 1) \div q /\ L + q - 1 = q * m + r
  <2>1. L + q - 1 \in Nat
    OBVIOUS
  <2>. DEFINE a == L + q - 1
  <2>2. a \div q \in Nat /\ a % q \in 0 .. q - 1 /\ a = q * (a \div q) + (a % q)
    BY <2>1
  <2>. QED  BY <2>2, Zenon
<1>3. m # 0
  <2>1. ASSUME m = 0 PROVE FALSE
    <3>1. q * m = 0
      BY <2>1
    <3>. QED  BY <1>2, <3>1
  <2>. QED  BY <2>1
<1>4. q * m = q * (m - 1) + q /\ q * (m - 1) \in Nat /\ q * m \in Nat
  BY <1>3
<1>5. q * (m - 1) < L /\ L <= q * m
  <2>1. PICK x \in Nat : x = q * m
    BY <1>4
  <2>2. PICK y \in Nat : y = q * (m - 1)
    BY <1>4
  <2>. QED  BY <1>2, <1>4, <2>1, <2>2
<1>6. PICK end : end = [i \in 0 .. m |-> IF q * i < L THEN q * i ELSE L]
  BY Zenon
<1>7. ASSUME NEW i \in 0 .. m
      PROVE  /\ end[i] \in Nat /\ end[i] <= L
             /\ i = 0 => end[i] = 0
             /\ i = m => end[i] = L
             /\ i # m => end[i] = q * i
  <2>1. PICK x \in Nat : x = q * i /\ (i = 0 => x = 0)
    OBVIOUS
  <2>2. i = m => x >= L
    BY <1>5, <2>1
  <2>3. i # m => x < L
    <3>. SUFFICES ASSUME i # m PROVE x < L
      OBVIOUS
    <3>1. i <= m - 1 /\ m - 1 \in Nat
      BY <1>3
    <3>2. q * i <= q * (m - 1)
      BY <3>1, MultiplesGrow
    <3>3. PICK y \in Nat : y = q * (m - 1)
      BY <1>4
    <3>. QED  BY <1>5, <2>1, <3>2, <3>3
  <2>. QED  BY <1>6, <2>1, <2>2, <2>3
<1>8. ASSUME NEW i \in 1 .. m
      PROVE  end[i - 1] = q * (i - 1) /\ end[i - 1] < end[i]
  <2>1. i - 1 \in 0 .. m /\ i - 1 # m /\ i \in 0 .. m
    OBVIOUS
  <2>2. end[i - 1] = q * (i - 1) /\ end[i - 1] <= L
    BY <1>7, <2>1
  <2>3. PICK y \in Nat : y = q * (i - 1)
    BY <2>1
  <2>4. q * i = q * (i - 1) + q
    BY <2>1
  <2>5. CASE i # m
    <3>1. end[i] = q * i
      BY <1>7, <2>1, <2>5
    <3>. QED  BY <2>2, <2>3, <2>4, <3>1
  <2>6. CASE i = m
    <3>1. end[i] = L
      BY <1>7, <2>1, <2>6
    <3>. QED  BY <1>5, <2>2, <2>6, <3>1
  <2>. QED  BY <2>5, <2>6
<1>9. PICK parts : parts = Chunks(words)
  OBVIOUS
<1>10. parts = [i \in 1 .. m |-> SubSeq(words, q * (i - 1) + 1, IF q * i < L THEN q * i ELSE L)]
  BY <1>1, <1>2, <1>9 DEF Chunks
<1>11. ASSUME NEW i \in 1 .. m
       PROVE  parts[i] = SubSeq(words, end[i - 1] + 1, end[i])
  <2>1. parts[i] = SubSeq(words, q * (i - 1) + 1, IF q * i < L THEN q * i ELSE L)
    BY <1>10, Zenon
  <2>2. end[i] = IF q * i < L THEN q * i ELSE L
    BY <1>6
  <2>3. end[i - 1] = q * (i - 1)
    BY <1>8, Zenon
  <2>. QED  BY <2>1, <2>2, <2>3
<1>12. DOMAIN parts = 1 .. m /\ Len(parts) = m
  <2>1. parts \in [1 .. m -> {parts[i] : i \in 1 .. m}]
    BY <1>10, Zenon
  <2>. QED  BY <2>1, FunctionIsList
<1>13. end \in [0 .. m -> Nat] /\ end[0] = 0 /\ end[m] = L
  BY <1>6, <1>7
<1>14. AreCuts(words, parts, m, end)
  <2>1. \A i \in 1 .. m : /\ end[i - 1] < end[i] /\ end[i] <= L
                          /\ parts[i] = SubSeq(words, end[i - 1] + 1, end[i])
    <3>. SUFFICES ASSUME NEW i \in 1 .. m
                  PROVE  /\ end[i - 1] < end[i] /\ end[i] <= L
                         /\ parts[i] = SubSeq(words, end[i - 1] + 1, end[i])
      OBVIOUS
    <3>1. i \in 0 .. m
      OBVIOUS
    <3>. QED  BY <1>7, <1>8, <1>11, <3>1, Zenon
  <2>. QED  BY <1>12, <1>13, <2>1, Zenon DEF AreCuts
<1>15. L <= q => m = 1
  <2>. SUFFICES ASSUME L <= q, m >= 2 PROVE FALSE
    BY <1>3
  <2>1. q * 1 <= q * (m - 1)
    BY MultiplesGrow
  <2>2. PICK y \in Nat : y = q * (m - 1)
    BY <1>4
  <2>. QED  BY <1>5, <2>1, <2>2
<1>. QED  BY <1>1, <1>3, <1>9, <1>14, <1>15

\* The beginning of a list, and what follows on it.
LEMMA BeginningsAre ==
  ASSUME NEW S, NEW words \in Seq(S), NEW a \in Nat, NEW b \in Nat, a < b, b <= Len(words)
  PROVE  /\ SubSeq(words, a + 1, b) \in Seq(S)
         /\ SubSeq(words, 1, b) \in Seq(S) /\ Len(SubSeq(words, 1, b)) = b
         /\ SubSeq(words, 1, a) \o SubSeq(words, a + 1, b) = SubSeq(words, 1, b)
         /\ SubSeq(words, 1, Len(words)) = words
<1>1. PICK u : u = SubSeq(words, 1, a)
  BY Zenon
<1>2. PICK v : v = SubSeq(words, a + 1, b)
  BY Zenon
<1>3. PICK w : w = SubSeq(words, 1, b)
  BY Zenon
<1>4. u \in Seq(S) /\ Len(u) = a /\ \A k \in 1 .. a : u[k] = words[k]
  BY <1>1
<1>5. w \in Seq(S) /\ Len(w) = b /\ \A k \in 1 .. b : w[k] = words[k]
  BY <1>3
<1>6. v \in Seq(S) /\ Len(v) = b - a /\ \A k \in 1 .. b - a : v[k] = words[a + k]
  BY <1>2
<1>7. u \o v = w
  <2>1. /\ u \o v \in Seq(S) /\ Len(u \o v) = Len(u) + Len(v)
        /\ \A k \in 1 .. Len(u) + Len(v) : (u \o v)[k] = IF k <= Len(u) THEN u[k] ELSE v[k - Len(u)]
    BY <1>4, <1>6, ConcatProperties
  <2>2. ASSUME NEW k \in 1 .. b PROVE (u \o v)[k] = w[k]
    <3>1. (u \o v)[k] = IF k <= a THEN u[k] ELSE v[k - a]
      BY <1>4, <1>6, <2>1
    <3>2. CASE k <= a
      BY <1>4, <1>5, <3>1, <3>2
    <3>3. CASE ~(k <= a)
      <4>1. k - a \in 1 .. b - a /\ a + (k - a) = k
        BY <3>3
      <4>2. v[k - a] = words[a + (k - a)]
        BY <1>6, <4>1
      <4>. QED  BY <1>5, <3>1, <3>3, <4>1, <4>2
    <3>. QED  BY <3>2, <3>3, Zenon
  <2>3. Len(u \o v) = b
    BY <1>4, <1>6, <2>1
  <2>. QED  BY <1>5, <2>1, <2>2, <2>3
<1>8. SubSeq(words, 1, Len(words)) = words
  OBVIOUS
<1>. QED  BY <1>1, <1>2, <1>3, <1>5, <1>6, <1>7, <1>8, Zenon

\* The i-th part is a list, and comes after what was cut off before.
IsCut(S, words, parts, m, end, i) ==
  /\ parts[i] \in Seq(S)
  /\ SubSeq(words, 1, end[i]) \in Seq(S) /\ Len(SubSeq(words, 1, end[i])) = end[i]
  /\ SubSeq(words, 1, end[i - 1]) \o parts[i] = SubSeq(words, 1, end[i])
  /\ i = 1 => parts[i] = SubSeq(words, 1, end[i])
  /\ i = m => SubSeq(words, 1, end[i]) = words

\* So is every part.
LEMMA CutsAre ==
  ASSUME NEW S, NEW words \in Seq(S), NEW m \in Nat \ {0}, NEW end, NEW parts,
         AreCuts(words, parts, m, end), NEW i \in 1 .. m
  PROVE  IsCut(S, words, parts, m, end, i)
<1>1. /\ end[i - 1] < end[i] /\ end[i] <= Len(words)
      /\ parts[i] = SubSeq(words, end[i - 1] + 1, end[i])
      /\ end \in [0 .. m -> Nat] /\ end[0] = 0 /\ end[m] = Len(words)
  BY Zenon DEF AreCuts
<1>2. i - 1 \in 0 .. m /\ i \in 0 .. m
  OBVIOUS
<1>3. end[i - 1] \in Nat /\ end[i] \in Nat
  BY <1>1, <1>2, Zenon
<1>4. PICK a \in Nat : a = end[i - 1]
  BY <1>3
<1>5. PICK b \in Nat : b = end[i]
  BY <1>3
<1>6. a < b /\ b <= Len(words)
  BY <1>1, <1>4, <1>5, Zenon
<1>7. /\ SubSeq(words, a + 1, b) \in Seq(S)
      /\ SubSeq(words, 1, b) \in Seq(S) /\ Len(SubSeq(words, 1, b)) = b
      /\ SubSeq(words, 1, a) \o SubSeq(words, a + 1, b) = SubSeq(words, 1, b)
      /\ SubSeq(words, 1, Len(words)) = words
  BY <1>6, BeginningsAre
<1>8. parts[i] = SubSeq(words, a + 1, b)
  BY <1>1, <1>4, <1>5, Zenon
<1>9. i = 1 => a + 1 = 1
  BY <1>1, <1>4
<1>10. i = m => b = Len(words)
  BY <1>1, <1>5, Zenon
<1>. QED  BY <1>4, <1>5, <1>7, <1>8, <1>9, <1>10, Zenon DEF IsCut

------------------------------------------------------------------------------
(* The device after each of a list of commands.                             *)

IsTaking(d, s) ==
  d = [k \in 0 .. Len(s) |-> IF k = 0 THEN Idle ELSE Collect(d[k - 1], s[k])]

\* There is such a function.
LEMMA TakingExists ==
  ASSUME NEW s, Len(s) \in Nat
  PROVE  \E d : IsTaking(d, s)
<1>. DEFINE Until(n, d) == d = [k \in 0 .. n |-> IF k = 0 THEN Idle ELSE Collect(d[k - 1], s[k])]
            T == {n \in Nat : \E d : Until(n, d)}
<1>1. 0 \in T
  <2>1. PICK d : d = [k \in 0 .. 0 |-> Idle]
    BY Zenon
  <2>2. d = [k \in 0 .. 0 |-> IF k = 0 THEN Idle ELSE Collect(d[k - 1], s[k])]
    BY <2>1
  <2>. QED  BY <2>2
<1>2. ASSUME NEW n \in Nat, n \in T
      PROVE  n + 1 \in T
  <2>1. PICK d : Until(n, d)
    BY <1>2
  <2>2. PICK e : e = [k \in 0 .. n + 1 |-> IF k = 0 THEN Idle ELSE Collect(d[k - 1], s[k])]
    BY Zenon
  <2>3. ASSUME NEW k \in 0 .. n
        PROVE  d[k] = IF k = 0 THEN Idle ELSE Collect(d[k - 1], s[k])
    BY <2>1, Zenon
  <2>4. ASSUME NEW k \in 0 .. n PROVE e[k] = d[k]
    <3>1. k \in 0 .. n + 1
      OBVIOUS
    <3>. QED  BY <2>2, <2>3, <3>1, Zenon
  <2>5. ASSUME NEW k \in 0 .. n + 1
        PROVE  e[k] = IF k = 0 THEN Idle ELSE Collect(e[k - 1], s[k])
    <3>1. e[k] = IF k = 0 THEN Idle ELSE Collect(d[k - 1], s[k])
      BY <2>2, Zenon
    <3>2. k # 0 => k - 1 \in 0 .. n
      OBVIOUS
    <3>3. k # 0 => e[k - 1] = d[k - 1]
      BY <2>4, <3>2, Zenon
    <3>. QED  BY <3>1, <3>3, Zenon
  <2>6. e = [k \in 0 .. n + 1 |-> e[k]]
    BY <2>2
  <2>7. e = [k \in 0 .. n + 1 |-> IF k = 0 THEN Idle ELSE Collect(e[k - 1], s[k])]
    BY <2>5, <2>6, Zenon
  <2>. QED  BY <2>7
<1>. HIDE DEF T
<1>3. Nat \subseteq T
  BY <1>1, <1>2, InductionOn
<1>4. Len(s) \in T
  BY <1>3
<1>5. PICK d : Until(Len(s), d)
  BY <1>4 DEF T
<1>. QED  BY <1>5, Zenon DEF IsTaking

\* The device collects one command after the other.
LEMMA TakingIs ==
  ASSUME NEW d, NEW s, IsTaking(d, s), Len(s) \in Nat
  PROVE  d[0] = Idle /\ \A k \in 1 .. Len(s) : d[k] = Collect(d[k - 1], s[k])
<1>1. \A k \in 0 .. Len(s) : d[k] = IF k = 0 THEN Idle ELSE Collect(d[k - 1], s[k])
  BY Zenon DEF IsTaking
<1>2. 0 \in 0 .. Len(s)
  OBVIOUS
<1>3. \A k \in 1 .. Len(s) : k \in 0 .. Len(s) /\ k # 0
  OBVIOUS
<1>. QED  BY <1>1, <1>2, <1>3, Zenon

\* The commands of a call: its parts, and its end.
AreOfCall(cmds, ins, p1, parts, m) ==
  /\ Len(cmds) = m + 1
  /\ \A k \in 1 .. m + 1 : cmds[k].ins = ins /\ cmds[k].p1 = p1
  /\ \A k \in 1 .. m : cmds[k].p2 = (IF k = 1 THEN 0 ELSE 1) /\ cmds[k].data = parts[k]
  /\ cmds[m + 1].p2 = 2
  /\ cmds[1].awaited = TRUE /\ cmds[m + 1].awaited = TRUE

\* CallCommands() makes these.
LEMMA CallCommandsOf ==
  ASSUME NEW ins, NEW p1, NEW call, NEW m \in Nat \ {0}, Len(encodeCall(call)) = m
  PROVE  AreOfCall(CallCommands(ins, p1, call), ins, p1, encodeCall(call), m)
<1>1. PICK parts : parts = encodeCall(call)
  OBVIOUS
<1>2. PICK n \in Nat : n = m - 1
  OBVIOUS
<1>3. PICK S : S = {Apdu(ins, p1, 0, parts[1]), Apdu(ins, p1, 2, <<>>)}
                     \union {LooseApdu(ins, p1, 1, parts[i + 1]) : i \in 1 .. n}
  BY Zenon
<1>4. PICK first : first = <<Apdu(ins, p1, 0, parts[1])>>
  BY Zenon
<1>5. PICK loose : loose = [i \in 1 .. n |-> LooseApdu(ins, p1, 1, parts[i + 1])]
  BY Zenon
<1>6. PICK closing : closing = <<Apdu(ins, p1, 2, <<>>)>>
  BY Zenon
<1>7. PICK cmds : cmds = (first \o loose) \o closing
  BY Zenon
<1>8. cmds = CallCommands(ins, p1, call)
  BY <1>1, <1>2, <1>4, <1>5, <1>6, <1>7 DEF CallCommands
<1>9. first \in Seq(S) /\ Len(first) = 1 /\ first[1] = Apdu(ins, p1, 0, parts[1])
  BY <1>3, <1>4
<1>10. /\ loose \in Seq(S) /\ Len(loose) = n
       /\ \A i \in 1 .. n : loose[i] = LooseApdu(ins, p1, 1, parts[i + 1])
  <2>1. loose \in [1 .. n -> S]
    BY <1>3, <1>5
  <2>. QED  BY <1>5, <2>1, FunctionIsList
<1>11. closing \in Seq(S) /\ Len(closing) = 1 /\ closing[1] = Apdu(ins, p1, 2, <<>>)
  BY <1>3, <1>6
<1>12. PICK both : both = first \o loose
  BY Zenon
<1>13. /\ both \in Seq(S) /\ Len(both) = 1 + n
       /\ \A k \in 1 .. 1 + n : both[k] = IF k <= 1 THEN first[k] ELSE loose[k - 1]
  <2>1. /\ first \o loose \in Seq(S) /\ Len(first \o loose) = Len(first) + Len(loose)
        /\ \A k \in 1 .. Len(first) + Len(loose) :
             (first \o loose)[k] = IF k <= Len(first) THEN first[k] ELSE loose[k - Len(first)]
    BY <1>9, <1>10, ConcatProperties, Zenon
  <2>. QED  BY <1>9, <1>10, <1>12, <2>1, Zenon
<1>14. /\ cmds \in Seq(S) /\ Len(cmds) = (1 + n) + 1
       /\ \A k \in 1 .. (1 + n) + 1 : cmds[k] = IF k <= 1 + n THEN both[k] ELSE closing[k - (1 + n)]
  <2>1. /\ both \o closing \in Seq(S) /\ Len(both \o closing) = Len(both) + Len(closing)
        /\ \A k \in 1 .. Len(both) + Len(closing) :
             (both \o closing)[k] = IF k <= Len(both) THEN both[k] ELSE closing[k - Len(both)]
    BY <1>11, <1>13, ConcatProperties, Zenon
  <2>. QED  BY <1>7, <1>11, <1>12, <1>13, <2>1, Zenon
<1>15. cmds[1] = Apdu(ins, p1, 0, parts[1])
  <2>1. 1 \in 1 .. (1 + n) + 1 /\ 1 <= 1 + n /\ 1 \in 1 .. 1 + n /\ 1 <= 1
    OBVIOUS
  <2>. QED  BY <1>9, <1>13, <1>14, <2>1, Zenon
<1>16. ASSUME NEW k \in 1 .. m, k # 1
       PROVE  cmds[k] = LooseApdu(ins, p1, 1, parts[k])
  <2>1. /\ k \in 1 .. (1 + n) + 1 /\ k <= 1 + n /\ k \in 1 .. 1 + n /\ ~(k <= 1)
        /\ k - 1 \in 1 .. n /\ (k - 1) + 1 = k
    BY <1>2, <1>16
  <2>2. cmds[k] = loose[k - 1]
    BY <1>13, <1>14, <2>1, Zenon
  <2>3. loose[k - 1] = LooseApdu(ins, p1, 1, parts[(k - 1) + 1])
    BY <1>10, <2>1, Zenon
  <2>. QED  BY <2>1, <2>2, <2>3
<1>17. cmds[m + 1] = Apdu(ins, p1, 2, <<>>)
  <2>1. m + 1 \in 1 .. (1 + n) + 1 /\ ~(m + 1 <= 1 + n) /\ (m + 1) - (1 + n) = 1
    BY <1>2
  <2>2. cmds[m + 1] = closing[(m + 1) - (1 + n)]
    BY <1>14, <2>1, Zenon
  <2>. QED  BY <1>11, <2>1, <2>2
<1>18. Len(cmds) = m + 1
  BY <1>2, <1>14
<1>19. \A k \in 1 .. m : /\ cmds[k].ins = ins /\ cmds[k].p1 = p1 /\ cmds[k].data = parts[k]
                        /\ cmds[k].p2 = IF k = 1 THEN 0 ELSE 1
  <2>. SUFFICES ASSUME NEW k \in 1 .. m
                PROVE  /\ cmds[k].ins = ins /\ cmds[k].p1 = p1 /\ cmds[k].data = parts[k]
                       /\ cmds[k].p2 = IF k = 1 THEN 0 ELSE 1
    OBVIOUS
  <2>1. CASE k = 1
    BY <1>15, <2>1 DEF Apdu
  <2>2. CASE k # 1
    <3>1. cmds[k] = LooseApdu(ins, p1, 1, parts[k])
      BY <1>16, <2>2
    <3>. QED  BY <2>2, <3>1 DEF LooseApdu, Apdu
  <2>. QED  BY <2>1, <2>2
<1>20. /\ cmds[m + 1].ins = ins /\ cmds[m + 1].p1 = p1 /\ cmds[m + 1].p2 = 2
       /\ cmds[m + 1].awaited = TRUE /\ cmds[1].awaited = TRUE
  BY <1>15, <1>17 DEF Apdu
<1>21. \A k \in 1 .. m + 1 : k \in 1 .. m \/ k = m + 1
  OBVIOUS
<1>22. AreOfCall(cmds, ins, p1, parts, m)
  BY <1>18, <1>19, <1>20, <1>21, Zenon DEF AreOfCall
<1>. QED  BY <1>1, <1>8, <1>22

\* The device at places p to p + n takes what comes there, and is not complete between.
Takes(d, s, p, n) ==
  /\ \A i \in 1 .. n : Accepts(d[p + i - 1], s[p + i])
  /\ \A i \in 1 .. n - 1 : ~IsComplete(d[p + i])

\* The device has k parts of a call, after the others.
HasParts(dev, ins, path, head, parts, words, end, k, closed) ==
  IF k = 0 THEN IsAt(dev, ins, path, head, parts, FALSE, closed)
  ELSE IsAt(dev, ins, path, head, Append(parts, SubSeq(words, 1, end[k])), TRUE, closed)

\* The k-th part of a call comes to the device.
PartComes(dev, a, new, ins, path, head, parts, words, end, cuts, k, closed) ==
  /\ new = Collect(dev, a)
  /\ HasParts(dev, ins, path, head, parts, words, end, k - 1, closed)
  /\ a.ins = ins /\ a.p1 = HeadLen(ins) + 1
  /\ a.p2 = (IF k = 1 THEN 0 ELSE 1) /\ a.data = cuts[k]

\* It is taken.
LEMMA PartIsTaken ==
  ASSUME NEW ins \in {3, 4}, NEW head, Len(head) = HeadLen(ins),
         NEW S, NEW parts \in Seq(Seq(S)), NEW closed \in Nat,
         NEW words \in Seq(S), NEW m \in Nat \ {0}, NEW end, NEW cuts, AreCuts(words, cuts, m, end),
         NEW k \in 1 .. m, NEW dev, NEW a, NEW new, NEW path,
         PartComes(dev, a, new, ins, path, head, parts, words, end, cuts, k, closed)
  PROVE  /\ Accepts(dev, a)
         /\ HasParts(new, ins, path, head, parts, words, end, k, closed)
<1>. DEFINE j == k - 1
<1>7. /\ new = Collect(dev, a)
      /\ HasParts(dev, ins, path, head, parts, words, end, j, closed)
      /\ a.ins = ins /\ a.p1 = HeadLen(ins) + 1
      /\ a.p2 = (IF k = 1 THEN 0 ELSE 1) /\ a.data = cuts[k]
  BY Zenon DEF PartComes
<1>. HIDE DEF j
<1>1. PICK text : text = SubSeq(words, 1, end[k])
  BY Zenon
<1>2. PICK c : c = cuts[k]
  OBVIOUS
<1>3. /\ c \in Seq(S) /\ text \in Seq(S)
      /\ k = 1 => c = text
      /\ SubSeq(words, 1, end[k - 1]) \o c = text
  <2>1. IsCut(S, words, cuts, m, end, k)
    BY CutsAre
  <2>. QED  BY <1>1, <1>2, <2>1, Zenon DEF IsCut
<1>4. ASSUME IsAt(new, ins, path, head, Append(parts, text), TRUE, closed)
      PROVE  HasParts(new, ins, path, head, parts, words, end, k, closed)
  <2>1. k # 0
    OBVIOUS
  <2>. QED  BY <1>1, <1>4, <2>1, Zenon DEF HasParts
<1>5. CASE k = 1
  <2>1. j = 0
    BY <1>5 DEF j
  <2>2. IsAt(dev, ins, path, head, parts, FALSE, closed)
    BY <1>7, <2>1, Zenon DEF HasParts
  <2>3. a.p2 = 0 /\ (FALSE <=> a.p2 # 0) /\ a.p2 \in 0 .. 2
    BY <1>5, <1>7
  <2>4. /\ Accepts(dev, a)
        /\ IsAt(new, ins, path, head, Append(parts, a.data), TRUE, closed)
    BY <1>7, <2>2, <2>3, CallIsTaken, ZenonT(30)
  <2>5. a.data = text
    BY <1>2, <1>3, <1>5, <1>7
  <2>. QED  BY <1>4, <2>4, <2>5
<1>6. CASE k # 1
  <2>1. k - 1 \in 1 .. m
    BY <1>6
  <2>2. PICK done : done = SubSeq(words, 1, end[k - 1])
    BY Zenon
  <2>3. done \in Seq(S) /\ done \o c = text
    <3>1. IsCut(S, words, cuts, m, end, k - 1)
      BY <2>1, CutsAre
    <3>. QED  BY <1>3, <2>2, <3>1, Zenon DEF IsCut
  <2>4. PICK more : more = Append(parts, done)
    BY Zenon
  <2>5. j # 0 /\ j = k - 1
    BY <1>6 DEF j
  <2>6. IsAt(dev, ins, path, head, more, TRUE, closed)
    BY <1>7, <2>2, <2>4, <2>5, Zenon DEF HasParts
  <2>7. a.p2 = 1 /\ (TRUE <=> a.p2 # 0) /\ a.p2 \in 0 .. 2
    BY <1>6, <1>7
  <2>8. /\ Accepts(dev, a)
        /\ IsAt(new, ins, path, head, [more EXCEPT ![Len(more)] = @ \o a.data], TRUE, closed)
    BY <1>7, <2>6, <2>7, CallIsTaken, Zenon
  <2>9. [more EXCEPT ![Len(more)] = @ \o c] = Append(parts, text)
    <3>1. PICK l \in Nat : l = Len(parts)
      OBVIOUS
    <3>2. /\ more \in Seq(Seq(S)) /\ Len(more) = l + 1 /\ more[l + 1] = done
          /\ \A i \in 1 .. l : more[i] = parts[i]
      BY <2>3, <2>4, <3>1
    <3>3. PICK other : other = [more EXCEPT ![l + 1] = @ \o c]
      BY Zenon
    <3>4. /\ other \in Seq(Seq(S)) /\ Len(other) = l + 1 /\ other[l + 1] = text
          /\ \A i \in 1 .. l : other[i] = parts[i]
      <4>1. more[l + 1] \o c = text
        BY <2>3, <3>2, Zenon
      <4>2. text \in Seq(S) /\ l + 1 \in 1 .. l + 1
        BY <1>3
      <4>. QED  BY <3>2, <3>3, <4>1, <4>2
    <3>5. other = Append(parts, text)
      BY <1>3, <3>1, <3>4
    <3>. QED  BY <3>2, <3>3, <3>5, Zenon
  <2>. QED  BY <1>2, <1>4, <1>7, <2>8, <2>9, Zenon
<1>. QED  BY <1>5, <1>6

\* What is written of a call.
WordsOf(call) == <<call.to, call.selector>> \o call.args

\* The commands of a call come to the device, from place p + 1 to p + n.
CallComes(d, s, ins, path, head, S, parts, closed, call, words, cmds, p, n) ==
  /\ ins \in {3, 4} /\ Len(head) = HeadLen(ins) /\ parts \in Seq(Seq(S)) /\ closed \in Nat
  /\ words = WordsOf(call) /\ words \in Seq(S) /\ Len(words) # 0
  /\ cmds = CallCommands(ins, HeadLen(ins) + 1, call)
  /\ p \in Nat /\ n \in Nat /\ n = Len(cmds) /\ p + n <= Len(s)
  /\ \A i \in 1 .. n : s[p + i] = cmds[i]
  /\ IsAt(d[p], ins, path, head, parts, FALSE, closed)

\* They are taken one by one, and the call is there when its end has been taken.
LEMMA CallIsCollected ==
  ASSUME NEW d, NEW s, IsTaking(d, s), Len(s) \in Nat,
         NEW ins, NEW path, NEW head, NEW S, NEW parts, NEW closed, NEW call, NEW words,
         NEW cmds, NEW p, NEW n,
         CallComes(d, s, ins, path, head, S, parts, closed, call, words, cmds, p, n)
  PROVE  /\ n # 0 /\ Takes(d, s, p, n)
         /\ IsAt(d[p + n], ins, path, head, Append(parts, words), FALSE, closed + 1)
<1>. SUFFICES ASSUME ins \in {3, 4}, Len(head) = HeadLen(ins), parts \in Seq(Seq(S)),
                     closed \in Nat, words = WordsOf(call), words \in Seq(S), Len(words) # 0,
                     cmds = CallCommands(ins, HeadLen(ins) + 1, call),
                     p \in Nat, n \in Nat, n = Len(cmds), p + n <= Len(s),
                     \A i \in 1 .. n : s[p + i] = cmds[i],
                     IsAt(d[p], ins, path, head, parts, FALSE, closed)
              PROVE  /\ n # 0 /\ Takes(d, s, p, n)
                     /\ IsAt(d[p + n], ins, path, head, Append(parts, words), FALSE, closed + 1)
  BY Zenon DEF CallComes
<1>1. PICK m \in Nat \ {0} : \E end : AreCuts(words, encodeCall(call), m, end)
  <2>1. Len(words) \in Nat \ {0}
    OBVIOUS
  <2>2. encodeCall(call) = Chunks(words)
    BY DEF encodeCall, WordsOf
  <2>3. PICK L \in Nat \ {0} : L = Len(words)
    BY <2>1
  <2>4. \E m \in Nat \ {0} : \E end : AreCuts(words, Chunks(words), m, end)
    BY <2>3, ChunksAreCut, Zenon
  <2>. QED  BY <2>2, <2>4
<1>2. PICK end : AreCuts(words, encodeCall(call), m, end)
  BY <1>1
<1>3. PICK chunks : chunks = encodeCall(call)
  OBVIOUS
<1>4. AreCuts(words, chunks, m, end) /\ Len(encodeCall(call)) = m
  BY <1>2, <1>3, Zenon DEF AreCuts
<1>5. PICK p1 : p1 = HeadLen(ins) + 1
  OBVIOUS
<1>6. /\ n = m + 1
      /\ \A k \in 1 .. m + 1 : cmds[k].ins = ins /\ cmds[k].p1 = p1
      /\ \A k \in 1 .. m : cmds[k].p2 = (IF k = 1 THEN 0 ELSE 1) /\ cmds[k].data = chunks[k]
      /\ cmds[m + 1].p2 = 2
  <2>1. AreOfCall(CallCommands(ins, p1, call), ins, p1, encodeCall(call), m)
    BY <1>4, CallCommandsOf
  <2>2. AreOfCall(cmds, ins, p1, chunks, m)
    BY <1>3, <1>5, <2>1
  <2>. QED  BY <2>2 DEF AreOfCall
<1>7. \A k \in 1 .. m + 1 : /\ d[p + k] = Collect(d[p + k - 1], cmds[k]) /\ s[p + k] = cmds[k]
                           /\ p + k - 1 = p + (k - 1)
  <2>. SUFFICES ASSUME NEW k \in 1 .. m + 1
                PROVE  d[p + k] = Collect(d[p + k - 1], cmds[k]) /\ s[p + k] = cmds[k]
                       /\ p + k - 1 = p + (k - 1)
    BY Zenon
  <2>1. p + k \in 1 .. Len(s) /\ (p + k) - 1 = p + k - 1 /\ p + k - 1 = p + (k - 1)
    BY <1>6
  <2>2. s[p + k] = cmds[k]
    BY <1>6
  <2>3. d[p + k] = Collect(d[(p + k) - 1], s[p + k])
    BY <2>1, TakingIs
  <2>. QED  BY <2>1, <2>2, <2>3
<1>. DEFINE At(k) == HasParts(d[p + k], ins, path, head, parts, words, end, k, closed)
            T == {k \in Nat : k \in 0 .. m => At(k)}
<1>8. 0 \in T
  <2>1. p + 0 = p
    OBVIOUS
  <2>2. At(0)
    BY <2>1, Zenon DEF HasParts
  <2>. QED  BY <2>2
<1>9. ASSUME NEW k \in 1 .. m, At(k - 1)
      PROVE  Accepts(d[p + k - 1], s[p + k]) /\ At(k)
  <2>1. PICK a : a = cmds[k]
    BY Zenon
  <2>2. PICK dev : dev = d[p + k - 1]
    BY Zenon
  <2>3. PICK new : new = d[p + k]
    BY Zenon
  <2>4. k \in 1 .. m + 1
    OBVIOUS
  <2>5. new = Collect(dev, a) /\ s[p + k] = a /\ p + k - 1 = p + (k - 1)
    BY <1>7, <2>1, <2>2, <2>3, <2>4, Zenon
  <2>6. a.ins = ins /\ a.p1 = HeadLen(ins) + 1 /\ a.p2 = (IF k = 1 THEN 0 ELSE 1) /\ a.data = chunks[k]
    BY <1>5, <1>6, <2>1, <2>4, Zenon
  <2>7. HasParts(dev, ins, path, head, parts, words, end, k - 1, closed)
    BY <1>9, <2>2, <2>5, Zenon
  <2>9. PartComes(dev, a, new, ins, path, head, parts, words, end, chunks, k, closed)
    BY <2>5, <2>6, <2>7, Zenon DEF PartComes
  <2>8. /\ Accepts(dev, a)
        /\ HasParts(new, ins, path, head, parts, words, end, k, closed)
    BY <1>4, <2>9, PartIsTaken, Zenon
  <2>. QED  BY <2>2, <2>3, <2>5, <2>8, Zenon
<1>. HIDE DEF At
<1>10. ASSUME NEW k \in Nat, k \in T
       PROVE  k + 1 \in T
  <2>. SUFFICES ASSUME k + 1 \in 0 .. m PROVE At(k + 1)
    OBVIOUS
  <2>1. k + 1 \in 1 .. m /\ (k + 1) - 1 = k /\ k \in 0 .. m
    OBVIOUS
  <2>2. At(k)
    BY <1>10, <2>1
  <2>3. At((k + 1) - 1)
    BY <2>1, <2>2
  <2>. QED  BY <1>9, <2>1, <2>3
<1>. HIDE DEF T
<1>11. Nat \subseteq T
  BY <1>8, <1>10, InductionOn, Zenon
<1>12. \A k \in 0 .. m : At(k)
  <2>1. \A k \in 0 .. m : k \in T
    BY <1>11
  <2>. QED  BY <2>1, Zenon DEF T
<1>13. \A k \in 1 .. m : At(k) /\ Accepts(d[p + k - 1], s[p + k])
  <2>. SUFFICES ASSUME NEW k \in 1 .. m PROVE At(k) /\ Accepts(d[p + k - 1], s[p + k])
    BY Zenon
  <2>1. k - 1 \in 0 .. m
    OBVIOUS
  <2>2. At(k - 1)
    BY <1>12, <2>1, Zenon
  <2>. QED  BY <1>9, <2>2, Zenon
<1>14. /\ Accepts(d[p + (m + 1) - 1], s[p + (m + 1)])
       /\ IsAt(d[p + (m + 1)], ins, path, head, Append(parts, words), FALSE, closed + 1)
  <2>1. PICK dev : dev = d[p + m]
    BY Zenon
  <2>2. PICK a : a = cmds[m + 1]
    BY Zenon
  <2>3. PICK new : new = d[p + (m + 1)]
    BY Zenon
  <2>4. m + 1 \in 1 .. m + 1 /\ m \in 1 .. m /\ p + (m + 1) - 1 = p + m /\ m # 0
    OBVIOUS
  <2>5. new = Collect(dev, a) /\ s[p + (m + 1)] = a /\ d[p + (m + 1) - 1] = dev
    <3>1. d[p + (m + 1)] = Collect(d[p + (m + 1) - 1], cmds[m + 1]) /\ s[p + (m + 1)] = cmds[m + 1]
      BY <1>7, <2>4, Zenon
    <3>2. d[p + (m + 1) - 1] = dev
      BY <2>1, <2>4
    <3>. QED  BY <2>2, <2>3, <3>1, <3>2, Zenon
  <2>6. a.ins = ins /\ a.p1 = HeadLen(ins) + 1 /\ a.p2 = 2
    BY <1>5, <1>6, <2>2, <2>4, Zenon
  <2>7. SubSeq(words, 1, end[m]) = words
    <3>1. IsCut(S, words, chunks, m, end, m)
      BY <1>4, <2>4, CutsAre, Zenon
    <3>. QED  BY <3>1, Zenon DEF IsCut
  <2>8. IsAt(dev, ins, path, head, Append(parts, words), TRUE, closed)
    <3>1. At(m)
      BY <1>13, <2>4, Zenon
    <3>. QED  BY <2>1, <2>4, <2>7, <3>1, Zenon DEF At, HasParts
  <2>10. Accepts(dev, a) /\ IsAt(new, ins, path, head, Append(parts, words), FALSE, closed + 1)
    <3>1. PICK more : more = Append(parts, words)
      BY Zenon
    <3>2. IsAt(dev, ins, path, head, more, TRUE, closed)
      BY <2>8, <3>1, Zenon
    <3>3. Accepts(dev, a) /\ IsAt(new, ins, path, head, more, FALSE, closed + 1)
      <4>1. EndComes(dev, a, new, ins, path, head, more, closed)
        BY <2>5, <2>6, <3>2, Zenon DEF EndComes
      <4>. QED  BY <4>1, EndIsTaken, Zenon
    <3>. QED  BY <3>1, <3>3, Zenon
  <2>. QED  BY <2>3, <2>5, <2>10, Zenon
<1>15. Takes(d, s, p, m + 1)
  <2>1. \A i \in 1 .. m + 1 : Accepts(d[p + i - 1], s[p + i])
    <3>1. \A i \in 1 .. m + 1 : i \in 1 .. m \/ i = m + 1
      OBVIOUS
    <3>. QED  BY <1>13, <1>14, <3>1, Zenon
  <2>2. ASSUME NEW i \in 1 .. (m + 1) - 1
        PROVE  ~IsComplete(d[p + i])
    <3>1. i \in 1 .. m /\ i # 0
      OBVIOUS
    <3>2. At(i)
      BY <1>13, <3>1, Zenon
    <3>3. d[p + i].ins = ins /\ d[p + i].open = TRUE
      BY <3>1, <3>2, Zenon DEF At, HasParts, IsAt
    <3>4. PICK dev : dev = d[p + i]
      BY Zenon
    <3>5. dev.ins \in {3, 4} /\ dev.open = TRUE
      BY <3>3, <3>4, Zenon
    <3>6. ~IsComplete(dev)
      <4>1. TakesCalls(dev.ins) /\ dev.ins # 2 /\ dev.ins \notin {5, 6}
        BY <3>5, SMTT(30) DEF TakesCalls
      <4>2. IsComplete(dev) => ~dev.open
        BY <4>1 DEF IsComplete
      <4>. QED  BY <3>5, <4>2, Zenon
    <3>. QED  BY <3>4, <3>6
  <2>. QED  BY <2>1, <2>2, Zenon DEF Takes
<1>16. m + 1 # 0 /\ n = m + 1
  BY <1>6
<1>. QED  BY <1>14, <1>15, <1>16, Zenon

------------------------------------------------------------------------------
(* The whole of a signature's commands.                                     *)

\* The device takes the first p commands, and is not complete before.
IsReached(d, s, p) ==
  /\ \A i \in 1 .. p : Accepts(d[i - 1], s[i])
  /\ \A i \in 1 .. p - 1 : ~IsComplete(d[i])

\* It takes n more.
LEMMA ReachesOn ==
  ASSUME NEW d, NEW s, NEW p \in Nat, NEW n \in Nat, IsReached(d, s, p), Takes(d, s, p, n),
         p # 0 => ~IsComplete(d[p])
  PROVE  IsReached(d, s, p + n)
<1>1. ASSUME NEW i \in 1 .. p + n
      PROVE  Accepts(d[i - 1], s[i])
  <2>1. CASE i <= p
    <3>1. i \in 1 .. p
      BY <2>1
    <3>. QED  BY <3>1, Zenon DEF IsReached
  <2>2. CASE ~(i <= p)
    <3>1. i - p \in 1 .. n /\ p + (i - p) - 1 = i - 1 /\ p + (i - p) = i
      BY <2>2
    <3>2. Accepts(d[p + (i - p) - 1], s[p + (i - p)])
      BY <3>1, Zenon DEF Takes
    <3>. QED  BY <3>1, <3>2
  <2>. QED  BY <2>1, <2>2
<1>2. ASSUME NEW i \in 1 .. (p + n) - 1
      PROVE  ~IsComplete(d[i])
  <2>1. CASE i < p
    <3>1. i \in 1 .. p - 1
      BY <2>1
    <3>. QED  BY <3>1, Zenon DEF IsReached
  <2>2. CASE i = p
    BY <2>2
  <2>3. CASE i > p
    <3>1. i - p \in 1 .. n - 1 /\ p + (i - p) = i
      BY <2>3
    <3>2. ~IsComplete(d[p + (i - p)])
      BY <3>1, Zenon DEF Takes
    <3>. QED  BY <3>1, <3>2
  <2>. QED  BY <2>1, <2>2, <2>3
<1>. QED  BY <1>1, <1>2, Zenon DEF IsReached

\* The data of the commands after the path.
HeadOf(s, k) == [i \in 1 .. k |-> s[i + 1].data]

\* A script begins with a path and the head of an instruction.
BeginsWith(s, ins) ==
  \A i \in 1 .. HeadLen(ins) + 1 : s[i].ins = ins /\ s[i].p1 = i - 1

\* One more part of a head.
LEMMA HeadGrows ==
  ASSUME NEW s, NEW k \in Nat, NEW S, \A i \in 1 .. k + 1 : s[i + 1].data \in S
  PROVE  /\ HeadOf(s, k) \in Seq(S) /\ Len(HeadOf(s, k)) = k
         /\ Append(HeadOf(s, k), s[k + 2].data) = HeadOf(s, k + 1)
<1>1. PICK h : h = HeadOf(s, k)
  OBVIOUS
<1>2. PICK g : g = HeadOf(s, k + 1)
  OBVIOUS
<1>3. h = [i \in 1 .. k |-> s[i + 1].data] /\ g = [i \in 1 .. k + 1 |-> s[i + 1].data]
  BY <1>1, <1>2 DEF HeadOf
<1>4. h \in [1 .. k -> S] /\ g \in [1 .. k + 1 -> S]
  BY <1>3
<1>5. h \in Seq(S) /\ Len(h) = k /\ g \in Seq(S) /\ Len(g) = k + 1
  BY <1>4, FunctionIsList
<1>6. PICK x \in S : x = s[k + 2].data
  <2>1. k + 1 \in 1 .. k + 1 /\ (k + 1) + 1 = k + 2
    OBVIOUS
  <2>2. s[(k + 1) + 1].data \in S
    BY <2>1
  <2>. QED  BY <2>1, <2>2
<1>7. g[k + 1] = x
  <2>1. k + 1 \in 1 .. k + 1 /\ (k + 1) + 1 = k + 2
    OBVIOUS
  <2>. QED  BY <1>3, <1>6, <2>1
<1>8. \A i \in 1 .. k : g[i] = h[i]
  BY <1>3
<1>9. Append(h, x) = g
  BY <1>5, <1>7, <1>8
<1>. QED  BY <1>1, <1>2, <1>5, <1>6, <1>9

\* A path and a head are taken.
LEMMA HeadIsCollected ==
  ASSUME NEW d, NEW s, IsTaking(d, s), Len(s) \in Nat, NEW ins \in 3 .. 6,
         NEW m \in Nat, m = HeadLen(ins), m < Len(s), BeginsWith(s, ins)
  PROVE  /\ IsReached(d, s, m + 1) /\ ~IsComplete(d[m + 1])
         /\ Len(HeadOf(s, m)) = m
         /\ IsAt(d[m + 1], ins, s[1].data, HeadOf(s, m), <<>>, FALSE, 0)
<1>1. PICK S : S = {s[i].data : i \in 1 .. m + 2}
  BY Zenon
<1>2. \A i \in 1 .. m + 1 : s[i].ins = ins /\ s[i].p1 = i - 1
  BY DEF BeginsWith
<1>3. \A i \in 1 .. m + 1 : d[i] = Collect(d[i - 1], s[i])
  <2>1. \A i \in 1 .. m + 1 : i \in 1 .. Len(s)
    OBVIOUS
  <2>. QED  BY <2>1, TakingIs
<1>4. PICK path : path = s[1].data
  OBVIOUS
<1>. DEFINE At(k) == /\ Accepts(d[k], s[k + 1]) /\ ~IsComplete(d[k + 1])
                     /\ IsAt(d[k + 1], ins, path, HeadOf(s, k), <<>>, FALSE, 0)
            T == {k \in Nat : k \in 0 .. m => At(k)}
<1>5. 0 \in T
  <2>1. PICK a : a = s[1]
    OBVIOUS
  <2>2. PICK dev : dev = d[0]
    OBVIOUS
  <2>3. PICK new : new = d[1]
    OBVIOUS
  <2>4. 1 \in 1 .. m + 1 /\ 1 - 1 = 0 /\ 0 + 1 = 1
    OBVIOUS
  <2>5. a.ins = ins /\ a.p1 = 0 /\ new = Collect(dev, a) /\ a.ins \in 2 .. 6
    BY <1>2, <1>3, <2>1, <2>2, <2>3, <2>4
  <2>6. /\ Accepts(dev, a) /\ ~IsComplete(new)
        /\ IsAt(new, a.ins, a.data, <<>>, <<>>, FALSE, 0)
    BY <2>5, PathIsTaken, Zenon
  <2>7. HeadOf(s, 0) = <<>>
    BY DEF HeadOf
  <2>8. Accepts(d[0], s[0 + 1]) /\ ~IsComplete(d[0 + 1])
        /\ IsAt(d[0 + 1], ins, path, HeadOf(s, 0), <<>>, FALSE, 0)
    BY <1>4, <2>1, <2>2, <2>3, <2>4, <2>5, <2>6, <2>7, Zenon
  <2>. QED  BY <2>8, Zenon
<1>6. ASSUME NEW k \in 0 .. m - 1, At(k)
      PROVE  At(k + 1)
  <2>1. PICK a : a = s[(k + 1) + 1]
    OBVIOUS
  <2>2. PICK dev : dev = d[k + 1]
    OBVIOUS
  <2>3. PICK new : new = d[(k + 1) + 1]
    OBVIOUS
  <2>4. /\ (k + 1) + 1 \in 1 .. m + 1 /\ ((k + 1) + 1) - 1 = k + 1 /\ (k + 1) + 1 = k + 2
        /\ k + 1 <= m
    OBVIOUS
  <2>5. a.ins = ins /\ a.p1 = k + 1 /\ new = Collect(dev, a)
    BY <1>2, <1>3, <2>1, <2>2, <2>3, <2>4
  <2>6. \A i \in 1 .. k + 1 : s[i + 1].data \in S
    <3>1. \A i \in 1 .. k + 1 : i + 1 \in 1 .. m + 2
      OBVIOUS
    <3>. QED  BY <1>1, <3>1, Zenon
  <2>7. /\ HeadOf(s, k) \in Seq(S) /\ Len(HeadOf(s, k)) = k
        /\ Append(HeadOf(s, k), s[k + 2].data) = HeadOf(s, k + 1)
    <3>1. k \in Nat
      OBVIOUS
    <3>. QED  BY <2>6, <3>1, HeadGrows, Zenon
  <2>8. PICK head \in Seq(S) : head = HeadOf(s, k) /\ Len(head) = k
    BY <2>7
  <2>9. IsAt(dev, ins, path, head, <<>>, FALSE, 0)
    BY <1>6, <2>2, <2>8, Zenon
  <2>10. a.p1 = Len(head) + 1 /\ a.p1 <= HeadLen(ins)
    BY <2>4, <2>5, <2>8
  <2>11. /\ Accepts(dev, a) /\ ~IsComplete(new)
         /\ IsAt(new, ins, path, Append(head, a.data), <<>>, FALSE, 0)
    BY <2>5, <2>9, <2>10, HeadIsTaken, Zenon
  <2>12. Append(head, a.data) = HeadOf(s, k + 1)
    BY <2>1, <2>4, <2>7, <2>8, Zenon
  <2>. QED  BY <2>1, <2>2, <2>3, <2>11, <2>12, Zenon
<1>. HIDE DEF At
<1>7. ASSUME NEW k \in Nat, k \in T
      PROVE  k + 1 \in T
  <2>. SUFFICES ASSUME k + 1 \in 0 .. m PROVE At(k + 1)
    OBVIOUS
  <2>1. k \in 0 .. m - 1 /\ k \in 0 .. m
    OBVIOUS
  <2>2. At(k)
    BY <1>7, <2>1
  <2>. QED  BY <1>6, <2>1, <2>2
<1>. HIDE DEF T
<1>8. Nat \subseteq T
  BY <1>5, <1>7, InductionOn, Zenon
<1>9. \A k \in 0 .. m : At(k)
  <2>1. \A k \in 0 .. m : k \in T
    BY <1>8
  <2>. QED  BY <2>1, Zenon DEF T
<1>10. ASSUME NEW i \in 1 .. m + 1
       PROVE  Accepts(d[i - 1], s[i]) /\ ~IsComplete(d[i])
  <2>1. i - 1 \in 0 .. m /\ (i - 1) + 1 = i
    OBVIOUS
  <2>2. At(i - 1)
    BY <1>9, <2>1, Zenon
  <2>3. Accepts(d[i - 1], s[(i - 1) + 1]) /\ ~IsComplete(d[(i - 1) + 1])
    BY <2>2, Zenon DEF At
  <2>. QED  BY <2>1, <2>3
<1>11. IsReached(d, s, m + 1)
  <2>1. \A i \in 1 .. (m + 1) - 1 : i \in 1 .. m + 1
    OBVIOUS
  <2>. QED  BY <1>10, <2>1, Zenon DEF IsReached
<1>12. ~IsComplete(d[m + 1]) /\ IsAt(d[m + 1], ins, path, HeadOf(s, m), <<>>, FALSE, 0)
  <2>1. m \in 0 .. m
    OBVIOUS
  <2>. QED  BY <1>9, <2>1, Zenon DEF At
<1>13. Len(HeadOf(s, m)) = m
  <2>1. \A i \in 1 .. m + 1 : s[i + 1].data \in S
    <3>1. \A i \in 1 .. m + 1 : i + 1 \in 1 .. m + 2
      OBVIOUS
    <3>. QED  BY <1>1, <3>1, Zenon
  <2>. QED  BY <2>1, HeadGrows, Zenon
<1>. QED  BY <1>4, <1>11, <1>12, <1>13, Zenon

\* Lists written one after the other: the b-th ends at at[b].
IsWritten(flat, seqs, n, at) ==
  /\ at \in [0 .. n -> Nat] /\ at[0] = 0 /\ at[n] = Len(flat)
  /\ \A b \in 1 .. n : /\ at[b] = at[b - 1] + Len(seqs[b]) /\ at[b] <= Len(flat)
                       /\ \A i \in 1 .. Len(seqs[b]) : flat[at[b - 1] + i] = seqs[b][i]

\* FlattenSeq writes them so.
LEMMA FlattenIsWritten ==
  ASSUME NEW X, NEW seqs \in Seq(Seq(X)), NEW n \in Nat \ {0}, n = Len(seqs)
  PROVE  /\ FlattenSeq(seqs) \in Seq(X)
         /\ \E at : IsWritten(FlattenSeq(seqs), seqs, n, at)
<1>1. PICK f : IsJoining(f, seqs, n) /\ FlattenSeq(seqs) = f[n]
  BY FlattenIsJoined
<1>2. \A i \in 1 .. n : f[i] = IF i = 1 THEN seqs[i] ELSE f[i - 1] \o seqs[i]
  BY <1>1, Zenon DEF IsJoining
<1>3. PICK at : at = [b \in 0 .. n |-> IF b = 0 THEN 0 ELSE Len(f[b])]
  BY Zenon
<1>4. \A b \in 1 .. n : seqs[b] \in Seq(X)
  BY Zenon, ElementOfSeq
<1>. DEFINE Fine(k) == /\ f[k] \in Seq(X) /\ \A b \in 0 .. k : at[b] \in Nat
                       /\ \A b \in 1 .. k : /\ at[b] = at[b - 1] + Len(seqs[b]) /\ at[b] <= Len(f[k])
                                            /\ \A i \in 1 .. Len(seqs[b]) :
                                                 f[k][at[b - 1] + i] = seqs[b][i]
            T == {k \in Nat : k \in 1 .. n => Fine(k)}
<1>5. 0 \in T
  OBVIOUS
<1>6. ASSUME n >= 1
      PROVE  Fine(1)
  <2>1. PICK u \in Seq(X) : u = seqs[1]
    BY <1>4, <1>6
  <2>2. f[1] = u
    BY <1>2, <1>6, <2>1
  <2>3. at[0] = 0 /\ at[1] = Len(u)
    BY <1>3, <1>6, <2>2
  <2>4. ASSUME NEW b \in 1 .. 1
        PROVE  /\ at[b] = at[b - 1] + Len(seqs[b]) /\ at[b] <= Len(f[1])
               /\ \A i \in 1 .. Len(seqs[b]) : f[1][at[b - 1] + i] = seqs[b][i]
    <3>1. b = 1 /\ b - 1 = 0
      OBVIOUS
    <3>2. \A i \in 1 .. Len(u) : 0 + i = i
      OBVIOUS
    <3>3. Len(u) = 0 + Len(u) /\ Len(u) <= Len(u)
      OBVIOUS
    <3>. QED  BY <2>1, <2>2, <2>3, <3>1, <3>2, <3>3, Zenon
  <2>5. ASSUME NEW b \in 0 .. 1 PROVE at[b] \in Nat
    <3>1. b = 0 \/ b = 1
      OBVIOUS
    <3>. QED  BY <2>3, <3>1
  <2>. QED  BY <2>1, <2>2, <2>4, <2>5, Zenon
<1>7. ASSUME NEW k \in Nat, k \in T
      PROVE  k + 1 \in T
  <2>. SUFFICES ASSUME k + 1 \in 1 .. n PROVE Fine(k + 1)
    OBVIOUS
  <2>1. CASE k = 0
    <3>1. k + 1 = 1 /\ n >= 1
      BY <2>1
    <3>. HIDE DEF Fine
    <3>. QED  BY <1>6, <3>1
  <2>2. CASE k # 0
    <3>1. k \in 1 .. n /\ (k + 1) - 1 = k /\ k + 1 # 1 /\ k # 0 /\ k + 1 # 0 /\ k \in 0 .. n
          /\ k + 1 \in 0 .. n
      BY <2>2
    <3>2. Fine(k)
      BY <1>7, <3>1
    <3>3. PICK u \in Seq(X) : u = f[k]
      BY <3>2
    <3>4. PICK v \in Seq(X) : v = seqs[k + 1]
      BY <1>4
    <3>5. PICK w : w = u \o v
      BY Zenon
    <3>6. f[k + 1] = w
      <4>1. f[k + 1] = f[(k + 1) - 1] \o seqs[k + 1]
        BY <1>2, <3>1, Zenon
      <4>2. f[(k + 1) - 1] = u
        BY <3>1, <3>3
      <4>. QED  BY <3>4, <3>5, <4>1, <4>2
    <3>7. PICK x \in Nat : x = Len(u)
      OBVIOUS
    <3>8. PICK y \in Nat : y = Len(v)
      OBVIOUS
    <3>9. /\ w \in Seq(X) /\ Len(w) = x + y
          /\ \A i \in 1 .. x + y : w[i] = IF i <= x THEN u[i] ELSE v[i - x]
      <4>1. /\ u \o v \in Seq(X) /\ Len(u \o v) = Len(u) + Len(v)
            /\ \A i \in 1 .. Len(u) + Len(v) :
                 (u \o v)[i] = IF i <= Len(u) THEN u[i] ELSE v[i - Len(u)]
        BY ConcatProperties, Zenon
      <4>. QED  BY <3>5, <3>7, <3>8, <4>1, Zenon
    <3>10. at[k] = x /\ at[k + 1] = x + y
      <4>1. at[k] = Len(f[k]) /\ at[k + 1] = Len(f[k + 1])
        BY <1>3, <3>1, Zenon
      <4>. QED  BY <3>3, <3>6, <3>7, <3>9, <4>1
    <3>11. ASSUME NEW b \in 1 .. k + 1
           PROVE  /\ at[b] = at[b - 1] + Len(seqs[b]) /\ at[b] <= Len(w)
                  /\ \A i \in 1 .. Len(seqs[b]) : w[at[b - 1] + i] = seqs[b][i]
      <4>1. CASE b = k + 1
        <5>1. b - 1 = k
          BY <4>1
        <5>2. at[b] = x + y /\ at[b - 1] = x /\ seqs[b] = v
          BY <3>4, <3>10, <4>1, <5>1
        <5>3. ASSUME NEW i \in 1 .. y
              PROVE  w[x + i] = v[i]
          <6>1. x + i \in 1 .. x + y /\ ~(x + i <= x) /\ (x + i) - x = i
            OBVIOUS
          <6>2. w[x + i] = v[(x + i) - x]
            BY <3>9, <6>1, Zenon
          <6>. QED  BY <6>1, <6>2, Zenon
        <5>4. x + y <= x + y
          OBVIOUS
        <5>. QED  BY <3>8, <3>9, <5>2, <5>3, <5>4, Zenon
      <4>2. CASE b # k + 1
        <5>1. b \in 1 .. k
          BY <4>2
        <5>2. b \in 1 .. n /\ b \in 0 .. n /\ b - 1 \in 0 .. n
          BY <3>1, <5>1
        <5>3. PICK z \in Nat : z = at[b - 1]
          <6>1. b - 1 \in 0 .. k
            BY <5>1
          <6>2. at[b - 1] \in Nat
            BY <3>2, <6>1, Zenon
          <6>. QED  BY <6>2
        <5>4. PICK t \in Seq(X) : t = seqs[b]
          BY <1>4, <5>2
        <5>5. /\ at[b] = z + Len(t) /\ at[b] <= x
              /\ \A i \in 1 .. Len(t) : u[z + i] = t[i]
          <6>1. /\ at[b] = at[b - 1] + Len(seqs[b]) /\ at[b] <= Len(f[k])
                /\ \A i \in 1 .. Len(seqs[b]) : f[k][at[b - 1] + i] = seqs[b][i]
            BY <3>2, <5>1, Zenon
          <6>. QED  BY <3>3, <3>7, <5>3, <5>4, <6>1, Zenon
        <5>6. at[b] <= x + y
          BY <5>5
        <5>7. ASSUME NEW i \in 1 .. Len(t)
              PROVE  w[z + i] = t[i]
          <6>1. z + i \in 1 .. x + y /\ z + i <= x
            BY <5>5
          <6>2. w[z + i] = u[z + i]
            BY <3>9, <6>1, Zenon
          <6>. QED  BY <5>5, <6>2
        <5>. QED  BY <3>9, <5>3, <5>4, <5>5, <5>6, <5>7, Zenon
      <4>. QED  BY <4>1, <4>2
    <3>12. ASSUME NEW b \in 0 .. k + 1 PROVE at[b] \in Nat
      <4>1. b \in 0 .. k \/ b = k + 1
        OBVIOUS
      <4>2. x + y \in Nat
        OBVIOUS
      <4>. QED  BY <3>2, <3>10, <4>1, <4>2, Zenon
    <3>. QED  BY <3>6, <3>9, <3>11, <3>12, Zenon
  <2>. QED  BY <2>1, <2>2
<1>. HIDE DEF Fine, T
<1>8. Nat \subseteq T
  BY <1>5, <1>7, InductionOn, Zenon
<1>9. Fine(n)
  <2>1. n \in T /\ n \in 1 .. n
    BY <1>8
  <2>. QED  BY <2>1, Zenon DEF T
<1>10. /\ f[n] \in Seq(X) /\ \A b \in 0 .. n : at[b] \in Nat
       /\ \A b \in 1 .. n : /\ at[b] = at[b - 1] + Len(seqs[b]) /\ at[b] <= Len(f[n])
                            /\ \A i \in 1 .. Len(seqs[b]) : f[n][at[b - 1] + i] = seqs[b][i]
  BY <1>9, Zenon DEF Fine
<1>11. at \in [0 .. n -> Nat]
  <2>1. at = [b \in 0 .. n |-> at[b]]
    BY <1>3
  <2>. QED  BY <1>10, <2>1
<1>12. at[0] = 0 /\ at[n] = Len(f[n])
  BY <1>3
<1>13. IsWritten(f[n], seqs, n, at)
  BY <1>10, <1>11, <1>12, Zenon DEF IsWritten
<1>. QED  BY <1>1, <1>10, <1>13

\* What the device has of the first b calls.
PartsOf(calls, b) == [i \in 1 .. b |-> WordsOf(calls[i])]

\* All of a list of calls is in the script after the head.
HasCalls(s, ins, p, calls) ==
  LET flat == CallsCommands(ins, HeadLen(ins) + 1, calls)
  IN Len(s) = p + Len(flat) /\ \A i \in 1 .. Len(flat) : s[p + i] = flat[i]

\* Words of calls are lists of the same set.
LEMMA CallWords ==
  ASSUME NEW calls, AreCalls(calls), NEW S,
         S = UNION {{calls[i].to, calls[i].selector}
                      \union {calls[i].args[k] : k \in DOMAIN calls[i].args} : i \in DOMAIN calls}
  PROVE  \A i \in DOMAIN calls : /\ WordsOf(calls[i]) \in Seq(S)
                                 /\ Len(WordsOf(calls[i])) = Len(calls[i].args) + 2
                                 /\ Len(calls[i].args) \in Nat
<1>. SUFFICES ASSUME NEW i \in DOMAIN calls
              PROVE  /\ WordsOf(calls[i]) \in Seq(S)
                     /\ Len(WordsOf(calls[i])) = Len(calls[i].args) + 2
                     /\ Len(calls[i].args) \in Nat
  OBVIOUS
<1>1. PICK call : call = calls[i]
  OBVIOUS
<1>2. PICK R : R = {call.args[k] : k \in DOMAIN call.args}
  BY Zenon
<1>3. call.args \in Seq(R)
  <2>1. IsList(call.args)
    BY <1>1 DEF AreCalls
  <2>. QED  BY <1>2, <2>1 DEF IsList
<1>4. call.to \in S /\ call.selector \in S /\ R \subseteq S
  BY <1>1, <1>2
<1>5. PICK args \in Seq(S) : args = call.args
  <2>1. call.args \in Seq(S)
    BY <1>3, <1>4, SubsetList
  <2>. QED  BY <2>1, Zenon
<1>6. PICK two \in Seq(S) : two = <<call.to, call.selector>> /\ Len(two) = 2
  <2>1. PICK x \in S : x = call.to
    BY <1>4
  <2>2. PICK y \in S : y = call.selector
    BY <1>4
  <2>3. <<x, y>> \in Seq(S) /\ Len(<<x, y>>) = 2
    OBVIOUS
  <2>. QED  BY <2>1, <2>2, <2>3, Zenon
<1>7. two \o args \in Seq(S) /\ Len(two \o args) = Len(args) + 2
  BY <1>6
<1>. QED  BY <1>1, <1>5, <1>6, <1>7 DEF WordsOf

\* The words of the first b + 1 calls are lists.
HaveWords(S, calls, b) == \A i \in 1 .. b + 1 : WordsOf(calls[i]) \in Seq(S)

\* One more call adds its part.
HaveParts(S, calls, b) ==
  /\ PartsOf(calls, b) \in Seq(Seq(S)) /\ Len(PartsOf(calls, b)) = b
  /\ Append(PartsOf(calls, b), WordsOf(calls[b + 1])) = PartsOf(calls, b + 1)

\* The parts of one more call.
LEMMA PartsGrow ==
  ASSUME NEW S, NEW calls, NEW b \in Nat, HaveWords(S, calls, b)
  PROVE  HaveParts(S, calls, b)
<1>1. PICK h : h = PartsOf(calls, b)
  OBVIOUS
<1>2. PICK g : g = PartsOf(calls, b + 1)
  OBVIOUS
<1>3. PICK T : T = Seq(S)
  OBVIOUS
<1>4. h = [i \in 1 .. b |-> WordsOf(calls[i])] /\ g = [i \in 1 .. b + 1 |-> WordsOf(calls[i])]
  BY <1>1, <1>2 DEF PartsOf
<1>5. \A i \in 1 .. b + 1 : WordsOf(calls[i]) \in T
  BY <1>3 DEF HaveWords
<1>6. h \in [1 .. b -> T] /\ g \in [1 .. b + 1 -> T]
  BY <1>4, <1>5
<1>7. h \in Seq(T) /\ Len(h) = b /\ g \in Seq(T) /\ Len(g) = b + 1
  BY <1>6, FunctionIsList
<1>8. PICK x \in T : x = WordsOf(calls[b + 1])
  BY <1>5
<1>9. g[b + 1] = x /\ \A i \in 1 .. b : g[i] = h[i]
  BY <1>4, <1>8
<1>10. Append(h, x) = g
  BY <1>7, <1>9
<1>. QED  BY <1>1, <1>2, <1>3, <1>7, <1>8, <1>10, Zenon DEF HaveParts

\* The commands of the calls, one call after the other.
LEMMA CallsAreWritten ==
  ASSUME NEW calls, AreCalls(calls), NEW n \in Nat \ {0}, n = Len(calls), NEW ins \in {3, 4},
         NEW p1 \in Nat \ {0}
  PROVE  \E at : IsWritten(CallsCommands(ins, p1, calls),
                           [i \in 1 .. n |-> CallCommands(ins, p1, calls[i])], n, at)
<1>1. /\ DOMAIN calls = 1 .. n
      /\ \A i \in 1 .. n : IsList(calls[i].args)
  BY DEF AreCalls, IsList
<1>2. PICK Data : Data = {<<>>} \union UNION {{encodeCall(calls[i])[k] : k \in Nat} : i \in DOMAIN calls}
  BY Zenon
<1>3. PICK X : X = LaterSet(Data)
  OBVIOUS
<1>4. PICK seqs : seqs = [i \in 1 .. n |-> CallCommands(ins, p1, calls[i])]
  BY Zenon
<1>5. \A i \in 1 .. n : CallCommands(ins, p1, calls[i]) \in Seq(X)
  <2>. SUFFICES ASSUME NEW i \in 1 .. n
                PROVE  CallCommands(ins, p1, calls[i]) \in Seq(X)
    OBVIOUS
  <2>1. PICK call : call = calls[i]
    OBVIOUS
  <2>2. IsList(call.args) /\ <<>> \in Data /\ \A k \in Nat : encodeCall(call)[k] \in Data
    BY <1>1, <1>2, <2>1
  <2>3. CallCommands(ins, p1, call) \in EndsIn(LaterSet(Data), AwaitedSet(Data))
    BY <2>2, CallCommandsAre
  <2>. QED  BY <1>3, <2>1, <2>3 DEF EndsIn
<1>6. PICK T : T = Seq(X)
  OBVIOUS
<1>7. seqs \in [1 .. n -> T]
  BY <1>4, <1>5, <1>6
<1>8. seqs \in Seq(T) /\ Len(seqs) = n
  BY <1>7, FunctionIsList
<1>9. \E at : IsWritten(FlattenSeq(seqs), seqs, n, at)
  BY <1>6, <1>8, FlattenIsWritten
<1>10. CallsCommands(ins, p1, calls) = FlattenSeq(seqs)
  BY <1>1, <1>4 DEF CallsCommands
<1>. QED  BY <1>4, <1>9, <1>10, Zenon

\* A device that takes calls is complete when it has as many as were announced.
LEMMA CompleteWithCalls ==
  ASSUME NEW dev, NEW ins \in {3, 4}, NEW path, NEW head, Len(head) = HeadLen(ins),
         NEW parts, NEW b \in Nat, NEW n \in Nat \ {0}, head[HeadLen(ins)][1][2] = n,
         IsAt(dev, ins, path, head, parts, FALSE, b)
  PROVE  IsComplete(dev) <=> b >= n
<1>1. /\ dev.ins = ins /\ dev.head = head /\ dev.open = FALSE /\ dev.closed = b
  BY DEF IsAt
<1>2. TakesCalls(dev.ins) /\ dev.ins # 2 /\ dev.ins \notin {5, 6}
  BY <1>1 DEF TakesCalls
<1>3. Announced(dev) = n
  BY <1>1 DEF Announced
<1>4. IsComplete(dev) <=> /\ Len(dev.head) = HeadLen(dev.ins) /\ ~dev.open /\ dev.closed > 0
                          /\ dev.closed >= Announced(dev)
  BY <1>2 DEF IsComplete
<1>. QED  BY <1>1, <1>3, <1>4

\* The device is at the end of the b-th of n calls, which ends at p + at.
AfterCalls(d, s, ins, path, head, calls, b, n, at) ==
  /\ IsReached(d, s, at)
  /\ IsAt(d[at], ins, path, head, PartsOf(calls, b), FALSE, b)
  /\ IsComplete(d[at]) <=> b >= n

\* What is known of a script of calls.
TellsCalls(d, s, ins, path, head, calls, n, p) ==
  /\ ins \in {3, 4} /\ Len(head) = HeadLen(ins) /\ head[HeadLen(ins)][1][2] = n
  /\ AreCalls(calls) /\ n \in Nat \ {0} /\ n = Len(calls)
  /\ p \in Nat /\ HasCalls(s, ins, p, calls)
  /\ IsReached(d, s, p) /\ ~IsComplete(d[p]) /\ IsAt(d[p], ins, path, head, <<>>, FALSE, 0)

\* All calls are taken, and only the end of the last completes them.
LEMMA CallsAreCollected ==
  ASSUME NEW d, NEW s, IsTaking(d, s), Len(s) \in Nat,
         NEW ins, NEW path, NEW head, NEW calls, NEW n, NEW p,
         TellsCalls(d, s, ins, path, head, calls, n, p)
  PROVE  AfterCalls(d, s, ins, path, head, calls, n, n, Len(s))
<1>. SUFFICES ASSUME ins \in {3, 4}, Len(head) = HeadLen(ins), head[HeadLen(ins)][1][2] = n,
                     AreCalls(calls), n \in Nat \ {0}, n = Len(calls),
                     p \in Nat, HasCalls(s, ins, p, calls),
                     IsReached(d, s, p), ~IsComplete(d[p]),
                     IsAt(d[p], ins, path, head, <<>>, FALSE, 0)
              PROVE  AfterCalls(d, s, ins, path, head, calls, n, n, Len(s))
  BY Zenon DEF TellsCalls
<1>1. PICK p1 \in Nat \ {0} : p1 = HeadLen(ins) + 1
  BY DEF HeadLen
<1>2. PICK flat : flat = CallsCommands(ins, p1, calls)
  OBVIOUS
<1>3. PICK seqs : seqs = [i \in 1 .. n |-> CallCommands(ins, p1, calls[i])]
  BY Zenon
<1>4. \E at : IsWritten(flat, seqs, n, at)
  <2>1. \E at : IsWritten(CallsCommands(ins, p1, calls),
                           [i \in 1 .. n |-> CallCommands(ins, p1, calls[i])], n, at)
    BY CallsAreWritten, Zenon
  <2>. QED  BY <1>2, <1>3, <2>1, Zenon
<1>5. PICK at : IsWritten(flat, seqs, n, at)
  BY <1>4
<1>6. /\ at \in [0 .. n -> Nat] /\ at[0] = 0 /\ at[n] = Len(flat)
      /\ \A b \in 1 .. n : /\ at[b] = at[b - 1] + Len(seqs[b]) /\ at[b] <= Len(flat)
                           /\ \A i \in 1 .. Len(seqs[b]) : flat[at[b - 1] + i] = seqs[b][i]
  BY <1>5 DEF IsWritten
<1>7. Len(s) = p + Len(flat) /\ \A i \in 1 .. Len(flat) : s[p + i] = flat[i]
  BY <1>1, <1>2, Zenon DEF HasCalls
<1>8. PICK S : S = UNION {{calls[i].to, calls[i].selector}
                      \union {calls[i].args[k] : k \in DOMAIN calls[i].args} : i \in DOMAIN calls}
  BY Zenon
<1>9. \A i \in 1 .. n : /\ WordsOf(calls[i]) \in Seq(S) /\ Len(WordsOf(calls[i])) # 0
  <2>1. DOMAIN calls = 1 .. n
    BY DEF AreCalls, IsList
  <2>2. \A i \in DOMAIN calls : /\ WordsOf(calls[i]) \in Seq(S)
                                /\ Len(WordsOf(calls[i])) = Len(calls[i].args) + 2
                                /\ Len(calls[i].args) \in Nat
    BY <1>8, CallWords, Zenon
  <2>. QED  BY <2>1, <2>2
<1>. DEFINE At(b) == AfterCalls(d, s, ins, path, head, calls, b, n, p + at[b])
            T == {b \in Nat : b \in 0 .. n => At(b)}
<1>10. 0 \in T
  <2>1. p + at[0] = p /\ ~(0 >= n)
    BY <1>6
  <2>2. PartsOf(calls, 0) = <<>>
    BY DEF PartsOf
  <2>3. AfterCalls(d, s, ins, path, head, calls, 0, n, p)
    BY <2>1, <2>2, Zenon DEF AfterCalls
  <2>4. At(0)
    BY <2>1, <2>3
  <2>. QED  BY <2>4
<1>11. ASSUME NEW b \in 0 .. n - 1, At(b)
       PROVE  At(b + 1)
  <2>1. b + 1 \in 1 .. n /\ (b + 1) - 1 = b /\ b \in 0 .. n /\ b + 1 \in 0 .. n
    OBVIOUS
  <2>2. PICK q \in Nat : q = p + at[b]
    BY <1>6, <2>1
  <2>3. PICK call : call = calls[b + 1]
    OBVIOUS
  <2>4. PICK cmds : cmds = CallCommands(ins, p1, call)
    OBVIOUS
  <2>5. seqs[b + 1] = cmds
    BY <1>3, <2>1, <2>3, <2>4
  <2>6. PICK x \in Nat : x = at[b]
    BY <1>6, <2>1, Zenon
  <2>7. PICK y \in Nat : y = at[b + 1]
    BY <1>6, <2>1, Zenon
  <2>8. PICK l \in Nat : l = Len(flat)
    BY <1>6
  <2>9. y = x + Len(cmds) /\ y <= l /\ \A i \in 1 .. Len(cmds) : flat[x + i] = cmds[i]
    <3>1. /\ at[b + 1] = at[(b + 1) - 1] + Len(seqs[b + 1]) /\ at[b + 1] <= Len(flat)
          /\ \A i \in 1 .. Len(seqs[b + 1]) : flat[at[(b + 1) - 1] + i] = seqs[b + 1][i]
      BY <1>6, <2>1, Zenon
    <3>2. at[(b + 1) - 1] = x
      BY <2>1, <2>6
    <3>. QED  BY <2>5, <2>6, <2>7, <2>8, <3>1, <3>2, Zenon
  <2>10. PICK m \in Nat : m = Len(cmds)
    <3>1. AreCalls(calls) /\ \A i \in DOMAIN calls : IsList(calls[i].args)
      BY DEF AreCalls
    <3>2. DOMAIN calls = 1 .. n
      BY <3>1 DEF AreCalls, IsList
    <3>3. IsList(call.args)
      BY <2>1, <2>3, <3>1, <3>2, Zenon
    <3>4. PICK Data : Data = {<<>>} \union {encodeCall(call)[k] : k \in Nat}
      BY Zenon
    <3>5. <<>> \in Data /\ \A k \in Nat : encodeCall(call)[k] \in Data
      BY <3>4
    <3>6. cmds \in EndsIn(LaterSet(Data), AwaitedSet(Data))
      BY <2>4, <3>3, <3>5, CallCommandsAre
    <3>7. cmds \in Seq(LaterSet(Data))
      BY <3>6 DEF EndsIn
    <3>8. Len(cmds) \in Nat
      BY <3>7
    <3>. QED  BY <3>8
  <2>26. y = x + m /\ y <= l /\ q = p + x
    BY <2>2, <2>6, <2>9, <2>10, Zenon
  <2>11. \A i \in 1 .. m : s[q + i] = cmds[i]
    <3>. SUFFICES ASSUME NEW i \in 1 .. m PROVE s[q + i] = cmds[i]
      OBVIOUS
    <3>1. x + i \in 1 .. l /\ q + i = p + (x + i)
      <4>1. x + m <= l /\ q = p + x
        BY <2>26, Zenon
      <4>2. (p + x) + i = p + (x + i)
        OBVIOUS
      <4>3. x + i \in 1 .. l
        BY <4>1
      <4>. QED  BY <4>1, <4>2, <4>3, Zenon
    <3>2. s[p + (x + i)] = flat[x + i]
      BY <1>7, <2>8, <3>1, Zenon
    <3>3. flat[x + i] = cmds[i]
      BY <2>9, <2>10, Zenon
    <3>. QED  BY <3>1, <3>2, <3>3, Zenon
  <2>12. q + m <= Len(s) /\ q + m = p + at[b + 1]
    <3>1. q + m = p + y /\ p + y <= p + l
      BY <2>26
    <3>. QED  BY <1>7, <2>7, <2>8, <3>1, Zenon
  <2>13. \A i \in 1 .. b + 1 : WordsOf(calls[i]) \in Seq(S)
    <3>1. \A i \in 1 .. b + 1 : i \in 1 .. n
      BY <2>1
    <3>. QED  BY <1>9, <3>1, Zenon
  <2>14. PICK parts : parts = PartsOf(calls, b)
    OBVIOUS
  <2>15. PICK words : words = WordsOf(call)
    OBVIOUS
  <2>16. parts \in Seq(Seq(S)) /\ Append(parts, words) = PartsOf(calls, b + 1)
    <3>1. b \in Nat
      OBVIOUS
    <3>2. PartsOf(calls, b) \in Seq(Seq(S))
          /\ Append(PartsOf(calls, b), WordsOf(calls[b + 1])) = PartsOf(calls, b + 1)
      <4>1. HaveWords(S, calls, b)
        BY <2>13, Zenon DEF HaveWords
      <4>2. HaveParts(S, calls, b)
        BY <3>1, <4>1, PartsGrow, Zenon
      <4>. QED  BY <4>2, Zenon DEF HaveParts
    <3>. QED  BY <2>3, <2>14, <2>15, <3>2, Zenon
  <2>17. /\ IsReached(d, s, q) /\ ~IsComplete(d[q])
         /\ IsAt(d[q], ins, path, head, parts, FALSE, b)
    <3>1. ~(b >= n)
      OBVIOUS
    <3>. QED  BY <1>11, <2>2, <2>14, <3>1, Zenon DEF AfterCalls
  <2>18. CallComes(d, s, ins, path, head, S, parts, b, call, words, cmds, q, m)
    <3>1. words \in Seq(S) /\ Len(words) # 0 /\ b \in Nat
      BY <1>9, <2>1, <2>3, <2>15
    <3>2. cmds = CallCommands(ins, HeadLen(ins) + 1, call)
      BY <1>1, <2>4, Zenon
    <3>. QED  BY <2>10, <2>11, <2>12, <2>15, <2>16, <2>17, <3>1, <3>2, Zenon DEF CallComes
  <2>19. /\ m # 0 /\ Takes(d, s, q, m)
         /\ IsAt(d[q + m], ins, path, head, Append(parts, words), FALSE, b + 1)
    BY <2>18, CallIsCollected, Zenon
  <2>20. IsReached(d, s, q + m)
    BY <2>17, <2>19, ReachesOn
  <2>21. PICK dev : dev = d[q + m]
    OBVIOUS
  <2>22. PICK more : more = Append(parts, words)
    BY Zenon
  <2>23. IsAt(dev, ins, path, head, more, FALSE, b + 1)
    BY <2>19, <2>21, <2>22, Zenon
  <2>24. IsComplete(dev) <=> b + 1 >= n
    <3>1. b + 1 \in Nat
      OBVIOUS
    <3>. QED  BY <2>23, <3>1, CompleteWithCalls, Zenon
  <2>25. AfterCalls(d, s, ins, path, head, calls, b + 1, n, q + m)
    BY <2>16, <2>19, <2>20, <2>21, <2>24, Zenon DEF AfterCalls
  <2>. QED  BY <2>12, <2>25
<1>. HIDE DEF At
<1>12. ASSUME NEW b \in Nat, b \in T
       PROVE  b + 1 \in T
  <2>. SUFFICES ASSUME b + 1 \in 0 .. n PROVE At(b + 1)
    OBVIOUS
  <2>1. b \in 0 .. n - 1 /\ b \in 0 .. n
    OBVIOUS
  <2>2. At(b)
    BY <1>12, <2>1
  <2>. QED  BY <1>11, <2>1, <2>2
<1>. HIDE DEF T
<1>13. Nat \subseteq T
  BY <1>10, <1>12, InductionOn, Zenon
<1>14. At(n)
  <2>1. n \in T /\ n \in 0 .. n
    BY <1>13
  <2>. QED  BY <2>1, Zenon DEF T
<1>15. p + at[n] = Len(s)
  BY <1>6, <1>7
<1>. QED  BY <1>14, <1>15 DEF At

\* The first k parts.
FirstOf(cuts, k) == [i \in 1 .. k |-> cuts[i]]

\* The list up to the end of its i-th part.
Beginning(words, end, i) == SubSeq(words, 1, end[i])

\* A list that is cut into m parts, of which k are wanted.
HasCuts(words, cuts, m, end, k) ==
  IsList(words) /\ m \in Nat \ {0} /\ AreCuts(words, cuts, m, end) /\ k \in 1 .. m

\* These parts are the beginning of it.
JoinsTo(words, cuts, m, end, k) == FlattenSeq(FirstOf(cuts, k)) = Beginning(words, end, k)

\* The parts of a list, written one after the other, are its beginning.
LEMMA FlattenOfCuts ==
  ASSUME NEW words, NEW m, NEW end, NEW cuts, NEW k, HasCuts(words, cuts, m, end, k)
  PROVE  JoinsTo(words, cuts, m, end, k)
<1>. SUFFICES ASSUME IsList(words), m \in Nat \ {0}, AreCuts(words, cuts, m, end), k \in 1 .. m
              PROVE  FlattenSeq(FirstOf(cuts, k)) = Beginning(words, end, k)
  BY Zenon DEF HasCuts, JoinsTo
<1>0. PICK S : words \in Seq(S)
  BY DEF IsList
<1>1. PICK seqs : seqs = FirstOf(cuts, k)
  OBVIOUS
<1>2. seqs = [i \in 1 .. k |-> cuts[i]]
  BY <1>1 DEF FirstOf
<1>3. Len(seqs) = k /\ k \in Nat \ {0}
  <2>1. seqs \in [1 .. k -> {cuts[i] : i \in 1 .. k}]
    BY <1>2
  <2>. QED  BY <2>1, FunctionIsList
<1>4. PICK f : IsJoining(f, seqs, k) /\ FlattenSeq(seqs) = f[k]
  BY <1>3, FlattenIsJoined
<1>5. \A i \in 1 .. k : f[i] = IF i = 1 THEN cuts[i] ELSE f[i - 1] \o cuts[i]
  <2>1. \A i \in 1 .. k : f[i] = IF i = 1 THEN seqs[i] ELSE f[i - 1] \o seqs[i]
    BY <1>4, Zenon DEF IsJoining
  <2>2. \A i \in 1 .. k : seqs[i] = cuts[i]
    BY <1>2
  <2>. QED  BY <2>1, <2>2, Zenon
<1>6. ASSUME NEW i \in 1 .. k
      PROVE  /\ Beginning(words, end, i - 1) \o cuts[i] = Beginning(words, end, i)
             /\ i = 1 => cuts[i] = Beginning(words, end, i)
  <2>1. i \in 1 .. m
    OBVIOUS
  <2>2. IsCut(S, words, cuts, m, end, i)
    BY <1>0, <2>1, CutsAre
  <2>. QED  BY <2>2, Zenon DEF IsCut, Beginning
<1>. DEFINE Fine(i) == f[i] = Beginning(words, end, i)
            T == {i \in Nat : i \in 1 .. k => Fine(i)}
<1>7. 0 \in T
  OBVIOUS
<1>8. ASSUME NEW i \in Nat, i \in T
      PROVE  i + 1 \in T
  <2>. SUFFICES ASSUME i + 1 \in 1 .. k PROVE Fine(i + 1)
    OBVIOUS
  <2>1. CASE i = 0
    <3>1. i + 1 = 1
      BY <2>1
    <3>2. f[i + 1] = cuts[i + 1]
      BY <1>5, <3>1
    <3>3. cuts[i + 1] = Beginning(words, end, i + 1)
      BY <1>6, <3>1, Zenon
    <3>. QED  BY <3>2, <3>3
  <2>2. CASE i # 0
    <3>1. i \in 1 .. k /\ (i + 1) - 1 = i /\ i + 1 # 1
      BY <2>2
    <3>2. f[i] = Beginning(words, end, i)
      BY <1>8, <3>1
    <3>3. f[i + 1] = f[(i + 1) - 1] \o cuts[i + 1]
      BY <1>5, <3>1, Zenon
    <3>4. Beginning(words, end, (i + 1) - 1) \o cuts[i + 1] = Beginning(words, end, i + 1)
      BY <1>6, Zenon
    <3>. QED  BY <3>1, <3>2, <3>3, <3>4, Zenon
  <2>. QED  BY <2>1, <2>2
<1>. HIDE DEF Fine, T
<1>9. Nat \subseteq T
  BY <1>7, <1>8, InductionOn
<1>10. Fine(k)
  <2>1. k \in T /\ k \in 1 .. k
    BY <1>3, <1>9
  <2>. QED  BY <2>1, Zenon DEF T
<1>. QED  BY <1>1, <1>4, <1>10, Zenon DEF Fine

\* A device that takes arguments is complete when it has as many as were announced.
LEMMA CompleteWithArguments ==
  ASSUME NEW dev, NEW ins \in {5, 6}, NEW path, NEW head, Len(head) = HeadLen(ins),
         NEW parts, parts # <<>>, NEW n, head[HeadLen(ins)][1][2] = n,
         IsAt(dev, ins, path, head, parts, FALSE, 0)
  PROVE  IsComplete(dev) <=> Len(FlattenSeq(parts)) >= n
<1>1. /\ dev.ins = ins /\ dev.head = head /\ dev.parts = parts
  BY DEF IsAt
<1>2. ~TakesCalls(dev.ins) /\ dev.ins # 2 /\ dev.ins \in {5, 6}
  BY <1>1 DEF TakesCalls
<1>3. Announced(dev) = n
  BY <1>1, Zenon DEF Announced
<1>4. IsComplete(dev) <=> /\ Len(dev.head) = HeadLen(dev.ins) /\ dev.parts # <<>>
                          /\ Len(FlattenSeq(dev.parts)) >= Announced(dev)
  BY <1>2 DEF IsComplete
<1>. QED  BY <1>1, <1>3, <1>4, Zenon

\* The device has k of the m parts of the arguments, the last at place at.
AfterArguments(d, s, ins, path, head, cuts, k, m, at) ==
  /\ IsReached(d, s, at)
  /\ IsAt(d[at], ins, path, head, FirstOf(cuts, k), FALSE, 0)
  /\ IsComplete(d[at]) <=> k = m

\* What is known of a script of a constructor's arguments.
TellsArguments(d, s, ins, path, head, ctor, n, p) ==
  /\ ins \in {5, 6} /\ Len(head) = HeadLen(ins) /\ head[HeadLen(ins)][1][2] = n
  /\ IsList(ctor) /\ n \in Nat \ {0} /\ n = Len(ctor)
  /\ p \in Nat
  /\ Len(s) = p + Len(ConstructorCommands(ins, HeadLen(ins) + 1, ctor))
  /\ \A i \in 1 .. Len(ConstructorCommands(ins, HeadLen(ins) + 1, ctor)) :
       s[p + i] = ConstructorCommands(ins, HeadLen(ins) + 1, ctor)[i]
  /\ IsReached(d, s, p) /\ ~IsComplete(d[p]) /\ IsAt(d[p], ins, path, head, <<>>, FALSE, 0)

\* All arguments are taken, and only the last of them complete the deployment.
LEMMA ArgumentsAreCollected ==
  ASSUME NEW d, NEW s, IsTaking(d, s), Len(s) \in Nat,
         NEW ins, NEW path, NEW head, NEW ctor, NEW n, NEW p,
         TellsArguments(d, s, ins, path, head, ctor, n, p)
  PROVE  /\ IsReached(d, s, Len(s)) /\ IsComplete(d[Len(s)])
         /\ \E parts : /\ FlattenSeq(parts) = ctor
                       /\ IsAt(d[Len(s)], ins, path, head, parts, FALSE, 0)
<1>1. /\ ins \in {5, 6} /\ Len(head) = HeadLen(ins) /\ head[HeadLen(ins)][1][2] = n
      /\ IsList(ctor) /\ n \in Nat \ {0} /\ n = Len(ctor) /\ p \in Nat
      /\ IsReached(d, s, p) /\ ~IsComplete(d[p]) /\ IsAt(d[p], ins, path, head, <<>>, FALSE, 0)
  BY Zenon DEF TellsArguments
<1>20. PICK S : ctor \in Seq(S)
  BY <1>1 DEF IsList
<1>2. PICK p1 \in Nat : p1 = HeadLen(ins) + 1
  BY <1>1 DEF HeadLen
<1>3. PICK cmds : cmds = ConstructorCommands(ins, p1, ctor)
  OBVIOUS
<1>4. Len(s) = p + Len(cmds) /\ \A i \in 1 .. Len(cmds) : s[p + i] = cmds[i]
  BY <1>2, <1>3, Zenon DEF TellsArguments
<1>5. PICK m \in Nat \ {0} : \E end : AreCuts(ctor, Chunks(ctor), m, end)
  BY <1>1, ChunksAreCut, Zenon
<1>6. PICK end : AreCuts(ctor, Chunks(ctor), m, end)
  BY <1>5
<1>7. PICK cuts : cuts = Chunks(ctor)
  OBVIOUS
<1>8. /\ AreCuts(ctor, cuts, m, end) /\ DOMAIN cuts = 1 .. m
      /\ end \in [0 .. m -> Nat] /\ end[m] = n
      /\ \A i \in 1 .. m : end[i - 1] < end[i] /\ end[i] <= n
  BY <1>1, <1>6, <1>7, Zenon DEF AreCuts
<1>9. cmds = [i \in 1 .. m |-> Apdu(ins, p1, 0, cuts[i])]
  BY <1>3, <1>7, <1>8 DEF ConstructorCommands
<1>10. Len(cmds) = m
  <2>1. cmds \in [1 .. m -> {cmds[i] : i \in 1 .. m}]
    BY <1>9
  <2>. QED  BY <2>1, FunctionIsList
<1>11. \A i \in 1 .. m : /\ s[p + i] = cmds[i] /\ cmds[i] = Apdu(ins, p1, 0, cuts[i])
                        /\ d[p + i] = Collect(d[(p + i) - 1], s[p + i])
  <2>. SUFFICES ASSUME NEW i \in 1 .. m
                PROVE  /\ s[p + i] = cmds[i] /\ cmds[i] = Apdu(ins, p1, 0, cuts[i])
                       /\ d[p + i] = Collect(d[(p + i) - 1], s[p + i])
    OBVIOUS
  <2>1. s[p + i] = cmds[i] /\ cmds[i] = Apdu(ins, p1, 0, cuts[i])
    BY <1>4, <1>9, <1>10
  <2>2. p + i \in 1 .. Len(s)
    BY <1>1, <1>4, <1>10
  <2>. QED  BY <2>1, <2>2, TakingIs
<1>12. ASSUME NEW k \in 1 .. m
       PROVE  end[k] >= n <=> k = m
  <2>1. CASE k = m
    BY <1>1, <1>8, <2>1
  <2>2. CASE k # m
    <3>1. k + 1 \in 1 .. m /\ (k + 1) - 1 = k /\ k \in 0 .. m /\ k + 1 \in 0 .. m
      BY <2>2
    <3>2. end[(k + 1) - 1] < end[k + 1] /\ end[k + 1] <= n
      BY <1>8, <3>1, Zenon
    <3>3. PICK x \in Nat : x = end[k]
      BY <1>8, <3>1
    <3>4. PICK y \in Nat : y = end[k + 1]
      BY <1>8, <3>1
    <3>5. x < y /\ y <= n
      BY <3>1, <3>2, <3>3, <3>4
    <3>. QED  BY <1>1, <2>2, <3>3, <3>5
  <2>. QED  BY <2>1, <2>2
<1>. DEFINE At(k) == AfterArguments(d, s, ins, path, head, cuts, k, m, p + k)
            T == {k \in Nat : k \in 0 .. m => At(k)}
<1>13. 0 \in T
  <2>1. p + 0 = p /\ ~(0 = m)
    BY <1>1
  <2>2. FirstOf(cuts, 0) = <<>>
    BY DEF FirstOf
  <2>3. AfterArguments(d, s, ins, path, head, cuts, 0, m, p)
    BY <1>1, <2>1, <2>2, Zenon DEF AfterArguments
  <2>. QED  BY <2>1, <2>3
<1>14. ASSUME NEW k \in 0 .. m - 1, At(k)
       PROVE  At(k + 1)
  <2>1. /\ k + 1 \in 1 .. m /\ p + (k + 1) - 1 = p + k /\ (p + (k + 1)) - 1 = p + k
        /\ p + k \in Nat /\ (p + k) + 1 = p + (k + 1) /\ k # m
    BY <1>1
  <2>2. PICK q \in Nat : q = p + k
    BY <2>1
  <2>3. PICK a : a = Apdu(ins, p1, 0, cuts[k + 1])
    OBVIOUS
  <2>4. PICK dev : dev = d[q]
    OBVIOUS
  <2>5. PICK new : new = d[q + 1]
    OBVIOUS
  <2>6. s[q + 1] = a /\ new = Collect(dev, a)
    <3>1. /\ s[p + (k + 1)] = a /\ d[p + (k + 1)] = Collect(d[(p + (k + 1)) - 1], s[p + (k + 1)])
      BY <1>11, <2>1, <2>3, Zenon
    <3>2. q + 1 = p + (k + 1) /\ (p + (k + 1)) - 1 = q
      BY <2>1, <2>2
    <3>. QED  BY <2>4, <2>5, <3>1, <3>2
  <2>7. a.ins = ins /\ a.p1 = HeadLen(ins) + 1 /\ a.data = cuts[k + 1]
    BY <1>2, <2>3 DEF Apdu
  <2>8. PICK parts : parts = FirstOf(cuts, k)
    OBVIOUS
  <2>9. IsReached(d, s, q) /\ ~IsComplete(dev) /\ IsAt(dev, ins, path, head, parts, FALSE, 0)
    BY <1>14, <2>1, <2>2, <2>4, <2>8, Zenon DEF AfterArguments
  <2>10. Accepts(dev, a) /\ IsAt(new, ins, path, head, Append(parts, a.data), FALSE, 0)
    BY <1>1, <2>6, <2>7, <2>9, ArgumentsAreTaken, Zenon
  <2>11. PICK more : more = FirstOf(cuts, k + 1)
    OBVIOUS
  <2>12. Append(parts, a.data) = more /\ more # <<>>
    <3>1. PICK X : X = {cuts[i] : i \in 1 .. m}
      BY Zenon
    <3>2. parts = [i \in 1 .. k |-> cuts[i]] /\ more = [i \in 1 .. k + 1 |-> cuts[i]]
      BY <2>8, <2>11 DEF FirstOf
    <3>3. parts \in [1 .. k -> X] /\ more \in [1 .. k + 1 -> X] /\ k \in Nat
      BY <3>1, <3>2
    <3>4. parts \in Seq(X) /\ Len(parts) = k /\ more \in Seq(X) /\ Len(more) = k + 1
      BY <3>3, FunctionIsList
    <3>5. PICK x \in X : x = cuts[k + 1]
      BY <2>1, <3>1
    <3>6. more[k + 1] = x /\ \A i \in 1 .. k : more[i] = parts[i]
      BY <3>2, <3>5
    <3>7. Append(parts, x) = more
      BY <3>3, <3>4, <3>6
    <3>8. more # <<>>
      BY <3>3, <3>4
    <3>. QED  BY <2>7, <3>5, <3>7, <3>8
  <2>13. IsAt(new, ins, path, head, more, FALSE, 0)
    BY <2>10, <2>12, Zenon
  <2>14. IsComplete(new) <=> Len(FlattenSeq(more)) >= n
    BY <1>1, <2>12, <2>13, CompleteWithArguments, Zenon
  <2>15. Len(FlattenSeq(more)) = end[k + 1]
    <3>0. HasCuts(ctor, cuts, m, end, k + 1)
      BY <1>1, <1>8, <2>1, Zenon DEF HasCuts
    <3>3. JoinsTo(ctor, cuts, m, end, k + 1)
      BY <3>0, FlattenOfCuts, Zenon
    <3>1. FlattenSeq(more) = Beginning(ctor, end, k + 1)
      BY <2>11, <3>3, Zenon DEF JoinsTo
    <3>2. IsCut(S, ctor, cuts, m, end, k + 1)
      BY <1>1, <1>8, <1>20, <2>1, CutsAre
    <3>. QED  BY <3>1, <3>2, Zenon DEF IsCut, Beginning
  <2>16. IsComplete(new) <=> k + 1 = m
    BY <1>12, <2>1, <2>14, <2>15
  <2>17. IsReached(d, s, q + 1)
    <3>1. Takes(d, s, q, 1)
      <4>1. \A i \in 1 .. 1 : i = 1 /\ q + i - 1 = q
        OBVIOUS
      <4>2. 1 .. 1 - 1 = {}
        OBVIOUS
      <4>3. \A i \in 1 .. 1 : Accepts(d[q + i - 1], s[q + i])
        BY <2>4, <2>6, <2>10, <4>1, Zenon
      <4>. QED  BY <4>2, <4>3, Zenon DEF Takes
    <3>2. ~IsComplete(d[q])
      BY <2>4, <2>9
    <3>. QED  BY <2>9, <3>1, <3>2, ReachesOn
  <2>18. AfterArguments(d, s, ins, path, head, cuts, k + 1, m, q + 1)
    BY <2>5, <2>11, <2>13, <2>16, <2>17, Zenon DEF AfterArguments
  <2>19. q + 1 = p + (k + 1)
    BY <2>1, <2>2
  <2>. QED  BY <2>18, <2>19
<1>. HIDE DEF At
<1>15. ASSUME NEW k \in Nat, k \in T
       PROVE  k + 1 \in T
  <2>. SUFFICES ASSUME k + 1 \in 0 .. m PROVE At(k + 1)
    OBVIOUS
  <2>1. k \in 0 .. m - 1 /\ k \in 0 .. m
    OBVIOUS
  <2>2. At(k)
    BY <1>15, <2>1
  <2>. QED  BY <1>14, <2>1, <2>2
<1>. HIDE DEF T
<1>16. Nat \subseteq T
  BY <1>13, <1>15, InductionOn
<1>17. At(m)
  <2>1. m \in T /\ m \in 0 .. m
    BY <1>16
  <2>. QED  BY <2>1, Zenon DEF T
<1>18. p + m = Len(s)
  BY <1>4, <1>10
<1>19. FlattenSeq(FirstOf(cuts, m)) = ctor
  <2>1. m \in 1 .. m
    OBVIOUS
  <2>4. HasCuts(ctor, cuts, m, end, m)
    BY <1>1, <1>8, <2>1, Zenon DEF HasCuts
  <2>5. JoinsTo(ctor, cuts, m, end, m)
    BY <2>4, FlattenOfCuts, Zenon
  <2>2. FlattenSeq(FirstOf(cuts, m)) = Beginning(ctor, end, m)
    BY <2>5, Zenon DEF JoinsTo
  <2>3. IsCut(S, ctor, cuts, m, end, m)
    BY <1>1, <1>8, <1>20, <2>1, CutsAre
  <2>. QED  BY <2>2, <2>3, Zenon DEF IsCut, Beginning
<1>. QED  BY <1>17, <1>18, <1>19, Zenon DEF At, AfterArguments

\* A list of commands: a head, and more.
HasHead(s, head, more, m) ==
  /\ Len(s) \in Nat /\ Len(more) \in Nat /\ Len(s) = m + Len(more)
  /\ \A i \in 1 .. m : s[i] = head[i]
  /\ \A i \in 1 .. Len(more) : s[m + i] = more[i]

\* What is put behind a head is behind it.
LEMMA HeadAndRest ==
  ASSUME NEW S, NEW head, NEW m \in Nat, IsList(head), Len(head) = m, NEW more \in Seq(S)
  PROVE  HasHead(head \o more, head, more, m)
<1>1. PICK X : X = S \union {head[i] : i \in DOMAIN head}
  BY Zenon
<1>2. head \in Seq(X)
  <2>1. PICK Y : Y = {head[i] : i \in DOMAIN head}
    BY Zenon
  <2>2. head \in Seq(Y) /\ Y \subseteq X
    BY <1>1, <2>1 DEF IsList
  <2>. QED  BY <2>2, SubsetList
<1>3. more \in Seq(X)
  <2>1. S \subseteq X
    BY <1>1
  <2>. QED  BY <2>1, SubsetList
<1>4. PICK s : s = head \o more
  BY Zenon
<1>5. PICK l \in Nat : l = Len(more)
  BY <1>3
<1>6. Len(s) = m + l
  <2>1. Len(s) = Len(head) + Len(more)
    BY <1>2, <1>3, <1>4, ConcatProperties, Zenon
  <2>. QED  BY <1>5, <2>1
<1>7. \A i \in 1 .. m : s[i] = head[i]
  BY <1>2, <1>3, <1>4
<1>8. \A i \in 1 .. l : s[m + i] = more[i]
  BY <1>2, <1>3, <1>4, <1>5
<1>. QED  BY <1>4, <1>5, <1>6, <1>7, <1>8 DEF HasHead

\* The device has taken all commands, is complete with the last, and has this.
IsTold(d, s, ins, path, h, parts, closed) ==
  /\ Len(s) \in Nat /\ Len(s) >= 2
  /\ IsReached(d, s, Len(s)) /\ IsComplete(d[Len(s)])
  /\ IsAt(d[Len(s)], ins, path, h, parts, FALSE, closed)

\* The head of the commands of a signature, the last of which announces n.
IsHeadFor(head, ins, path, n, m) ==
  /\ m = HeadLen(ins) + 1 /\ IsList(head) /\ Len(head) = m
  /\ \A i \in 1 .. m : head[i].ins = ins /\ head[i].p1 = i - 1
  /\ head[1].data = path /\ head[m].data[1][2] = n

\* A signature of calls.
SignsCalls(s, ins, head, calls, n, m, path) ==
  /\ ins \in {3, 4} /\ AreCalls(calls) /\ n \in Nat \ {0} /\ n = Len(calls)
  /\ IsHeadFor(head, ins, path, n, m)
  /\ s = head \o CallsCommands(ins, m, calls)

\* The device at the end of the head.
HeadIsTold(d, s, ins, path, h, n, m) ==
  /\ m \in Nat /\ m = HeadLen(ins) + 1
  /\ IsReached(d, s, m) /\ ~IsComplete(d[m])
  /\ Len(h) = HeadLen(ins) /\ h[HeadLen(ins)][1][2] = n
  /\ IsAt(d[m], ins, path, h, <<>>, FALSE, 0)

\* The device takes the head of a signature.
LEMMA CallsHeadIsTaken ==
  ASSUME NEW d, NEW s, IsTaking(d, s), NEW ins \in 3 .. 6, NEW path, NEW n, NEW m, NEW head,
         NEW more, IsHeadFor(head, ins, path, n, m), HasHead(s, head, more, m)
  PROVE  HeadIsTold(d, s, ins, path, HeadOf(head, HeadLen(ins)), n, m)
<1>1. PICK k \in Nat \ {0} : k = HeadLen(ins)
  BY DEF HeadLen
<1>2. m = k + 1 /\ m \in Nat
  BY <1>1 DEF IsHeadFor
<1>3. /\ Len(s) \in Nat /\ k < Len(s)
      /\ \A i \in 1 .. m : s[i] = head[i]
  BY <1>2 DEF HasHead
<1>4. \A i \in 1 .. m : head[i].ins = ins /\ head[i].p1 = i - 1
  BY DEF IsHeadFor
<1>5. BeginsWith(s, ins)
  BY <1>1, <1>2, <1>3, <1>4, Zenon DEF BeginsWith
<1>6. /\ IsReached(d, s, k + 1) /\ ~IsComplete(d[k + 1])
      /\ Len(HeadOf(s, k)) = k
      /\ IsAt(d[k + 1], ins, s[1].data, HeadOf(s, k), <<>>, FALSE, 0)
  BY <1>1, <1>3, <1>5, HeadIsCollected, Zenon
<1>7. HeadOf(s, k) = HeadOf(head, k)
  <2>1. \A i \in 1 .. k : s[i + 1].data = head[i + 1].data
    <3>1. \A i \in 1 .. k : i + 1 \in 1 .. m
      BY <1>2
    <3>. QED  BY <1>3, <3>1, Zenon
  <2>. QED  BY <2>1 DEF HeadOf
<1>8. s[1].data = path
  <2>1. 1 \in 1 .. m
    BY <1>2
  <2>. QED  BY <1>3, <2>1 DEF IsHeadFor
<1>9. HeadOf(head, k)[k] = head[m].data
  BY <1>1, <1>2 DEF HeadOf
<1>. QED  BY <1>1, <1>2, <1>6, <1>7, <1>8, <1>9, Zenon DEF HeadIsTold, IsHeadFor

\* The device takes all of it, and is complete at its end.
LEMMA CallsAreTold ==
  ASSUME NEW d, NEW s, IsTaking(d, s), NEW ins, NEW head, NEW calls, NEW n, NEW m, NEW path,
         SignsCalls(s, ins, head, calls, n, m, path)
  PROVE  IsTold(d, s, ins, path, HeadOf(head, HeadLen(ins)), PartsOf(calls, n), n)
<1>1. /\ ins \in {3, 4} /\ AreCalls(calls) /\ n \in Nat \ {0} /\ n = Len(calls)
      /\ IsHeadFor(head, ins, path, n, m) /\ m = HeadLen(ins) + 1 /\ IsList(head) /\ Len(head) = m
      /\ s = head \o CallsCommands(ins, m, calls)
  BY Zenon DEF SignsCalls, IsHeadFor
<1>2. m \in Nat \ {0, 1}
  BY <1>1 DEF HeadLen
<1>3. PICK flat : flat = CallsCommands(ins, m, calls)
  OBVIOUS
<1>4. \E X : flat \in Seq(X)
  <2>1. PICK Data :
          Data = {<<>>} \union UNION {{encodeCall(calls[i])[k] : k \in Nat} : i \in DOMAIN calls}
    BY Zenon
  <2>2. Holds(Data, calls)
    BY <2>1 DEF Holds
  <2>3. ins \in 2 .. 6 /\ m \in Nat \ {0}
    BY <1>1, <1>2
  <2>4. flat \in EndsIn(LaterSet(Data), AwaitedSet(Data)) \union {<<>>}
    BY <1>1, <1>3, <2>2, <2>3, CallsCommandsAre
  <2>5. flat \in Seq(LaterSet(Data)) \/ flat = <<>>
    BY <2>4, Zenon DEF EndsIn
  <2>6. <<>> \in Seq({})
    OBVIOUS
  <2>. QED  BY <2>5, <2>6, Zenon
<1>5. PICK X : flat \in Seq(X)
  BY <1>4
<1>6. HasHead(s, head, flat, m)
  BY <1>1, <1>2, <1>3, <1>5, HeadAndRest
<1>7. PICK h : h = HeadOf(head, HeadLen(ins))
  OBVIOUS
<1>8. HeadIsTold(d, s, ins, path, h, n, m)
  BY <1>1, <1>6, <1>7, CallsHeadIsTaken
<1>9. Len(s) \in Nat /\ Len(s) >= 2
  BY <1>2, <1>6 DEF HasHead
<1>10. HasCalls(s, ins, m, calls)
  BY <1>1, <1>3, <1>6, Zenon DEF HasCalls, HasHead
<1>11. TellsCalls(d, s, ins, path, h, calls, n, m)
  BY <1>1, <1>8, <1>10, Zenon DEF TellsCalls, HeadIsTold
<1>12. AfterCalls(d, s, ins, path, h, calls, n, n, Len(s))
  BY <1>9, <1>11, CallsAreCollected, Zenon
<1>13. n >= n
  BY <1>1
<1>. QED  BY <1>7, <1>9, <1>12, <1>13, Zenon DEF AfterCalls, IsTold

\* A signature of a deployment.
SignsArguments(s, ins, head, ctor, n, m, path) ==
  /\ ins \in {5, 6} /\ IsList(ctor) /\ n \in Nat \ {0} /\ n = Len(ctor)
  /\ IsHeadFor(head, ins, path, n, m)
  /\ s = head \o ConstructorCommands(ins, m, ctor)

\* Likewise.
LEMMA ArgumentsAreTold ==
  ASSUME NEW d, NEW s, IsTaking(d, s), NEW ins, NEW head, NEW ctor, NEW n, NEW m, NEW path,
         SignsArguments(s, ins, head, ctor, n, m, path)
  PROVE  \E parts : /\ FlattenSeq(parts) = ctor
                    /\ IsTold(d, s, ins, path, HeadOf(head, HeadLen(ins)), parts, 0)
<1>1. /\ ins \in {5, 6} /\ IsList(ctor) /\ n \in Nat \ {0} /\ n = Len(ctor)
      /\ IsHeadFor(head, ins, path, n, m) /\ m = HeadLen(ins) + 1 /\ IsList(head) /\ Len(head) = m
      /\ s = head \o ConstructorCommands(ins, m, ctor)
  BY Zenon DEF SignsArguments, IsHeadFor
<1>2. m \in Nat \ {0, 1}
  BY <1>1 DEF HeadLen
<1>3. PICK more : more = ConstructorCommands(ins, m, ctor)
  OBVIOUS
<1>4. \E X : more \in Seq(X)
  <2>1. PICK Data : Data = {Chunks(ctor)[k] : k \in Nat}
    BY Zenon
  <2>3. ins \in 2 .. 6 /\ m \in Nat \ {0}
    BY <1>1, <1>2
  <2>4. more \in EndsIn(LaterSet(Data), AwaitedSet(Data)) \union {<<>>}
    BY <1>1, <1>3, <2>1, <2>3, ConstructorCommandsAre
  <2>5. more \in Seq(LaterSet(Data)) \/ more = <<>>
    BY <2>4, Zenon DEF EndsIn
  <2>6. <<>> \in Seq({})
    OBVIOUS
  <2>. QED  BY <2>5, <2>6, Zenon
<1>5. PICK X : more \in Seq(X)
  BY <1>4
<1>6. HasHead(s, head, more, m)
  BY <1>1, <1>2, <1>3, <1>5, HeadAndRest
<1>7. PICK h : h = HeadOf(head, HeadLen(ins))
  OBVIOUS
<1>8. HeadIsTold(d, s, ins, path, h, n, m)
  BY <1>1, <1>6, <1>7, CallsHeadIsTaken
<1>9. Len(s) \in Nat /\ Len(s) >= 2
  BY <1>2, <1>6 DEF HasHead
<1>10. /\ Len(s) = m + Len(ConstructorCommands(ins, HeadLen(ins) + 1, ctor))
       /\ \A i \in 1 .. Len(ConstructorCommands(ins, HeadLen(ins) + 1, ctor)) :
            s[m + i] = ConstructorCommands(ins, HeadLen(ins) + 1, ctor)[i]
  BY <1>1, <1>3, <1>6, Zenon DEF HasHead
<1>11. TellsArguments(d, s, ins, path, h, ctor, n, m)
  BY <1>1, <1>8, <1>10, Zenon DEF TellsArguments, HeadIsTold
<1>12. /\ IsReached(d, s, Len(s)) /\ IsComplete(d[Len(s)])
       /\ \E parts : /\ FlattenSeq(parts) = ctor
                     /\ IsAt(d[Len(s)], ins, path, h, parts, FALSE, 0)
  BY <1>9, <1>11, ArgumentsAreCollected, Zenon
<1>. QED  BY <1>7, <1>9, <1>12, Zenon DEF IsTold

\* A list is two others, one after the other.
IsJoined(u, s, t, n, m) ==
  /\ IsList(u) /\ IsList(s) /\ IsList(t) /\ n \in Nat /\ m \in Nat
  /\ Len(s) = n /\ Len(t) = m /\ Len(u) = n + m
  /\ \A i \in 1 .. n : u[i] = s[i]
  /\ \A i \in 1 .. m : u[n + i] = t[i]

\* Then it is their concatenation.
LEMMA JoinedIs ==
  ASSUME NEW u, NEW s, NEW t, NEW n, NEW m, IsJoined(u, s, t, n, m)
  PROVE  s \o t = u
<1>1. /\ IsList(u) /\ IsList(s) /\ IsList(t) /\ n \in Nat /\ m \in Nat
      /\ Len(s) = n /\ Len(t) = m /\ Len(u) = n + m
      /\ \A i \in 1 .. n : u[i] = s[i]
      /\ \A i \in 1 .. m : u[n + i] = t[i]
  BY Zenon DEF IsJoined
<1>2. PICK S : S = {s[i] : i \in DOMAIN s} \union {t[i] : i \in DOMAIN t} \union {u[i] : i \in DOMAIN u}
  BY Zenon
<1>3. PICK A : A = {s[i] : i \in DOMAIN s}
  BY Zenon
<1>4. PICK B : B = {t[i] : i \in DOMAIN t}
  BY Zenon
<1>5. PICK C : C = {u[i] : i \in DOMAIN u}
  BY Zenon
<1>6. /\ A \subseteq S /\ B \subseteq S /\ C \subseteq S
      /\ s \in Seq(A) /\ t \in Seq(B) /\ u \in Seq(C)
  BY <1>1, <1>2, <1>3, <1>4, <1>5 DEF IsList
<1>7. s \in Seq(S) /\ t \in Seq(S) /\ u \in Seq(S)
  BY <1>6, SubsetList
<1>8. PICK w : w = s \o t
  BY Zenon
<1>9. w \in Seq(S) /\ Len(w) = n + m
  <2>1. w \in Seq(S) /\ Len(w) = Len(s) + Len(t)
    BY <1>7, <1>8, ConcatProperties
  <2>. QED  BY <1>1, <2>1
<1>10. HasHead(w, s, t, n)
  BY <1>1, <1>7, <1>8, HeadAndRest
<1>11. /\ \A i \in 1 .. n : w[i] = u[i]
       /\ \A i \in 1 .. m : w[n + i] = u[n + i]
  BY <1>1, <1>10 DEF HasHead
<1>12. \A i \in 1 .. n + m : w[i] = u[i]
  <2>. SUFFICES ASSUME NEW i \in 1 .. n + m PROVE w[i] = u[i]
    OBVIOUS
  <2>1. CASE i \in 1 .. n
    BY <1>11, <2>1
  <2>2. CASE i \notin 1 .. n
    <3>1. i - n \in 1 .. m /\ n + (i - n) = i
      BY <1>1, <2>2
    <3>2. w[n + (i - n)] = u[n + (i - n)]
      BY <1>11, <3>1, Zenon
    <3>. QED  BY <3>1, <3>2
  <2>. QED  BY <2>1, <2>2
<1>13. w = u
  BY <1>1, <1>7, <1>9, <1>12
<1>. QED  BY <1>8, <1>13

\* The calldata that the device makes of the calls it was told.
CalldataOf(parts) ==
  fromCallsToExecuteCalldata_cairo1([i \in DOMAIN parts |-> CallFrom(parts[i])])

\* What is hashed of one call.
EncodedCall(call) == <<call.to, call.selector, N(Len(call.args))>> \o call.args

\* A call is read off its words.
LEMMA CallFromWords ==
  ASSUME NEW call, IsList(call.args)
  PROVE  EncodedCall(CallFrom(WordsOf(call))) = EncodedCall(call)
<1>1. PICK args : args = call.args
  OBVIOUS
<1>2. PICK S : args \in Seq(S)
  BY <1>1 DEF IsList
<1>3. PICK X : X = S \union {call.to, call.selector}
  BY Zenon
<1>4. PICK pair : pair = <<call.to, call.selector>>
  BY Zenon
<1>5. pair \in Seq(X) /\ Len(pair) = 2 /\ args \in Seq(X)
  <2>1. pair \in Seq(X) /\ Len(pair) = 2
    BY <1>3, <1>4
  <2>2. S \subseteq X
    BY <1>3
  <2>. QED  BY <1>2, <2>1, <2>2, SubsetList
<1>6. PICK l \in Nat : l = Len(args)
  BY <1>5
<1>7. PICK words : words = pair \o args
  BY Zenon
<1>8. words \in Seq(X) /\ Len(words) = l + 2
  <2>1. words \in Seq(X) /\ Len(words) = Len(pair) + Len(args)
    BY <1>5, <1>7, ConcatProperties, Zenon
  <2>. QED  BY <1>5, <1>6, <2>1
<1>14. HasHead(words, pair, args, 2)
  <2>1. IsList(pair)
    BY <1>4 DEF IsList
  <2>. QED  BY <1>5, <1>7, <2>1, HeadAndRest, Zenon
<1>15. /\ \A i \in 1 .. 2 : words[i] = pair[i]
       /\ \A i \in 1 .. l : words[2 + i] = args[i]
  BY <1>6, <1>14, Zenon DEF HasHead
<1>9. words[1] = call.to /\ words[2] = call.selector
  BY <1>4, <1>15
<1>10. \A i \in 1 .. l : words[i + 2] = args[i]
  BY <1>15
<1>11. SubSeq(words, 3, Len(words)) = args
  <2>1. PICK t : t = SubSeq(words, 3, l + 2)
    BY Zenon
  <2>2. t \in Seq(X) /\ Len(t) = l /\ \A i \in 1 .. l : t[i] = words[i + 2]
    BY <1>6, <1>8, <2>1
  <2>3. t = args
    BY <1>5, <1>6, <1>10, <2>2
  <2>. QED  BY <1>8, <2>1, <2>3
<1>12. WordsOf(call) = words
  BY <1>1, <1>4, <1>7 DEF WordsOf
<1>13. CallFrom(words) = [to |-> call.to, selector |-> call.selector, args |-> args]
  BY <1>9, <1>11, Zenon DEF CallFrom
<1>. QED  BY <1>1, <1>12, <1>13 DEF EncodedCall

\* So the calldata is that of the calls.
LEMMA CalldataIs ==
  ASSUME NEW calls, AreCalls(calls), NEW n \in Nat, n = Len(calls)
  PROVE  CalldataOf(PartsOf(calls, n)) = fromCallsToExecuteCalldata_cairo1(calls)
<1>1. DOMAIN calls = 1 .. n /\ \A i \in 1 .. n : IsList(calls[i].args)
  BY DEF AreCalls, IsList
<1>2. PICK told : told = [i \in 1 .. n |-> CallFrom(WordsOf(calls[i]))]
  BY Zenon
<1>3. DOMAIN told = 1 .. n /\ Len(told) = n
  <2>1. told \in [1 .. n -> {told[i] : i \in 1 .. n}]
    BY <1>2
  <2>. QED  BY <2>1, FunctionIsList
<1>4. \A i \in 1 .. n : EncodedCall(told[i]) = EncodedCall(calls[i])
  BY <1>1, <1>2, CallFromWords
<1>5. CalldataOf(PartsOf(calls, n)) = fromCallsToExecuteCalldata_cairo1(told)
  <2>1. PICK parts : parts = PartsOf(calls, n)
    OBVIOUS
  <2>2. parts = [i \in 1 .. n |-> WordsOf(calls[i])]
    BY <2>1 DEF PartsOf
  <2>3. [i \in DOMAIN parts |-> CallFrom(parts[i])] = told
    BY <1>2, <2>2
  <2>. QED  BY <2>1, <2>3 DEF CalldataOf
<1>6. \A c : fromCallsToExecuteCalldata_cairo1(c)
               = <<N(Len(c))>> \o FlattenSeq([i \in DOMAIN c |-> EncodedCall(c[i])])
  BY DEF fromCallsToExecuteCalldata_cairo1, EncodedCall
<1>7. [i \in DOMAIN told |-> EncodedCall(told[i])] = [i \in DOMAIN calls |-> EncodedCall(calls[i])]
  BY <1>1, <1>3, <1>4
<1>. QED  BY <1>3, <1>5, <1>6, <1>7, Zenon

\* What the device hashes, by the instruction.
HashOf4(h, parts) ==
  Pedersen(<<<<"invoke">>, V(1), h[1][1], N(0), Pedersen(CalldataOf(parts)),
             h[1][2], h[1][3], h[1][4]>>)
HashOf3(h, parts) ==
  Poseidon(<<<<"invoke">>, V(3), h[1][1], Poseidon(<<h[1][2], h[1][3], h[1][4]>>), Poseidon(h[2]),
             h[1][5], h[1][6], h[1][7], Poseidon(h[3]), Poseidon(CalldataOf(parts))>>)
HashOf6(h, parts) ==
  Pedersen(<<<<"deploy_account">>, V(1), h[1][1], N(0),
             Pedersen(<<h[1][2], h[1][3]>> \o FlattenSeq(parts)), h[2][1], h[1][4], h[1][5]>>)
HashOf5(h, parts) ==
  Poseidon(<<<<"deploy_account">>, V(3), h[1][1], Poseidon(h[2]), Poseidon(h[3]),
             h[1][2], h[1][3], h[1][4], Poseidon(FlattenSeq(parts)), h[1][5], h[1][6]>>)

\* It is a function of the head and the parts.
LEMMA DeviceHashIs ==
  ASSUME NEW dev
  PROVE  /\ dev.ins = 4 => DeviceHash(dev) = HashOf4(dev.head, dev.parts)
         /\ dev.ins = 3 => DeviceHash(dev) = HashOf3(dev.head, dev.parts)
         /\ dev.ins = 6 => DeviceHash(dev) = HashOf6(dev.head, dev.parts)
         /\ dev.ins = 5 => DeviceHash(dev) = HashOf5(dev.head, dev.parts)
BY DEF DeviceHash, CalldataOf, HashOf4, HashOf3, HashOf6, HashOf5

\* The device has taken all commands, is complete with the last, and hashes this.
SignsFor(d, s, hash) ==
  /\ Len(s) \in Nat /\ Len(s) >= 2
  /\ IsReached(d, s, Len(s)) /\ IsComplete(d[Len(s)])
  /\ DeviceHash(d[Len(s)]) = hash

\* signTxV1() tells the device an invocation of version 1.
LEMMA SignTxV1Tells ==
  ASSUME NEW tx, AreCalls(tx.calls), tx.calls # <<>>, tx.version = V(1), tx.cairo = 1,
         NEW path, NEW s, s = signTxV1(path, tx), NEW d, IsTaking(d, s)
  PROVE  SignsFor(d, s, calculateInvokeTransactionHash(tx))
<1>1. PICK calls : calls = tx.calls
  OBVIOUS
<1>2. PICK n \in Nat \ {0} : n = Len(calls)
  <2>1. PICK S : calls \in Seq(S)
    BY <1>1 DEF AreCalls, IsList
  <2>. QED  BY <1>1, <2>1
<1>3. PICK d1 : d1 = <<tx.sender, tx.maxFee, tx.chain, tx.nonce>>
  BY Zenon
<1>4. PICK d2 : d2 = <<N(n)>>
  BY Zenon
<1>5. PICK head : head = <<Apdu(4, 0, 0, path), Apdu(4, 1, 0, d1), Apdu(4, 2, 0, d2)>>
  BY Zenon
<1>6. s = head \o CallsCommands(4, 3, calls)
  BY <1>1, <1>2, <1>3, <1>4, <1>5 DEF signTxV1
<1>7. IsHeadFor(head, 4, path, n, 3)
  <2>1. IsList(head) /\ Len(head) = 3 /\ 3 = HeadLen(4) + 1
    BY <1>5 DEF IsList, HeadLen
  <2>2. \A i \in 1 .. 3 : head[i].ins = 4 /\ head[i].p1 = i - 1
    BY <1>5 DEF Apdu
  <2>3. head[1].data = path /\ head[3].data[1][2] = n
    BY <1>4, <1>5 DEF Apdu, N
  <2>. QED  BY <2>1, <2>2, <2>3 DEF IsHeadFor
<1>8. SignsCalls(s, 4, head, calls, n, 3, path)
  BY <1>1, <1>2, <1>6, <1>7 DEF SignsCalls
<1>9. IsTold(d, s, 4, path, HeadOf(head, HeadLen(4)), PartsOf(calls, n), n)
  BY <1>8, CallsAreTold, Zenon
<1>10. PICK h : h = HeadOf(head, HeadLen(4))
  OBVIOUS
<1>11. h[1] = d1
  <2>1. h[1] = head[1 + 1].data /\ 1 + 1 = 2
    BY <1>10 DEF HeadOf, HeadLen
  <2>2. head[2].data = d1
    BY <1>5 DEF Apdu
  <2>. QED  BY <2>1, <2>2
<1>12. PICK dev : dev = d[Len(s)]
  OBVIOUS
<1>13. PICK parts : parts = PartsOf(calls, n)
  OBVIOUS
<1>14. dev.ins = 4 /\ dev.head = h /\ dev.parts = parts
  BY <1>9, <1>10, <1>12, <1>13, Zenon DEF IsTold, IsAt
<1>15. PICK hash : hash = Pedersen(CalldataOf(parts))
  OBVIOUS
<1>16. DeviceHash(dev) = Pedersen(<<<<"invoke">>, V(1), tx.sender, N(0), hash, tx.maxFee, tx.chain,
                                   tx.nonce>>)
  <2>1. DeviceHash(dev) = Pedersen(<<<<"invoke">>, V(1), h[1][1], N(0), Pedersen(CalldataOf(parts)),
                                    h[1][2], h[1][3], h[1][4]>>)
    BY <1>14, DeviceHashIs, Zenon DEF HashOf4
  <2>2. /\ h[1][1] = tx.sender /\ h[1][2] = tx.maxFee /\ h[1][3] = tx.chain /\ h[1][4] = tx.nonce
    BY <1>3, <1>11
  <2>. QED  BY <1>15, <2>1, <2>2, Zenon
<1>17. hash = Pedersen(getExecuteCalldata(tx.calls, tx.cairo))
  <2>1. CalldataOf(parts) = fromCallsToExecuteCalldata_cairo1(calls)
    BY <1>1, <1>2, <1>13, CalldataIs
  <2>. QED  BY <1>1, <1>15, <2>1 DEF getExecuteCalldata
<1>18. calculateInvokeTransactionHash(tx) =
         Pedersen(<<<<"invoke">>, V(1), tx.sender, N(0), hash, tx.maxFee, tx.chain>> \o <<tx.nonce>>)
  <2>1. V(1) \notin ETransactionVersion3
    BY DEF V, F, ETransactionVersion3
  <2>. QED  BY <1>17, <2>1 DEF calculateInvokeTransactionHash, InvokeV2, CommonV2
<1>19. <<<<"invoke">>, V(1), tx.sender, N(0), hash, tx.maxFee, tx.chain>> \o <<tx.nonce>>
         = <<<<"invoke">>, V(1), tx.sender, N(0), hash, tx.maxFee, tx.chain, tx.nonce>>
  <2>1. IsJoined(<<<<"invoke">>, V(1), tx.sender, N(0), hash, tx.maxFee, tx.chain, tx.nonce>>,
                 <<<<"invoke">>, V(1), tx.sender, N(0), hash, tx.maxFee, tx.chain>>, <<tx.nonce>>,
                 7, 1)
    BY DEF IsJoined, IsList
  <2>. QED  BY <2>1, JoinedIs, Zenon
<1>. QED  BY <1>9, <1>12, <1>16, <1>18, <1>19, Zenon DEF SignsFor, IsTold

\* signTxV3() one of version 3, whose deployment data are the paymaster's.
LEMMA SignTxV3Tells ==
  ASSUME NEW tx, AreCalls(tx.calls), tx.calls # <<>>, tx.version = V(3), tx.cairo = 1,
         tx.deployData = tx.paymaster, NEW path, NEW s, s = signTxV3(path, tx),
         NEW d, IsTaking(d, s)
  PROVE  SignsFor(d, s, calculateInvokeTransactionHash(tx))
<1>1. PICK calls : calls = tx.calls
  OBVIOUS
<1>2. PICK n \in Nat \ {0} : n = Len(calls)
  <2>1. PICK S : calls \in Seq(S)
    BY <1>1 DEF AreCalls, IsList
  <2>. QED  BY <1>1, <2>1
<1>20. PICK l1 : l1 = encodeResourceBounds("L1_GAS", tx.l1)
  OBVIOUS
<1>21. PICK l2 : l2 = encodeResourceBounds("L2_GAS", tx.l2)
  OBVIOUS
<1>22. PICK modes : modes = hashDAMode(intDAM(tx.nonceDAM), intDAM(tx.feeDAM))
  OBVIOUS
<1>3. PICK d1 : d1 = <<tx.sender, tx.tip, l1, l2, tx.chain, tx.nonce, modes>>
  BY Zenon
<1>4. PICK d4 : d4 = <<N(n)>>
  BY Zenon
<1>23. PICK pay : pay = tx.paymaster
  OBVIOUS
<1>5. PICK head : head = <<Apdu(3, 0, 0, path), Apdu(3, 1, 0, d1), Apdu(3, 2, 0, pay),
                           Apdu(3, 3, 0, pay), Apdu(3, 4, 0, d4)>>
  BY Zenon
<1>6. s = head \o CallsCommands(3, 5, calls)
  BY <1>1, <1>2, <1>3, <1>4, <1>5, <1>20, <1>21, <1>22, <1>23 DEF signTxV3
<1>7. IsHeadFor(head, 3, path, n, 5)
  <2>1. IsList(head) /\ Len(head) = 5 /\ 5 = HeadLen(3) + 1
    BY <1>5 DEF IsList, HeadLen
  <2>2. \A i \in 1 .. 5 : head[i].ins = 3 /\ head[i].p1 = i - 1
    BY <1>5 DEF Apdu
  <2>3. head[1].data = path /\ head[5].data[1][2] = n
    BY <1>4, <1>5 DEF Apdu, N
  <2>. QED  BY <2>1, <2>2, <2>3 DEF IsHeadFor
<1>8. SignsCalls(s, 3, head, calls, n, 5, path)
  BY <1>1, <1>2, <1>6, <1>7 DEF SignsCalls
<1>9. IsTold(d, s, 3, path, HeadOf(head, HeadLen(3)), PartsOf(calls, n), n)
  BY <1>8, CallsAreTold, Zenon
<1>10. PICK h : h = HeadOf(head, HeadLen(3))
  OBVIOUS
<1>11. h[1] = d1 /\ h[2] = pay /\ h[3] = pay
  <2>1. /\ h[1] = head[1 + 1].data /\ 1 + 1 = 2
        /\ h[2] = head[2 + 1].data /\ 2 + 1 = 3
        /\ h[3] = head[3 + 1].data /\ 3 + 1 = 4
    BY <1>10 DEF HeadOf, HeadLen
  <2>2. head[2].data = d1 /\ head[3].data = pay /\ head[4].data = pay
    BY <1>5 DEF Apdu
  <2>. QED  BY <2>1, <2>2
<1>12. PICK dev : dev = d[Len(s)]
  OBVIOUS
<1>13. PICK parts : parts = PartsOf(calls, n)
  OBVIOUS
<1>14. dev.ins = 3 /\ dev.head = h /\ dev.parts = parts
  BY <1>9, <1>10, <1>12, <1>13, Zenon DEF IsTold, IsAt
<1>15. PICK hash : hash = Poseidon(CalldataOf(parts))
  OBVIOUS
<1>24. PICK fee : fee = Poseidon(<<tx.tip, l1, l2>>)
  OBVIOUS
<1>16. DeviceHash(dev) = Poseidon(<<<<"invoke">>, V(3), tx.sender, fee, Poseidon(pay), tx.chain,
                                   tx.nonce, modes, Poseidon(pay), hash>>)
  <2>1. DeviceHash(dev) = Poseidon(<<<<"invoke">>, V(3), h[1][1],
                           Poseidon(<<h[1][2], h[1][3], h[1][4]>>), Poseidon(h[2]),
                           h[1][5], h[1][6], h[1][7], Poseidon(h[3]), Poseidon(CalldataOf(parts))>>)
    BY <1>14, DeviceHashIs, Zenon DEF HashOf3
  <2>2. /\ h[1][1] = tx.sender /\ h[1][2] = tx.tip /\ h[1][3] = l1 /\ h[1][4] = l2
        /\ h[1][5] = tx.chain /\ h[1][6] = tx.nonce /\ h[1][7] = modes
    BY <1>3, <1>11
  <2>. QED  BY <1>11, <1>15, <1>24, <2>1, <2>2, Zenon
<1>17. hash = Poseidon(getExecuteCalldata(tx.calls, tx.cairo))
  <2>1. CalldataOf(parts) = fromCallsToExecuteCalldata_cairo1(calls)
    BY <1>1, <1>2, <1>13, CalldataIs
  <2>. QED  BY <1>1, <1>15, <2>1 DEF getExecuteCalldata
<1>25. fee = hashFeeField(tx.tip, tx.l1, tx.l2)
  BY <1>20, <1>21, <1>24 DEF hashFeeField
<1>18. calculateInvokeTransactionHash(tx) =
         Poseidon(<<<<"invoke">>, V(3), tx.sender, fee, Poseidon(pay), tx.chain, tx.nonce, modes>>
                    \o <<Poseidon(pay), hash>>)
  <2>1. V(3) \in ETransactionVersion3
    BY DEF V, F, ETransactionVersion3
  <2>. QED  BY <1>17, <1>22, <1>23, <1>25, <2>1 DEF calculateInvokeTransactionHash, InvokeV3, CommonV3
<1>19. PICK payHash : payHash = Poseidon(pay)
  OBVIOUS
<1>26. <<<<"invoke">>, V(3), tx.sender, fee, payHash, tx.chain, tx.nonce, modes>> \o <<payHash, hash>>
         = <<<<"invoke">>, V(3), tx.sender, fee, payHash, tx.chain, tx.nonce, modes, payHash, hash>>
  <2>1. IsJoined(
          <<<<"invoke">>, V(3), tx.sender, fee, payHash, tx.chain, tx.nonce, modes, payHash, hash>>,
          <<<<"invoke">>, V(3), tx.sender, fee, payHash, tx.chain, tx.nonce, modes>>,
          <<payHash, hash>>, 8, 2)
    BY DEF IsJoined, IsList
  <2>. QED  BY <2>1, JoinedIs, Zenon
<1>. QED  BY <1>9, <1>12, <1>16, <1>18, <1>19, <1>26, Zenon DEF SignsFor, IsTold

\* signDeployAccountV1() tells the device a deployment of version 1,
LEMMA SignDeployV1Tells ==
  ASSUME NEW tx, IsList(tx.ctor), tx.ctor # <<>>, tx.version = V(1),
         NEW path, NEW s, s = signDeployAccountV1(path, tx), NEW d, IsTaking(d, s)
  PROVE  SignsFor(d, s, calculateDeployAccountTransactionHash(tx))
<1>1. PICK ctor : ctor = tx.ctor
  OBVIOUS
<1>2. PICK n \in Nat \ {0} : n = Len(ctor)
  <2>1. PICK S : ctor \in Seq(S)
    BY <1>1 DEF IsList
  <2>. QED  BY <1>1, <2>1
<1>3. PICK d1 : d1 = <<tx.sender, tx.classHash, tx.salt, tx.chain, tx.nonce>>
  BY Zenon
<1>4. PICK d2 : d2 = <<tx.maxFee>>
  BY Zenon
<1>20. PICK d3 : d3 = <<N(n)>>
  BY Zenon
<1>5. PICK head : head = <<Apdu(6, 0, 0, path), Apdu(6, 1, 0, d1), Apdu(6, 2, 0, d2),
                           Apdu(6, 3, 0, d3)>>
  BY Zenon
<1>6. s = head \o ConstructorCommands(6, 4, ctor)
  BY <1>1, <1>2, <1>3, <1>4, <1>5, <1>20 DEF signDeployAccountV1
<1>7. IsHeadFor(head, 6, path, n, 4)
  <2>1. IsList(head) /\ Len(head) = 4 /\ 4 = HeadLen(6) + 1
    BY <1>5 DEF IsList, HeadLen
  <2>2. \A i \in 1 .. 4 : head[i].ins = 6 /\ head[i].p1 = i - 1
    BY <1>5 DEF Apdu
  <2>3. head[1].data = path /\ head[4].data[1][2] = n
    BY <1>5, <1>20 DEF Apdu, N
  <2>. QED  BY <2>1, <2>2, <2>3 DEF IsHeadFor
<1>8. SignsArguments(s, 6, head, ctor, n, 4, path)
  BY <1>1, <1>2, <1>6, <1>7 DEF SignsArguments
<1>10. PICK h : h = HeadOf(head, HeadLen(6))
  OBVIOUS
<1>9. PICK parts : FlattenSeq(parts) = ctor /\ IsTold(d, s, 6, path, h, parts, 0)
  BY <1>8, <1>10, ArgumentsAreTold, Zenon
<1>11. h[1] = d1 /\ h[2] = d2
  <2>1. /\ h[1] = head[1 + 1].data /\ 1 + 1 = 2
        /\ h[2] = head[2 + 1].data /\ 2 + 1 = 3
    BY <1>10 DEF HeadOf, HeadLen
  <2>2. head[2].data = d1 /\ head[3].data = d2
    BY <1>5 DEF Apdu
  <2>. QED  BY <2>1, <2>2
<1>12. PICK dev : dev = d[Len(s)]
  OBVIOUS
<1>14. dev.ins = 6 /\ dev.head = h /\ dev.parts = parts
  BY <1>9, <1>12, Zenon DEF IsTold, IsAt
<1>15. PICK hash : hash = Pedersen(<<tx.classHash, tx.salt>> \o ctor)
  OBVIOUS
<1>16. DeviceHash(dev) = Pedersen(<<<<"deploy_account">>, V(1), tx.sender, N(0), hash, tx.maxFee,
                                   tx.chain, tx.nonce>>)
  <2>1. DeviceHash(dev) = Pedersen(<<<<"deploy_account">>, V(1), h[1][1], N(0),
                            Pedersen(<<h[1][2], h[1][3]>> \o FlattenSeq(parts)),
                            h[2][1], h[1][4], h[1][5]>>)
    BY <1>14, DeviceHashIs, Zenon DEF HashOf6
  <2>2. /\ h[1][1] = tx.sender /\ h[1][2] = tx.classHash /\ h[1][3] = tx.salt
        /\ h[1][4] = tx.chain /\ h[1][5] = tx.nonce /\ h[2][1] = tx.maxFee
    BY <1>3, <1>4, <1>11
  <2>. QED  BY <1>9, <1>15, <2>1, <2>2, Zenon
<1>18. calculateDeployAccountTransactionHash(tx) =
         Pedersen(<<<<"deploy_account">>, V(1), tx.sender, N(0), hash, tx.maxFee, tx.chain>>
                    \o <<tx.nonce>>)
  <2>1. V(1) \notin ETransactionVersion3
    BY DEF V, F, ETransactionVersion3
  <2>. QED  BY <1>1, <1>15, <2>1 DEF calculateDeployAccountTransactionHash, DeployV2, CommonV2
<1>19. <<<<"deploy_account">>, V(1), tx.sender, N(0), hash, tx.maxFee, tx.chain>> \o <<tx.nonce>>
         = <<<<"deploy_account">>, V(1), tx.sender, N(0), hash, tx.maxFee, tx.chain, tx.nonce>>
  <2>1. IsJoined(<<<<"deploy_account">>, V(1), tx.sender, N(0), hash, tx.maxFee, tx.chain, tx.nonce>>,
                 <<<<"deploy_account">>, V(1), tx.sender, N(0), hash, tx.maxFee, tx.chain>>,
                 <<tx.nonce>>, 7, 1)
    BY DEF IsJoined, IsList
  <2>. QED  BY <2>1, JoinedIs, Zenon
<1>. QED  BY <1>9, <1>12, <1>16, <1>18, <1>19, Zenon DEF SignsFor, IsTold

\* and signDeployAccountV3() one of version 3.
LEMMA SignDeployV3Tells ==
  ASSUME NEW tx, IsList(tx.ctor), tx.ctor # <<>>, tx.version = V(3),
         NEW path, NEW s, s = signDeployAccountV3(path, tx), NEW d, IsTaking(d, s)
  PROVE  SignsFor(d, s, calculateDeployAccountTransactionHash(tx))
<1>1. PICK ctor : ctor = tx.ctor
  OBVIOUS
<1>2. PICK n \in Nat \ {0} : n = Len(ctor)
  <2>1. PICK S : ctor \in Seq(S)
    BY <1>1 DEF IsList
  <2>. QED  BY <1>1, <2>1
<1>20. PICK l1 : l1 = encodeResourceBounds("L1_GAS", tx.l1)
  OBVIOUS
<1>21. PICK l2 : l2 = encodeResourceBounds("L2_GAS", tx.l2)
  OBVIOUS
<1>22. PICK modes : modes = hashDAMode(intDAM(tx.nonceDAM), intDAM(tx.feeDAM))
  OBVIOUS
<1>3. PICK d1 : d1 = <<tx.sender, tx.chain, tx.nonce, modes, tx.classHash, tx.salt>>
  BY Zenon
<1>4. PICK d2 : d2 = <<tx.tip, l1, l2>>
  BY Zenon
<1>23. PICK pay : pay = tx.paymaster
  OBVIOUS
<1>24. PICK d4 : d4 = <<N(n)>>
  BY Zenon
<1>5. PICK head : head = <<Apdu(5, 0, 0, path), Apdu(5, 1, 0, d1), Apdu(5, 2, 0, d2),
                           Apdu(5, 3, 0, pay), Apdu(5, 4, 0, d4)>>
  BY Zenon
<1>6. s = head \o ConstructorCommands(5, 5, ctor)
  BY <1>1, <1>2, <1>3, <1>4, <1>5, <1>20, <1>21, <1>22, <1>23, <1>24 DEF signDeployAccountV3
<1>7. IsHeadFor(head, 5, path, n, 5)
  <2>1. IsList(head) /\ Len(head) = 5 /\ 5 = HeadLen(5) + 1
    BY <1>5 DEF IsList, HeadLen
  <2>2. \A i \in 1 .. 5 : head[i].ins = 5 /\ head[i].p1 = i - 1
    BY <1>5 DEF Apdu
  <2>3. head[1].data = path /\ head[5].data[1][2] = n
    BY <1>5, <1>24 DEF Apdu, N
  <2>. QED  BY <2>1, <2>2, <2>3 DEF IsHeadFor
<1>8. SignsArguments(s, 5, head, ctor, n, 5, path)
  BY <1>1, <1>2, <1>6, <1>7 DEF SignsArguments
<1>10. PICK h : h = HeadOf(head, HeadLen(5))
  OBVIOUS
<1>9. PICK parts : FlattenSeq(parts) = ctor /\ IsTold(d, s, 5, path, h, parts, 0)
  BY <1>8, <1>10, ArgumentsAreTold, Zenon
<1>11. h[1] = d1 /\ h[2] = d2 /\ h[3] = pay
  <2>1. /\ h[1] = head[1 + 1].data /\ 1 + 1 = 2
        /\ h[2] = head[2 + 1].data /\ 2 + 1 = 3
        /\ h[3] = head[3 + 1].data /\ 3 + 1 = 4
    BY <1>10 DEF HeadOf, HeadLen
  <2>2. head[2].data = d1 /\ head[3].data = d2 /\ head[4].data = pay
    BY <1>5 DEF Apdu
  <2>. QED  BY <2>1, <2>2
<1>12. PICK dev : dev = d[Len(s)]
  OBVIOUS
<1>14. dev.ins = 5 /\ dev.head = h /\ dev.parts = parts
  BY <1>9, <1>12, Zenon DEF IsTold, IsAt
<1>15. PICK hash : hash = Poseidon(ctor)
  OBVIOUS
<1>25. PICK fee : fee = Poseidon(<<tx.tip, l1, l2>>)
  OBVIOUS
<1>26. PICK payHash : payHash = Poseidon(pay)
  OBVIOUS
<1>16. DeviceHash(dev) = Poseidon(<<<<"deploy_account">>, V(3), tx.sender, fee, payHash, tx.chain,
                                   tx.nonce, modes, hash, tx.classHash, tx.salt>>)
  <2>1. DeviceHash(dev) = Poseidon(<<<<"deploy_account">>, V(3), h[1][1], Poseidon(h[2]),
                            Poseidon(h[3]), h[1][2], h[1][3], h[1][4], Poseidon(FlattenSeq(parts)),
                            h[1][5], h[1][6]>>)
    BY <1>14, DeviceHashIs, Zenon DEF HashOf5
  <2>2. /\ h[1][1] = tx.sender /\ h[1][2] = tx.chain /\ h[1][3] = tx.nonce /\ h[1][4] = modes
        /\ h[1][5] = tx.classHash /\ h[1][6] = tx.salt
    BY <1>3, <1>11
  <2>3. Poseidon(h[2]) = fee /\ Poseidon(h[3]) = payHash /\ Poseidon(FlattenSeq(parts)) = hash
    BY <1>4, <1>9, <1>11, <1>15, <1>25, <1>26, Zenon
  <2>. QED  BY <2>1, <2>2, <2>3, Zenon
<1>27. fee = hashFeeField(tx.tip, tx.l1, tx.l2)
  BY <1>20, <1>21, <1>25 DEF hashFeeField
<1>18. calculateDeployAccountTransactionHash(tx) =
         Poseidon(<<<<"deploy_account">>, V(3), tx.sender, fee, payHash, tx.chain, tx.nonce, modes>>
                    \o <<hash, tx.classHash, tx.salt>>)
  <2>1. V(3) \in ETransactionVersion3
    BY DEF V, F, ETransactionVersion3
  <2>. QED
    BY <1>1, <1>15, <1>22, <1>23, <1>26, <1>27, <2>1
    DEF calculateDeployAccountTransactionHash, DeployV3, CommonV3
<1>19. <<<<"deploy_account">>, V(3), tx.sender, fee, payHash, tx.chain, tx.nonce, modes>>
         \o <<hash, tx.classHash, tx.salt>>
         = <<<<"deploy_account">>, V(3), tx.sender, fee, payHash, tx.chain, tx.nonce, modes, hash,
             tx.classHash, tx.salt>>
  <2>1. IsJoined(
          <<<<"deploy_account">>, V(3), tx.sender, fee, payHash, tx.chain, tx.nonce, modes, hash,
            tx.classHash, tx.salt>>,
          <<<<"deploy_account">>, V(3), tx.sender, fee, payHash, tx.chain, tx.nonce, modes>>,
          <<hash, tx.classHash, tx.salt>>, 8, 3)
    BY DEF IsJoined, IsList
  <2>. QED  BY <2>1, JoinedIs, Zenon
<1>. QED  BY <1>9, <1>12, <1>16, <1>18, <1>19, Zenon DEF SignsFor, IsTold

\* signRaw() tells it a hash.
LEMMA SignRawTells ==
  ASSUME NEW path, NEW hash, NEW s, s = signRaw(path, hash), NEW d, IsTaking(d, s)
  PROVE  /\ Len(s) \in Nat /\ Len(s) >= 2
         /\ IsReached(d, s, Len(s)) /\ IsComplete(d[Len(s)])
<1>1. PICK a : a = Apdu(2, 0, 0, path)
  OBVIOUS
<1>2. PICK b : b = Apdu(2, 1, 0, <<hash>>)
  OBVIOUS
<1>3. s = <<a, b>>
  BY <1>1, <1>2 DEF signRaw
<1>4. Len(s) = 2 /\ s[1] = a /\ s[2] = b
  BY <1>3
<1>5. a.ins = 2 /\ a.p1 = 0 /\ b.ins = 2 /\ b.p1 = 1 /\ b.data = <<hash>>
  BY <1>1, <1>2 DEF Apdu
<1>6. d[0] = Idle /\ d[1] = Collect(d[0], a) /\ d[2] = Collect(d[1], b)
  <2>1. d[0] = Idle /\ \A k \in 1 .. 2 : d[k] = Collect(d[k - 1], s[k])
    BY <1>4, TakingIs
  <2>2. 1 \in 1 .. 2 /\ 2 \in 1 .. 2 /\ 1 - 1 = 0 /\ 2 - 1 = 1
    OBVIOUS
  <2>. QED  BY <1>4, <2>1, <2>2
<1>7. PICK dev : dev = d[1]
  OBVIOUS
<1>8. PICK new : new = d[2]
  OBVIOUS
<1>9. Accepts(d[0], a) /\ ~IsComplete(dev) /\ IsAt(dev, 2, a.data, <<>>, <<>>, FALSE, 0)
  <2>1. PICK old : old = d[0]
    OBVIOUS
  <2>2. dev = Collect(old, a) /\ a.ins \in 2 .. 6 /\ a.p1 = 0
    BY <1>5, <1>6, <1>7, <2>1
  <2>3. /\ Accepts(old, a) /\ ~IsComplete(dev)
        /\ IsAt(dev, a.ins, a.data, <<>>, <<>>, FALSE, 0)
    BY <2>2, PathIsTaken, Zenon
  <2>. QED  BY <1>5, <2>1, <2>3, Zenon
<1>10. IsDevice(dev) /\ dev.ins = 2 /\ dev.head = <<>>
  BY <1>9 DEF IsAt
<1>11. Accepts(dev, b)
  BY <1>5, <1>10 DEF Accepts
<1>12. new.ins = 2 /\ new.head = Append(dev.head, b.data)
  <2>1. HasTaken(dev, b, new)
    BY <1>6, <1>7, <1>8, <1>10, CollectIs
  <2>. QED  BY <1>5, <1>10, <2>1 DEF HasTaken
<1>13. IsComplete(new)
  <2>1. new.head # <<>>
    BY <1>5, <1>10, <1>12
  <2>3. ~TakesCalls(new.ins) /\ new.ins = 2 /\ new.ins \notin {5, 6}
    BY <1>12 DEF TakesCalls
  <2>2. IsComplete(new) <=> new.head # <<>>
    BY <2>3 DEF IsComplete
  <2>. QED  BY <2>1, <2>2
<1>14. IsReached(d, s, 2)
  <2>1. \A i \in 1 .. 2 : i = 1 \/ i = 2
    OBVIOUS
  <2>2. \A i \in 1 .. 2 - 1 : i = 1
    OBVIOUS
  <2>3. 1 - 1 = 0 /\ 2 - 1 = 1
    OBVIOUS
  <2>4. \A i \in 1 .. 2 : Accepts(d[i - 1], s[i])
    BY <1>4, <1>7, <1>9, <1>11, <2>1, <2>3
  <2>5. \A i \in 1 .. 2 - 1 : ~IsComplete(d[i])
    BY <1>7, <1>9, <2>2
  <2>. QED  BY <2>4, <2>5, Zenon DEF IsReached
<1>. QED  BY <1>4, <1>8, <1>13, <1>14

\* A job that a device can be told of.
Tellable(j) == IsSupported(j) /\ FitsItsCommands(j) /\ ~CannotBeShown(j)

\* The device takes a whole script, is complete with its last command and no
\* sooner, and has the library's hash of what it shows.
IsSigned(d, s, j) ==
  /\ Len(s) \in Nat /\ Len(s) >= 2
  /\ IsReached(d, s, Len(s)) /\ IsComplete(d[Len(s)])
  /\ IsShown(j) => DeviceHash(d[Len(s)]) = msgHash(j)

\* It does so with the script of every signature that it can be told of.
LEMMA ScriptIsTaken ==
  ASSUME NEW j \in Jobs, Tellable(j), j.op # "pubKey", NEW s, s = Script(j), NEW d, IsTaking(d, s)
  PROVE  IsSigned(d, s, j)
<1>1. PICK path : path = <<PathOf(j.signer)>>
  BY Zenon
<1>2. PICK tx : tx = j.tx
  OBVIOUS
<1>3. IsList(tx.ctor) /\ AreCalls(tx.calls)
  BY <1>2, SignersAssumption DEF Jobs, AreCalls
<1>4. CASE ~IsShown(j)
  <2>1. PICK hash : hash = msgHash(j)
    OBVIOUS
  <2>2. s = signRaw(path, hash)
    BY <1>1, <1>4, <2>1 DEF Script
  <2>3. /\ Len(s) \in Nat /\ Len(s) >= 2
        /\ IsReached(d, s, Len(s)) /\ IsComplete(d[Len(s)])
    BY <2>2, SignRawTells
  <2>. QED  BY <1>4, <2>3, Zenon DEF IsSigned
<1>5. CASE IsShown(j)
  <2>1. ~CannotBeShown(j)
    BY DEF Tellable
  <2>2. /\ tx.version \in {V(1), V(3)}
        /\ j.op = "invoke" => tx.cairo = 1 /\ tx.calls # <<>>
        /\ j.op = "invoke" /\ IsV3(j) => tx.deployData = tx.paymaster
        /\ j.op = "deploy" => tx.ctor # <<>>
    BY <1>2, <1>5, <2>1 DEF CannotBeShown
  <2>3. V(3) \in ETransactionVersion3 /\ V(1) \notin ETransactionVersion3
    BY DEF V, F, ETransactionVersion3
  <2>4. IsV3(j) <=> tx.version = V(3)
    BY <1>2, <2>2, <2>3 DEF IsV3
  <2>5. j.op = "invoke" \/ j.op = "deploy"
    BY <1>5 DEF IsShown
  <2>6. CASE j.op = "invoke"
    <3>1. s = IF IsV3(j) THEN signTxV3(path, tx) ELSE signTxV1(path, tx)
      BY <1>1, <1>2, <1>5, <2>6 DEF Script
    <3>2. msgHash(j) = calculateInvokeTransactionHash(tx)
      BY <1>2, <2>6 DEF msgHash
    <3>3. SignsFor(d, s, calculateInvokeTransactionHash(tx))
      <4>1. CASE IsV3(j)
        <5>1. s = signTxV3(path, tx) /\ tx.version = V(3)
          BY <2>4, <3>1, <4>1
        <5>2. tx.cairo = 1 /\ tx.calls # <<>> /\ tx.deployData = tx.paymaster
          BY <2>2, <2>6, <4>1
        <5>. QED  BY <1>3, <5>1, <5>2, SignTxV3Tells
      <4>2. CASE ~IsV3(j)
        <5>1. s = signTxV1(path, tx) /\ tx.version = V(1)
          BY <2>2, <2>4, <3>1, <4>2
        <5>2. tx.cairo = 1 /\ tx.calls # <<>>
          BY <2>2, <2>6
        <5>. QED  BY <1>3, <5>1, <5>2, SignTxV1Tells
      <4>. QED  BY <4>1, <4>2
    <3>. QED  BY <3>2, <3>3, Zenon DEF SignsFor, IsSigned
  <2>7. CASE j.op = "deploy"
    <3>1. s = IF IsV3(j) THEN signDeployAccountV3(path, tx) ELSE signDeployAccountV1(path, tx)
      BY <1>1, <1>2, <1>5, <2>7 DEF Script
    <3>2. msgHash(j) = calculateDeployAccountTransactionHash(tx)
      BY <1>2, <2>7 DEF msgHash
    <3>3. SignsFor(d, s, calculateDeployAccountTransactionHash(tx))
      <4>1. CASE IsV3(j)
        <5>1. s = signDeployAccountV3(path, tx) /\ tx.version = V(3)
          BY <2>4, <3>1, <4>1
        <5>. QED  BY <1>3, <2>2, <2>7, <5>1, SignDeployV3Tells
      <4>2. CASE ~IsV3(j)
        <5>1. s = signDeployAccountV1(path, tx) /\ tx.version = V(1)
          BY <2>2, <2>4, <3>1, <4>2
        <5>. QED  BY <1>3, <2>2, <2>7, <5>1, SignDeployV1Tells
      <4>. QED  BY <4>1, <4>2
    <3>. QED  BY <3>2, <3>3, Zenon DEF SignsFor, IsSigned
  <2>. QED  BY <2>5, <2>6, <2>7
<1>. QED  BY <1>4, <1>5

------------------------------------------------------------------------------
(* The commands that are not awaited.                                       *)

\* Every command is awaited.
AreAwaited(s) == \A i \in 1 .. Len(s) : s[i].awaited = TRUE

\* A call that is not long has one part.
LEMMA ShortCall ==
  ASSUME NEW call, IsList(call.args), ~IsLong(call), NEW ins, NEW p1
  PROVE  \E x : CallCommands(ins, p1, call) = <<Apdu(ins, p1, 0, x), Apdu(ins, p1, 2, <<>>)>>
<1>1. PICK args : args = call.args
  OBVIOUS
<1>2. PICK S : args \in Seq(S)
  BY <1>1 DEF IsList
<1>3. PICK pair : pair = <<call.to, call.selector>>
  BY Zenon
<1>4. PICK words : words = pair \o args
  BY Zenon
<1>5. IsList(pair) /\ Len(pair) = 2
  BY <1>3 DEF IsList
<1>6. HasHead(words, pair, args, 2)
  BY <1>2, <1>4, <1>5, HeadAndRest, Zenon
<1>7. PICK l \in Nat \ {0} : l = Len(words) /\ l = Len(args) + 2
  BY <1>6 DEF HasHead
<1>8. l <= PartLen
  BY <1>1, <1>7, SignersAssumption DEF IsLong
<1>9. PICK parts : parts = Chunks(words)
  OBVIOUS
<1>10. Len(parts) = 1
  <2>1. PICK m \in Nat \ {0} : /\ \E end : AreCuts(words, Chunks(words), m, end)
                               /\ l <= PartLen => m = 1
    BY <1>7, ChunksAreCut, Zenon
  <2>2. PICK end : AreCuts(words, Chunks(words), m, end)
    BY <2>1
  <2>. QED  BY <1>8, <1>9, <2>1, <2>2 DEF AreCuts
<1>11. encodeCall(call) = parts
  BY <1>1, <1>3, <1>4, <1>9 DEF encodeCall
<1>12. PICK first : first = Apdu(ins, p1, 0, parts[1])
  OBVIOUS
<1>13. PICK closing : closing = Apdu(ins, p1, 2, <<>>)
  OBVIOUS
<1>14. CallCommands(ins, p1, call) = (<<first>> \o <<>>) \o <<closing>>
  <2>1. [i \in 1 .. Len(parts) - 1 |-> LooseApdu(ins, p1, 1, parts[i + 1])] = <<>>
    BY <1>10
  <2>. QED  BY <1>11, <1>12, <1>13, <2>1, Zenon DEF CallCommands
<1>15. (<<first>> \o <<>>) \o <<closing>> = <<first, closing>>
  <2>1. IsJoined(<<first>>, <<first>>, <<>>, 1, 0)
    BY DEF IsJoined, IsList
  <2>2. IsJoined(<<first, closing>>, <<first>>, <<closing>>, 1, 1)
    BY DEF IsJoined, IsList
  <2>3. <<first>> \o <<>> = <<first>>
    BY <2>1, JoinedIs
  <2>4. <<first>> \o <<closing>> = <<first, closing>>
    BY <2>2, JoinedIs, Zenon
  <2>. QED  BY <2>3, <2>4, Zenon
<1>. QED  BY <1>12, <1>13, <1>14, <1>15

\* Calls none of which is long are awaited.
LEMMA ShortCalls ==
  ASSUME NEW calls, AreCalls(calls), \A i \in DOMAIN calls : ~IsLong(calls[i]), NEW ins, NEW p1
  PROVE  /\ \E X : CallsCommands(ins, p1, calls) \in Seq(X)
         /\ AreAwaited(CallsCommands(ins, p1, calls))
<1>1. PICK n \in Nat : DOMAIN calls = 1 .. n /\ \A i \in 1 .. n : IsList(calls[i].args)
  <2>1. IsList(calls) /\ \A i \in DOMAIN calls : IsList(calls[i].args)
    BY DEF AreCalls
  <2>2. PICK n \in Nat : DOMAIN calls = 1 .. n
    BY <2>1 DEF IsList
  <2>. QED  BY <2>1, <2>2
<1>2. PICK X : X = {a \in UNION {{CallCommands(ins, p1, calls[i])[k] : k \in 1 .. 2} : i \in 1 .. n} :
                      a.awaited = TRUE}
  BY Zenon
<1>3. PICK seqs : seqs = [i \in 1 .. n |-> CallCommands(ins, p1, calls[i])]
  BY Zenon
<1>4. ASSUME NEW i \in 1 .. n
      PROVE  CallCommands(ins, p1, calls[i]) \in EndsIn(X, X)
  <2>1. PICK cmds : cmds = CallCommands(ins, p1, calls[i])
    OBVIOUS
  <2>2. PICK call : call = calls[i]
    OBVIOUS
  <2>3. IsList(call.args) /\ ~IsLong(call)
    BY <1>1, <2>2
  <2>4. PICK x : cmds = <<Apdu(ins, p1, 0, x), Apdu(ins, p1, 2, <<>>)>>
    BY <2>1, <2>2, <2>3, ShortCall
  <2>5. PICK a : a = Apdu(ins, p1, 0, x)
    OBVIOUS
  <2>6. PICK b : b = Apdu(ins, p1, 2, <<>>)
    OBVIOUS
  <2>7. a.awaited = TRUE /\ b.awaited = TRUE
    BY <2>5, <2>6 DEF Apdu
  <2>8. cmds = <<a, b>> /\ cmds[1] = a /\ cmds[2] = b
    BY <2>4, <2>5, <2>6
  <2>9. a \in X /\ b \in X
    <3>1. cmds[1] \in {CallCommands(ins, p1, calls[i])[k] : k \in 1 .. 2}
          /\ cmds[2] \in {CallCommands(ins, p1, calls[i])[k] : k \in 1 .. 2}
      BY <2>1
    <3>. QED  BY <1>2, <2>7, <2>8, <3>1
  <2>10. cmds \in Seq(X) /\ cmds # <<>> /\ Len(cmds) = 2
    BY <2>8, <2>9
  <2>. QED  BY <2>1, <2>8, <2>9, <2>10 DEF EndsIn
<1>5. seqs \in [1 .. n -> EndsIn(X, X)]
  BY <1>3, <1>4
<1>6. seqs \in Seq(EndsIn(X, X))
  BY <1>5, FunctionIsList
<1>7. PICK flat : flat = CallsCommands(ins, p1, calls)
  OBVIOUS
<1>8. flat = FlattenSeq(seqs)
  BY <1>1, <1>3, <1>7 DEF CallsCommands
<1>9. flat \in EndsIn(X, X) \union {<<>>}
  BY <1>6, <1>8, FlattenEnds
<1>10. flat \in Seq(X)
  <2>1. flat \in Seq(X) \/ flat = <<>>
    BY <1>9, Zenon DEF EndsIn
  <2>2. <<>> \in Seq(X)
    OBVIOUS
  <2>. QED  BY <2>1, <2>2, Zenon
<1>11. \A i \in 1 .. Len(flat) : flat[i] \in X
  BY <1>10
<1>12. \A a \in X : a.awaited = TRUE
  BY <1>2
<1>. QED  BY <1>7, <1>10, <1>11, <1>12, Zenon DEF AreAwaited

\* A head that is awaited, and more that are.
LEMMA AwaitedHead ==
  ASSUME NEW head, NEW m \in Nat, IsList(head), Len(head) = m, AreAwaited(head),
         NEW S, NEW more \in Seq(S), AreAwaited(more)
  PROVE  AreAwaited(head \o more)
<1>1. PICK s : s = head \o more
  BY Zenon
<1>2. PICK l \in Nat : l = Len(more)
  OBVIOUS
<1>3. /\ Len(s) = m + l
      /\ \A i \in 1 .. m : s[i] = head[i]
      /\ \A i \in 1 .. l : s[m + i] = more[i]
  <2>1. HasHead(s, head, more, m)
    BY <1>1, HeadAndRest
  <2>. QED  BY <1>2, <2>1, Zenon DEF HasHead
<1>4. ASSUME NEW i \in 1 .. m + l
      PROVE  s[i].awaited = TRUE
  <2>1. CASE i \in 1 .. m
    BY <1>3, <2>1 DEF AreAwaited
  <2>2. CASE i \notin 1 .. m
    <3>1. i - m \in 1 .. l /\ m + (i - m) = i
      BY <1>2, <2>2
    <3>2. s[m + (i - m)] = more[i - m]
      BY <1>3, <3>1, Zenon
    <3>3. more[i - m].awaited = TRUE
      BY <1>2, <3>1, Zenon DEF AreAwaited
    <3>. QED  BY <3>1, <3>2, <3>3
  <2>. QED  BY <2>1, <2>2, Zenon
<1>. QED  BY <1>1, <1>3, <1>4 DEF AreAwaited

\* Only an invocation with a long call has commands that are not awaited.
LEMMA NotAwaited ==
  ASSUME NEW j \in Jobs, ~AreAwaited(Script(j))
  PROVE  /\ IsShown(j) /\ j.op = "invoke"
         /\ \E i \in DOMAIN j.tx.calls : IsLong(j.tx.calls[i])
<1>1. PICK path : path = <<PathOf(j.signer)>>
  BY Zenon
<1>2. PICK tx : tx = j.tx
  OBVIOUS
<1>3. IsList(tx.ctor) /\ AreCalls(tx.calls)
  BY <1>2, SignersAssumption DEF Jobs, AreCalls
<1>4. PICK s : s = Script(j)
  OBVIOUS
<1>5. CASE j.op = "pubKey"
  <2>1. s = getPublicKeys(path)
    BY <1>1, <1>4, <1>5 DEF Script
  <2>2. AreAwaited(s)
    BY <2>1 DEF AreAwaited, getPublicKeys, Apdu
  <2>. QED  BY <1>4, <2>2
<1>6. CASE j.op # "pubKey" /\ ~IsShown(j)
  <2>1. s = signRaw(path, msgHash(j))
    BY <1>1, <1>4, <1>6 DEF Script
  <2>2. AreAwaited(s)
    BY <2>1 DEF AreAwaited, signRaw, Apdu
  <2>. QED  BY <1>4, <2>2
<1>7. CASE IsShown(j) /\ j.op = "deploy"
  <2>1. s = IF IsV3(j) THEN signDeployAccountV3(path, tx) ELSE signDeployAccountV1(path, tx)
    BY <1>1, <1>2, <1>4, <1>7 DEF Script
  <2>2. \A ins, p1 : /\ \E S : ConstructorCommands(ins, p1, tx.ctor) \in Seq(S)
                     /\ AreAwaited(ConstructorCommands(ins, p1, tx.ctor))
    <3>. SUFFICES ASSUME NEW ins, NEW p1
                  PROVE  /\ \E S : ConstructorCommands(ins, p1, tx.ctor) \in Seq(S)
                         /\ AreAwaited(ConstructorCommands(ins, p1, tx.ctor))
      OBVIOUS
    <3>1. PICK parts : parts = Chunks(tx.ctor)
      OBVIOUS
    <3>2. PICK n \in Nat : DOMAIN parts = 1 .. n
      <4>1. Len(tx.ctor) \in Nat
        BY <1>3 DEF IsList
      <4>. QED  BY <3>1, <4>1, ChunksAre
    <3>3. PICK cmds : cmds = ConstructorCommands(ins, p1, tx.ctor)
      OBVIOUS
    <3>4. cmds = [i \in 1 .. n |-> Apdu(ins, p1, 0, parts[i])]
      BY <3>1, <3>2, <3>3 DEF ConstructorCommands
    <3>5. PICK S : S = {cmds[i] : i \in 1 .. n}
      BY Zenon
    <3>6. cmds \in [1 .. n -> S]
      BY <3>4, <3>5
    <3>7. cmds \in Seq(S) /\ Len(cmds) = n
      BY <3>6, FunctionIsList
    <3>8. \A i \in 1 .. n : cmds[i].awaited = TRUE
      BY <3>4 DEF Apdu
    <3>. QED  BY <3>3, <3>7, <3>8, Zenon DEF AreAwaited
  <2>3. \E head, m, more, S : /\ m \in Nat /\ IsList(head) /\ Len(head) = m /\ AreAwaited(head)
                              /\ more \in Seq(S) /\ AreAwaited(more) /\ s = head \o more
    <3>1. CASE IsV3(j)
      <4>1. PICK more : more = ConstructorCommands(5, 5, tx.ctor)
        OBVIOUS
      <4>2. PICK head :
              head = <<Apdu(5, 0, 0, path),
                       Apdu(5, 1, 0, <<tx.sender, tx.chain, tx.nonce,
                                       hashDAMode(intDAM(tx.nonceDAM), intDAM(tx.feeDAM)),
                                       tx.classHash, tx.salt>>),
                       Apdu(5, 2, 0, <<tx.tip, encodeResourceBounds("L1_GAS", tx.l1),
                                       encodeResourceBounds("L2_GAS", tx.l2)>>),
                       Apdu(5, 3, 0, tx.paymaster),
                       Apdu(5, 4, 0, <<N(Len(tx.ctor))>>)>>
        BY Zenon
      <4>3. s = head \o more
        BY <2>1, <3>1, <4>1, <4>2 DEF signDeployAccountV3
      <4>4. IsList(head) /\ Len(head) = 5 /\ AreAwaited(head)
        <5>1. IsList(head) /\ Len(head) = 5
          BY <4>2 DEF IsList
        <5>2. \A i \in 1 .. 5 : head[i].awaited = TRUE
          BY <4>2 DEF Apdu
        <5>. QED  BY <5>1, <5>2, Zenon DEF AreAwaited
      <4>5. PICK S : more \in Seq(S)
        BY <2>2, <4>1
      <4>6. AreAwaited(more) /\ 5 \in Nat
        BY <2>2, <4>1
      <4>. QED  BY <4>3, <4>4, <4>5, <4>6, Zenon
    <3>2. CASE ~IsV3(j)
      <4>1. PICK more : more = ConstructorCommands(6, 4, tx.ctor)
        OBVIOUS
      <4>2. PICK head :
              head = <<Apdu(6, 0, 0, path),
                       Apdu(6, 1, 0, <<tx.sender, tx.classHash, tx.salt, tx.chain, tx.nonce>>),
                       Apdu(6, 2, 0, <<tx.maxFee>>),
                       Apdu(6, 3, 0, <<N(Len(tx.ctor))>>)>>
        BY Zenon
      <4>3. s = head \o more
        BY <2>1, <3>2, <4>1, <4>2 DEF signDeployAccountV1
      <4>4. IsList(head) /\ Len(head) = 4 /\ AreAwaited(head)
        <5>1. IsList(head) /\ Len(head) = 4
          BY <4>2 DEF IsList
        <5>2. \A i \in 1 .. 4 : head[i].awaited = TRUE
          BY <4>2 DEF Apdu
        <5>. QED  BY <5>1, <5>2, Zenon DEF AreAwaited
      <4>5. PICK S : more \in Seq(S)
        BY <2>2, <4>1
      <4>6. AreAwaited(more) /\ 4 \in Nat
        BY <2>2, <4>1
      <4>. QED  BY <4>3, <4>4, <4>5, <4>6, Zenon
    <3>. QED  BY <3>1, <3>2, Zenon
  <2>4. AreAwaited(s)
    BY <2>3, AwaitedHead
  <2>. QED  BY <1>4, <2>4
<1>8. CASE IsShown(j) /\ j.op = "invoke" /\ \A i \in DOMAIN tx.calls : ~IsLong(tx.calls[i])
  <2>1. s = IF IsV3(j) THEN signTxV3(path, tx) ELSE signTxV1(path, tx)
    BY <1>1, <1>2, <1>4, <1>8 DEF Script
  <2>2. \A ins, p1 : /\ \E S : CallsCommands(ins, p1, tx.calls) \in Seq(S)
                     /\ AreAwaited(CallsCommands(ins, p1, tx.calls))
    BY <1>3, <1>8, ShortCalls
  <2>3. \E head, m, more, S : /\ m \in Nat /\ IsList(head) /\ Len(head) = m /\ AreAwaited(head)
                              /\ more \in Seq(S) /\ AreAwaited(more) /\ s = head \o more
    <3>1. CASE IsV3(j)
      <4>1. PICK more : more = CallsCommands(3, 5, tx.calls)
        OBVIOUS
      <4>2. PICK head :
              head = <<Apdu(3, 0, 0, path),
                       Apdu(3, 1, 0, <<tx.sender, tx.tip, encodeResourceBounds("L1_GAS", tx.l1),
                                       encodeResourceBounds("L2_GAS", tx.l2), tx.chain, tx.nonce,
                                       hashDAMode(intDAM(tx.nonceDAM), intDAM(tx.feeDAM))>>),
                       Apdu(3, 2, 0, tx.paymaster),
                       Apdu(3, 3, 0, tx.paymaster),
                       Apdu(3, 4, 0, <<N(Len(tx.calls))>>)>>
        BY Zenon
      <4>3. s = head \o more
        BY <2>1, <3>1, <4>1, <4>2 DEF signTxV3
      <4>4. IsList(head) /\ Len(head) = 5 /\ AreAwaited(head)
        <5>1. IsList(head) /\ Len(head) = 5
          BY <4>2 DEF IsList
        <5>2. \A i \in 1 .. 5 : head[i].awaited = TRUE
          BY <4>2 DEF Apdu
        <5>. QED  BY <5>1, <5>2, Zenon DEF AreAwaited
      <4>5. PICK S : more \in Seq(S)
        BY <2>2, <4>1
      <4>6. AreAwaited(more) /\ 5 \in Nat
        BY <2>2, <4>1
      <4>. QED  BY <4>3, <4>4, <4>5, <4>6, Zenon
    <3>2. CASE ~IsV3(j)
      <4>1. PICK more : more = CallsCommands(4, 3, tx.calls)
        OBVIOUS
      <4>2. PICK head : head = <<Apdu(4, 0, 0, path),
                                 Apdu(4, 1, 0, <<tx.sender, tx.maxFee, tx.chain, tx.nonce>>),
                                 Apdu(4, 2, 0, <<N(Len(tx.calls))>>)>>
        BY Zenon
      <4>3. s = head \o more
        BY <2>1, <3>2, <4>1, <4>2 DEF signTxV1
      <4>4. IsList(head) /\ Len(head) = 3 /\ AreAwaited(head)
        <5>1. IsList(head) /\ Len(head) = 3
          BY <4>2 DEF IsList
        <5>2. \A i \in 1 .. 3 : head[i].awaited = TRUE
          BY <4>2 DEF Apdu
        <5>. QED  BY <5>1, <5>2, Zenon DEF AreAwaited
      <4>5. PICK S : more \in Seq(S)
        BY <2>2, <4>1
      <4>6. AreAwaited(more) /\ 3 \in Nat
        BY <2>2, <4>1
      <4>. QED  BY <4>3, <4>4, <4>5, <4>6, Zenon
    <3>. QED  BY <3>1, <3>2, Zenon
  <2>4. AreAwaited(s)
    BY <2>3, AwaitedHead
  <2>. QED  BY <1>4, <2>4
<1>9. IsShown(j) => j.op = "invoke" \/ j.op = "deploy"
  BY DEF IsShown
<1>. QED  BY <1>2, <1>5, <1>6, <1>7, <1>8, <1>9

------------------------------------------------------------------------------
(* Why a call fails.                                                        *)

\* The device after n commands of a job.
After(j, n) == (CHOOSE d : IsTaking(d, Script(j)))[n]

\* Each command is taken, and the last completes what the library has hashed.
TellsAll(j) ==
  LET s == Script(j)
      L == Len(Script(j))
  IN /\ L \in Nat /\ L >= 2
     /\ \A n \in 1 .. L : /\ Accepts(After(j, n - 1), s[n])
                          /\ After(j, n) = Collect(After(j, n - 1), s[n])
                          /\ IsComplete(After(j, n)) <=> n = L
     /\ After(j, 0) = Idle
     /\ IsShown(j) => DeviceHash(After(j, L)) = msgHash(j)

\* So it is with every signature that the device can be told of.
LEMMA TellableIsTold ==
  ASSUME NEW j \in Jobs, Tellable(j), j.op # "pubKey"
  PROVE  TellsAll(j)
<1>1. PICK s : s = Script(j)
  OBVIOUS
<1>2. PICK d : d = CHOOSE f : IsTaking(f, s)
  OBVIOUS
<1>3. IsScript(s, <<PathOf(j.signer)>>)
  BY <1>1, ScriptIs
<1>4. PICK L \in Nat : L = Len(s)
  BY <1>3 DEF IsScript
<1>5. IsTaking(d, s)
  <2>1. \E f : IsTaking(f, s)
    BY <1>4, TakingExists
  <2>. QED  BY <1>2, <2>1, Zenon
<1>6. IsSigned(d, s, j)
  BY <1>1, <1>5, ScriptIsTaken
<1>7. \A n : After(j, n) = d[n]
  BY <1>1, <1>2, Zenon DEF After
<1>8. d[0] = Idle /\ \A n \in 1 .. L : d[n] = Collect(d[n - 1], s[n])
  BY <1>4, <1>5, TakingIs
<1>9. /\ L >= 2 /\ \A n \in 1 .. L : Accepts(d[n - 1], s[n])
      /\ \A n \in 1 .. L - 1 : ~IsComplete(d[n])
      /\ IsComplete(d[L]) /\ (IsShown(j) => DeviceHash(d[L]) = msgHash(j))
  BY <1>4, <1>6, Zenon DEF IsSigned, IsReached
<1>10. ASSUME NEW n \in 1 .. L
       PROVE  IsComplete(d[n]) <=> n = L
  <2>1. n = L \/ n \in 1 .. L - 1
    OBVIOUS
  <2>. QED  BY <1>9, <2>1
<1>. QED  BY <1>1, <1>4, <1>7, <1>8, <1>9, <1>10, ZenonT(40) DEF TellsAll

\* The transport does not part the commands of the call, the user and the other
\* calls do not come between, and the device can be told of what it signs.
Clear(c) ==
  /\ Tellable(job[c])
  /\ transport = "queued" \/ AreAwaited(Script(job[c]))
  /\ c \notin mixed /\ c \notin refusals

\* The device has processed n commands of the call; the q that follow are in
\* flight, side by side behind the first b.
HasBlock(c, n, b, q) ==
  /\ n \in Nat /\ b \in Nat /\ q \in Nat /\ b + q <= Len(flight)
  /\ n + q + Len(script[c]) = Len(Script(job[c]))
  /\ \A k \in DOMAIN flight : flight[k].call = c <=> b < k /\ k <= b + q
  /\ \A m \in 1 .. q : flight[b + m].apdu = Script(job[c])[n + m]
  /\ transport = "queued" \/ q <= 1

\* It has collected them, or has answered after the last.
HasWorked(c, n) ==
  /\ 0 < n /\ n < Len(Script(job[c])) => device = After(job[c], n)
  /\ n = Len(Script(job[c])) =>
       /\ job[c].op # "pubKey" /\ answer[c] # NoAnswer
       /\ IsShown(job[c]) => answer[c].hash = msgHash(job[c])

Progress(c) == \E n, b, q : HasBlock(c, n, b, q) /\ HasWorked(c, n)

\* A clear call makes progress, and does not fail.
CallCause(c) ==
  /\ pc[c] = "running" /\ Clear(c) => Progress(c)
  /\ pc[c] = "done" /\ ~result[c].ok => ~Clear(c)

CauseInv == \A c \in Callers : CallCause(c)

\* A step of one call leaves what is about the others.
Leaves(c) ==
  /\ job' = job /\ transport' = transport /\ mixed \subseteq mixed' /\ refusals \subseteq refusals'
  /\ \A e \in Callers \ {c} : pc'[e] = pc[e] /\ script'[e] = script[e]
                              /\ answer'[e] = answer[e] /\ result'[e] = result[e]

\* A call that is clear was so before.
LEMMA ClearBefore ==
  ASSUME job' = job, transport' = transport, mixed \subseteq mixed', refusals \subseteq refusals',
         NEW e \in Callers, Clear(e)'
  PROVE  Clear(e)
BY DEF Clear

\* What is about another call stays so, if its progress does.
LEMMA OthersStay ==
  ASSUME NEW c \in Callers, Leaves(c), CauseInv,
         \A e \in Callers \ {c} : pc[e] = "running" /\ e \notin mixed' /\ Progress(e) => Progress(e)',
         CallCause(c)'
  PROVE  CauseInv'
<1>1. ASSUME NEW e \in Callers \ {c}
      PROVE  CallCause(e)'
  <2>1. pc'[e] = pc[e] /\ result'[e] = result[e]
    BY DEF Leaves
  <2>2. Clear(e)' => Clear(e) /\ e \notin mixed'
    <3>1. Clear(e)' => Clear(e)
      BY ClearBefore DEF Leaves
    <3>. QED  BY <3>1 DEF Clear
  <2>3. CallCause(e)
    BY DEF CauseInv
  <2>. QED  BY <2>1, <2>2, <2>3 DEF CallCause
<1>. QED  BY <1>1 DEF CauseInv

\* In flight there is what there was, and behind it nothing of this call.
Behind(e) ==
  /\ Len(flight) \in Nat /\ Len(flight') \in Nat /\ Len(flight) <= Len(flight')
  /\ DOMAIN flight = 1 .. Len(flight) /\ DOMAIN flight' = 1 .. Len(flight')
  /\ \A k \in 1 .. Len(flight) : flight'[k] = flight[k]
  /\ \A k \in 1 .. Len(flight') : k > Len(flight) => flight'[k].call # e

\* Such commands do not disturb it.
LEMMA ProgressBehind ==
  ASSUME NEW e \in Callers, Behind(e), Progress(e), job' = job, transport' = transport,
         device' = device, script'[e] = script[e], answer'[e] = answer[e]
  PROVE  Progress(e)'
<1>1. PICK n, b, q : HasBlock(e, n, b, q) /\ HasWorked(e, n)
  BY DEF Progress
<1>2. HasBlock(e, n, b, q)'
  <2>1. /\ n \in Nat /\ b \in Nat /\ q \in Nat /\ b + q <= Len(flight)
        /\ n + q + Len(script[e]) = Len(Script(job[e]))
        /\ \A k \in DOMAIN flight : flight[k].call = e <=> b < k /\ k <= b + q
        /\ \A m \in 1 .. q : flight[b + m].apdu = Script(job[e])[n + m]
        /\ transport = "queued" \/ q <= 1
    BY <1>1, Zenon DEF HasBlock
  <2>2. PICK w \in Nat : w = Len(flight)
    BY Zenon DEF Behind
  <2>3. PICK v \in Nat : v = Len(flight')
    BY Zenon DEF Behind
  <2>4. /\ w <= v /\ DOMAIN flight = 1 .. w /\ DOMAIN flight' = 1 .. v
        /\ \A k \in 1 .. w : flight'[k] = flight[k]
        /\ \A k \in 1 .. v : k > w => flight'[k].call # e
    BY <2>2, <2>3 DEF Behind
  <2>5. ASSUME NEW k \in 1 .. v
        PROVE  flight'[k].call = e <=> b < k /\ k <= b + q
    <3>1. CASE k <= w
      BY <2>1, <2>4, <3>1
    <3>2. CASE k > w
      BY <2>1, <2>2, <2>4, <3>2
    <3>. QED  BY <3>1, <3>2
  <2>6. ASSUME NEW m \in 1 .. q
        PROVE  flight'[b + m].apdu = Script(job[e])[n + m]
    <3>1. b + m \in 1 .. w
      BY <2>1, <2>2
    <3>. QED  BY <2>1, <2>4, <3>1
  <2>7. b + q <= v
    BY <2>1, <2>2, <2>4
  <2>. QED  BY <2>1, <2>3, <2>4, <2>5, <2>6, <2>7, Zenon DEF HasBlock
<1>3. HasWorked(e, n)'
  BY <1>1 DEF HasWorked
<1>. QED  BY <1>2, <1>3 DEF Progress

\* Nothing in flight changes.
LEMMA BehindSame ==
  ASSUME Types, flight' = flight, NEW e \in Callers
  PROVE  Behind(e)
<1>1. PICK w \in Nat : w = Len(flight) /\ DOMAIN flight = 1 .. w
  BY FlightIs, Zenon
<1>. QED  BY <1>1 DEF Behind

\* No call has begun.
LEMMA CauseInit == Init => CauseInv
<1>. SUFFICES ASSUME Init PROVE CauseInv
  OBVIOUS
<1>1. \A c \in Callers : pc[c] = "ready"
  BY DEF Init
<1>. QED  BY <1>1 DEF CauseInv, CallCause

\* A call that ends leaves the others.
LEMMA EndLeaves ==
  ASSUME Types, NEW c \in Callers, NEW r, End(c, r), job' = job, transport' = transport,
         \A e \in Callers \ {c} : answer'[e] = answer[e],
         mixed \subseteq mixed', refusals \subseteq refusals'
  PROVE  Leaves(c) /\ pc'[c] = "done" /\ result'[c] = r
BY EndIs DEF Leaves

\* A call may end well, or badly when it was not clear.
LEMMA EndCause ==
  ASSUME Inv, CauseInv, NEW c \in Callers, NEW r, End(c, r),
         UNCHANGED <<job, answer, transport, flight, device, refusals, mixed>>,
         ~r.ok => ~Clear(c)
  PROVE  CauseInv'
<1>1. Types
  BY DEF Inv
<1>2. Leaves(c) /\ pc'[c] = "done" /\ result'[c] = r
  BY <1>1, EndLeaves
<1>3. ASSUME NEW e \in Callers \ {c}, Progress(e)
      PROVE  Progress(e)'
  <2>1. Behind(e)
    BY <1>1, BehindSame
  <2>2. script'[e] = script[e] /\ answer'[e] = answer[e]
    BY <1>2 DEF Leaves
  <2>. QED  BY <1>3, <2>1, <2>2, ProgressBehind
<1>4. CallCause(c)'
  BY <1>2 DEF CallCause, Clear
<1>. QED  BY <1>2, <1>3, <1>4, OthersStay

\* Signer and EthSigner fail with a version that is not supported.
LEMMA SignWithKeyCause ==
  ASSUME Inv, CauseInv, NEW c \in Callers, SignWithKey(c)
  PROVE  CauseInv'
<1>1. PICK r : /\ End(c, r)
               /\ r = IF job[c].op = "pubKey" THEN Returns(Unset, KeyOf(job[c].signer))
                      ELSE IF IsSupported(job[c])
                      THEN Returns(msgHash(job[c]), KeyOf(job[c].signer))
                      ELSE Failed
  BY DEF SignWithKey
<1>2. UNCHANGED <<job, answer, transport, flight, device, refusals, mixed>>
  BY DEF SignWithKey
<1>3. ~r.ok => ~IsSupported(job[c])
  BY <1>1 DEF Returns
<1>4. ~r.ok => ~Clear(c)
  BY <1>3 DEF Clear, Tellable
<1>. QED  BY <1>1, <1>2, <1>4, EndCause

\* The key that was kept is returned.
LEMMA CachedKeyCause ==
  ASSUME Inv, CauseInv, NEW c \in Callers, CachedKey(c)
  PROVE  CauseInv'
<1>1. PICK r : End(c, r) /\ r = Returns(Unset, pubKey[job[c].signer])
  BY DEF CachedKey
<1>2. UNCHANGED <<job, answer, transport, flight, device, refusals, mixed>>
  BY DEF CachedKey
<1>3. r.ok
  BY <1>1 DEF Returns
<1>. QED  BY <1>1, <1>2, <1>3, EndCause

\* What throws at once could not be told.
LEMMA RefuseToSignCause ==
  ASSUME Inv, CauseInv, NEW c \in Callers, RefuseToSign(c)
  PROVE  CauseInv'
<1>1. End(c, Failed) /\ (~IsSupported(job[c]) \/ ~FitsItsCommands(job[c]))
  BY DEF RefuseToSign
<1>2. UNCHANGED <<job, answer, transport, flight, device, refusals, mixed>>
  BY DEF RefuseToSign
<1>3. ~Clear(c)
  BY <1>1 DEF Clear, Tellable
<1>. QED  BY <1>1, <1>2, <1>3, EndCause

\* What is known of a clear call that runs.
LEMMA RunningIs ==
  ASSUME Inv, NEW c \in Callers, pc[c] = "running"
  PROVE  /\ job[c] \in Jobs /\ Len(Script(job[c])) \in Nat \ {0}
         /\ Len(script[c]) \in Nat /\ Len(script[c]) <= Len(Script(job[c]))
         /\ script[c] = <<>> <=> Len(script[c]) = 0
<1>1. job[c] \in Jobs
  BY JobIs
<1>2. PICK s : s = Script(job[c])
  OBVIOUS
<1>3. PICK r : r = script[c]
  OBVIOUS
<1>4. IsScript(s, <<PathOf(job[c].signer)>>)
  BY <1>1, <1>2, ScriptIs
<1>5. Len(s) \in Nat \ {0}
  BY <1>4 DEF IsScript
<1>6. IsEndOf(r, job[c])
  BY <1>3 DEF Inv, CallInv, RestIsOwn
<1>7. r \in Seq(Commands(job[c])) /\ Len(r) <= Len(s)
  BY <1>2, <1>6 DEF IsEndOf
<1>8. Len(r) \in Nat /\ (r = <<>> <=> Len(r) = 0)
  BY <1>7
<1>. QED  BY <1>1, <1>2, <1>3, <1>5, <1>7, <1>8

\* When nothing of a call is in flight, its block is empty.
LEMMA NoBlock ==
  ASSUME Inv, NEW c \in Callers, ~InFlight(c), NEW n, NEW b, NEW q, HasBlock(c, n, b, q)
  PROVE  q = 0
<1>1. /\ b \in Nat /\ q \in Nat /\ b + q <= Len(flight)
      /\ \A k \in DOMAIN flight : flight[k].call = c <=> b < k /\ k <= b + q
  BY DEF HasBlock
<1>2. PICK w \in Nat : w = Len(flight) /\ DOMAIN flight = 1 .. w
  BY FlightIs, Zenon DEF Inv
<1>3. CASE q # 0
  <2>1. b + 1 \in 1 .. w /\ b < b + 1 /\ b + 1 <= b + q
    BY <1>1, <1>2, <1>3
  <2>2. flight[b + 1].call = c
    BY <1>1, <1>2, <2>1
  <2>. QED  BY <1>2, <2>1, <2>2 DEF InFlight
<1>. QED  BY <1>3

\* A clear call that waits for nothing has nothing in flight.
LEMMA NothingIsLeft ==
  ASSUME Inv, NEW c \in Callers, pc[c] = "running", ~IsWaiting(c), Clear(c)
  PROVE  ~InFlight(c)
<1>1. CASE transport = "queued"
  BY <1>1, NothingInFlight
<1>2. CASE AreAwaited(Script(job[c]))
  <2>. SUFFICES ASSUME NEW k \in DOMAIN flight, flight[k].call = c PROVE FALSE
    BY DEF InFlight
  <2>1. flight[k].apdu \in Commands(job[c])
    BY DEF Inv, FlightOf
  <2>2. flight[k].apdu.awaited
    BY <1>2, <2>1 DEF Commands, AreAwaited
  <2>. QED  BY <2>2 DEF IsWaiting
<1>. QED  BY <1>1, <1>2 DEF Clear

\* A clear call that has sent all and waits for nothing has its answer.
LEMMA FinishCause ==
  ASSUME Inv, CauseInv, NEW c \in Callers, Finish(c)
  PROVE  CauseInv'
<1>1. PICK r : /\ End(c, r)
               /\ r = IF answer[c] = NoAnswer
                          \/ (IsShown(job[c]) /\ answer[c].hash # msgHash(job[c]))
                      THEN Failed ELSE Returns(answer[c].hash, answer[c].key)
  BY DEF Finish
<1>2. /\ pc[c] = "running" /\ ~IsWaiting(c) /\ script[c] = <<>>
      /\ UNCHANGED <<job, answer, transport, flight, device, refusals, mixed>>
  BY DEF Finish
<1>3. ASSUME Clear(c)
      PROVE  r.ok
  <2>1. PICK n, b, q : HasBlock(c, n, b, q) /\ HasWorked(c, n)
    BY <1>2, <1>3 DEF CauseInv, CallCause, Progress
  <2>2. ~InFlight(c)
    BY <1>2, <1>3, NothingIsLeft
  <2>3. q = 0 /\ Len(script[c]) = 0
    BY <1>2, <2>1, <2>2, NoBlock
  <2>4. n = Len(Script(job[c]))
    <3>1. n \in Nat /\ n + q + Len(script[c]) = Len(Script(job[c]))
      BY <2>1, Zenon DEF HasBlock
    <3>. QED  BY <2>3, <3>1
  <2>5. answer[c] # NoAnswer /\ (IsShown(job[c]) => answer[c].hash = msgHash(job[c]))
    BY <2>1, <2>4 DEF HasWorked
  <2>. QED  BY <1>1, <2>5 DEF Returns
<1>. QED  BY <1>1, <1>2, <1>3, EndCause

\* A call that starts has sent nothing.
LEMMA StartCause ==
  ASSUME Inv, CauseInv, NEW c \in Callers, Start(c)
  PROVE  CauseInv'
<1>1. /\ pc[c] = "ready" /\ pc' = [pc EXCEPT ![c] = "running"]
      /\ script' = [script EXCEPT ![c] = Script(job[c])]
      /\ job' = job /\ answer' = answer /\ result' = result /\ transport' = transport
      /\ flight' = flight /\ device' = device /\ refusals' = refusals /\ mixed' = mixed
  BY DEF Start
<1>2. Types /\ ~InFlight(c)
  BY <1>1 DEF Inv, CallInv
<1>3. /\ \A e \in Callers \ {c} : pc'[e] = pc[e] /\ script'[e] = script[e]
      /\ pc'[c] = "running" /\ script'[c] = Script(job[c])
  <2>1. pc \in [Callers -> {"ready", "running", "done"}] /\ script = [e \in Callers |-> script[e]]
    BY <1>2 DEF Types
  <2>. QED  BY <1>1, <2>1
<1>4. Leaves(c)
  BY <1>1, <1>3 DEF Leaves
<1>5. ASSUME NEW e \in Callers \ {c}, Progress(e)
      PROVE  Progress(e)'
  <2>1. Behind(e)
    BY <1>1, <1>2, BehindSame
  <2>. QED  BY <1>1, <1>3, <1>5, <2>1, ProgressBehind
<1>6. Len(Script(job[c])) \in Nat \ {0}
  <2>1. IsScript(Script(job[c]), <<PathOf(job[c].signer)>>)
    BY JobIs, ScriptIs
  <2>2. PICK s : s = Script(job[c])
    OBVIOUS
  <2>3. Len(s) \in Nat \ {0}
    BY <2>1, <2>2 DEF IsScript
  <2>. QED  BY <2>2, <2>3
<1>7. HasBlock(c, 0, 0, 0)'
  <2>1. \A k \in DOMAIN flight : flight[k].call # c
    BY <1>2 DEF InFlight
  <2>2. Len(flight) \in Nat /\ DOMAIN flight = 1 .. Len(flight)
    BY <1>2, FlightIs
  <2>3. \A k \in DOMAIN flight' : flight'[k].call = c <=> 0 < k /\ k <= 0 + 0
    BY <1>1, <2>1, <2>2
  <2>4. 0 + 0 <= Len(flight') /\ 0 + 0 + Len(script'[c]) = Len(Script(job'[c]))
    BY <1>1, <1>3, <1>6, <2>2
  <2>. QED  BY <2>3, <2>4 DEF HasBlock
<1>8. HasWorked(c, 0)'
  BY <1>1, <1>6 DEF HasWorked
<1>9. Progress(c)'
  BY <1>7, <1>8 DEF Progress
<1>10. CallCause(c)'
  BY <1>3, <1>9 DEF CallCause
<1>. QED  BY <1>4, <1>5, <1>10, OthersStay

\* What a clear call sends comes next, and is not parted.
LEMMA AppendCause ==
  ASSUME Inv, CauseInv, NEW c \in Callers, pc[c] = "running", ~IsWaiting(c), script[c] # <<>>,
         flight' = flight \o Sent(c),
         script' = [script EXCEPT ![c] = SubSeq(@, NextAwaited(c) + 1, Len(@))],
         answer' = [answer EXCEPT ![c] = NoAnswer],
         UNCHANGED <<job, pc, result, pubKey, transport, device, refusals, mixed>>
  PROVE  CauseInv'
<1>1. Types
  BY DEF Inv
<1>2. Appended(c)
  BY AppendedIs, Zenon
<1>3. PICK n \in Nat : n = NextAwaited(c)
  BY NextAwaitedIs
<1>4. PICK w \in Nat : w = Len(flight) /\ DOMAIN flight = 1 .. w
  BY <1>1, FlightIs, Zenon
<1>5. PICK r : r = script[c]
  OBVIOUS
<1>6. PICK s : s = Script(job[c])
  OBVIOUS
<1>7. PICK L \in Nat \ {0} : L = Len(s)
  BY <1>6, RunningIs
<1>8. PICK l \in Nat : l = Len(r) /\ l <= L
  BY <1>5, <1>6, <1>7, RunningIs
<1>9. /\ n \in 1 .. l /\ r[n].awaited /\ \A m \in 1 .. n - 1 : ~r[m].awaited
  BY <1>3, <1>5, <1>8, NextAwaitedIs
<1>10. \A m \in 1 .. l : r[m] = s[L - l + m]
  <2>1. IsEndOf(r, job[c])
    BY <1>5 DEF Inv, CallInv, RestIsOwn
  <2>. QED  BY <1>6, <1>7, <1>8, <2>1, Zenon DEF IsEndOf
<1>11. /\ Len(flight') = w + n /\ DOMAIN flight' = 1 .. w + n
       /\ \A k \in 1 .. w : flight'[k] = flight[k]
       /\ \A i \in 1 .. n : flight'[w + i] = [call |-> c, apdu |-> r[i]]
       /\ Len(script'[c]) = l - n
  <2>1. PICK S : S = [call : Callers, apdu : AllCommands]
    BY Zenon
  <2>2. PICK u : u = flight'
    OBVIOUS
  <2>3. /\ u \in Seq(S) /\ Len(u) = w + n
        /\ \A k \in 1 .. w : u[k] = flight[k]
        /\ \A i \in 1 .. n : u[w + i] = [call |-> c, apdu |-> r[i]]
        /\ Len(script'[c]) = l - n
    BY <1>2, <1>3, <1>4, <1>5, <1>8, <2>1, <2>2, Zenon DEF Appended
  <2>4. DOMAIN u = 1 .. w + n
    BY <2>3
  <2>. QED  BY <2>2, <2>3, <2>4, Zenon
<1>12. ASSUME NEW k \in 1 .. w + n, k > w
       PROVE  flight'[k].call = c /\ k - w \in 1 .. n
  <2>1. PICK m : m = k - w
    OBVIOUS
  <2>2. m \in 1 .. n /\ w + m = k
    BY <1>4, <1>9, <1>12, <2>1
  <2>3. flight'[w + m] = [call |-> c, apdu |-> r[m]]
    BY <1>11, <2>2, Zenon
  <2>4. PICK x : x = [call |-> c, apdu |-> r[m]]
    BY Zenon
  <2>5. x.call = c
    BY <2>4
  <2>6. flight'[k] = x
    BY <2>2, <2>3, <2>4, Zenon
  <2>. QED  BY <2>1, <2>2, <2>5, <2>6, Zenon
<1>13. /\ \A e \in Callers \ {c} : script'[e] = script[e] /\ answer'[e] = answer[e]
       /\ job' = job /\ pc' = pc /\ result' = result /\ transport' = transport
       /\ device' = device /\ refusals' = refusals /\ mixed' = mixed
  <2>1. script = [e \in Callers |-> script[e]] /\ answer = [e \in Callers |-> answer[e]]
    BY <1>1 DEF Types
  <2>. QED  BY <2>1
<1>14. Leaves(c)
  BY <1>13 DEF Leaves
<1>15. ASSUME NEW e \in Callers \ {c}, Progress(e)
       PROVE  Progress(e)'
  <2>1. Behind(e)
    <3>1. w <= w + n
      OBVIOUS
    <3>2. \A k \in 1 .. w + n : k > w => flight'[k].call # e
      BY <1>12, Zenon
    <3>3. w + n \in Nat
      OBVIOUS
    <3>. QED  BY <1>4, <1>11, <3>1, <3>2, <3>3, Zenon DEF Behind
  <2>. QED  BY <1>13, <1>15, <2>1, ProgressBehind
<1>16. ASSUME Clear(c)
       PROVE  Progress(c)'
  <2>1. ~InFlight(c)
    BY <1>16, NothingIsLeft
  <2>2. PICK a : a = L - l
    OBVIOUS
  <2>3. PICK a0, b0, q0 : HasBlock(c, a0, b0, q0) /\ HasWorked(c, a0)
    BY <1>16 DEF CauseInv, CallCause, Progress
  <2>4. a0 \in Nat /\ a0 + q0 + l = L /\ q0 = 0
    BY <1>5, <1>6, <1>7, <1>8, <2>1, <2>3, NoBlock, ZenonT(30) DEF HasBlock
  <2>5. a0 = a /\ a \in Nat /\ a < L
    BY <1>9, <2>2, <2>4
  <2>6. transport = "queued" \/ n <= 1
    <3>. SUFFICES ASSUME transport # "queued" PROVE n <= 1
      OBVIOUS
    <3>1. AreAwaited(s)
      BY <1>6, <1>16 DEF Clear
    <3>2. L - l + 1 \in 1 .. L /\ 1 \in 1 .. l
      BY <1>8, <1>9
    <3>3. r[1].awaited
      BY <1>7, <1>10, <3>1, <3>2, Zenon DEF AreAwaited
    <3>. QED  BY <1>9, <3>3
  <2>7. \A k \in 1 .. w + n : flight'[k].call = c <=> w < k /\ k <= w + n
    <3>. SUFFICES ASSUME NEW k \in 1 .. w + n PROVE flight'[k].call = c <=> w < k /\ k <= w + n
      BY Zenon
    <3>1. CASE k <= w
      <4>1. k \in 1 .. w
        BY <3>1
      <4>2. flight[k].call # c
        BY <1>4, <2>1, <4>1, Zenon DEF InFlight
      <4>3. flight'[k] = flight[k]
        BY <1>11, <4>1, Zenon
      <4>. QED  BY <3>1, <4>2, <4>3
    <3>2. CASE k > w
      <4>1. flight'[k].call = c
        BY <1>12, <3>2, Zenon
      <4>2. w < k /\ k <= w + n
        BY <3>2
      <4>. QED  BY <4>1, <4>2, Zenon
    <3>3. k <= w \/ k > w
      OBVIOUS
    <3>. QED  BY <3>1, <3>2, <3>3, Zenon
  <2>8. \A m \in 1 .. n : flight'[w + m].apdu = s[a + m]
    <3>. SUFFICES ASSUME NEW m \in 1 .. n PROVE flight'[w + m].apdu = s[a + m]
      BY Zenon
    <3>1. m \in 1 .. l
      BY <1>9
    <3>2. r[m] = s[a + m]
      BY <1>10, <2>2, <3>1
    <3>3. flight'[w + m] = [call |-> c, apdu |-> r[m]]
      BY <1>11, Zenon
    <3>4. PICK x : x = [call |-> c, apdu |-> r[m]]
      BY Zenon
    <3>5. x.apdu = r[m]
      BY <3>4
    <3>. QED  BY <3>2, <3>3, <3>4, <3>5, Zenon
  <2>9. HasBlock(c, a, w, n)'
    <3>0. w + n <= w + n /\ a + n + (l - n) = L
      BY <1>8, <1>9, <2>2
    <3>1. w + n <= Len(flight') /\ a + n + Len(script'[c]) = L
      BY <1>11, <3>0, Zenon
    <3>2. Script(job'[c]) = s /\ transport' = transport
      BY <1>6, <1>13
    <3>. QED  BY <1>7, <1>11, <2>5, <2>6, <2>7, <2>8, <3>1, <3>2, Zenon DEF HasBlock
  <2>10. HasWorked(c, a)'
    <3>1. 0 < a /\ a < Len(Script(job[c])) => device = After(job[c], a)
      BY <2>3, <2>5 DEF HasWorked
    <3>. QED  BY <1>6, <1>7, <1>13, <2>5, <3>1 DEF HasWorked
  <2>. QED  BY <2>9, <2>10 DEF Progress
<1>17. CallCause(c)'
  <2>1. Clear(c)' <=> Clear(c)
    BY <1>13 DEF Clear
  <2>. QED  BY <1>13, <1>16, <2>1 DEF CallCause
<1>. QED  BY <1>14, <1>15, <1>17, OthersStay

\* Only a call that is not clear is refused: it meets another's command, or has
\* commands that it does not await.
LEMMA RefusedCause ==
  ASSUME Inv, CauseInv, NEW c \in Callers, pc[c] = "running", ~IsWaiting(c), script[c] # <<>>,
         transport = "refusing", ~(flight = <<>> /\ NextAwaited(c) = 1),
         flight' = IF flight = <<>> THEN <<Sent(c)[1]>> ELSE flight,
         mixed' = IF \E i \in DOMAIN flight : flight[i].call # c THEN mixed \union {c} ELSE mixed,
         End(c, Failed), answer' = [answer EXCEPT ![c] = NoAnswer],
         UNCHANGED <<job, pubKey, transport, device, refusals>>
  PROVE  CauseInv'
<1>1. Types
  BY DEF Inv
<1>2. /\ \A e \in Callers \ {c} : answer'[e] = answer[e]
      /\ mixed \subseteq mixed' /\ refusals' = refusals
  BY <1>1 DEF Types
<1>3. Leaves(c) /\ pc'[c] = "done" /\ result'[c] = Failed
  BY <1>1, <1>2, EndLeaves
<1>4. PICK n \in Nat : n = NextAwaited(c) /\ n \in 1 .. Len(script[c])
  BY NextAwaitedIs
<1>5. PICK w \in Nat : w = Len(flight) /\ DOMAIN flight = 1 .. w
  BY <1>1, FlightIs, Zenon
<1>6. ASSUME NEW e \in Callers \ {c}, Progress(e)
      PROVE  Progress(e)'
  <2>1. Behind(e)
    <3>1. CASE flight # <<>>
      BY <1>1, <3>1, BehindSame
    <3>2. CASE flight = <<>>
      <4>1. Sent(c)[1].call = c
        <5>1. 1 \in 1 .. n
          BY <1>4
        <5>2. Sent(c)[1] = [call |-> c, apdu |-> script[c][1]]
          BY <1>4, <5>1, SentIs
        <5>. QED  BY <5>2
      <4>2. PICK x : x = Sent(c)[1]
        OBVIOUS
      <4>3. flight' = <<x>> /\ x.call = c
        BY <3>2, <4>1, <4>2
      <4>4. Len(flight) = 0 /\ DOMAIN flight = 1 .. 0 /\ Len(flight') = 1 /\ DOMAIN flight' = 1 .. 1
        BY <3>2, <4>3
      <4>. QED  BY <4>3, <4>4 DEF Behind
    <3>. QED  BY <3>1, <3>2
  <2>2. script'[e] = script[e] /\ answer'[e] = answer[e]
    BY <1>3 DEF Leaves
  <2>. QED  BY <1>6, <2>1, <2>2, ProgressBehind
<1>7. ~Clear(c)'
  <2>. SUFFICES ASSUME Clear(c), Clear(c)' PROVE FALSE
    BY <1>2, ClearBefore
  <2>1. AreAwaited(Script(job[c]))
    BY DEF Clear
  <2>2. n = 1
    <3>1. PICK r : r = script[c]
      OBVIOUS
    <3>2. IsEndOf(r, job[c])
      BY <3>1 DEF Inv, CallInv, RestIsOwn
    <3>3. r[1] \in Commands(job[c])
      <4>1. r \in Seq(Commands(job[c])) /\ 1 \in 1 .. Len(r)
        BY <1>4, <3>1, <3>2 DEF IsEndOf
      <4>. QED  BY <4>1
    <3>4. r[1].awaited
      BY <2>1, <3>3 DEF Commands, AreAwaited
    <3>5. \A m \in 1 .. n - 1 : ~r[m].awaited
      BY <1>4, <3>1, NextAwaitedIs
    <3>. QED  BY <1>4, <3>4, <3>5
  <2>3. flight # <<>>
    BY <1>4, <2>2
  <2>4. 1 \in DOMAIN flight
    <3>1. w # 0
      <4>1. flight \in Seq([call : Callers, apdu : AllCommands])
        BY <1>1 DEF Types
      <4>. QED  BY <1>5, <2>3, <4>1
    <3>. QED  BY <1>5, <3>1
  <2>5. flight[1].call # c
    BY <2>4, NothingIsLeft DEF InFlight
  <2>6. c \in mixed'
    BY <2>4, <2>5
  <2>. QED  BY <2>6 DEF Clear
<1>8. CallCause(c)'
  BY <1>3, <1>7 DEF CallCause
<1>. QED  BY <1>3, <1>6, <1>8, OthersStay

\* The command at place i is taken out of what is in flight.
IsTakenAt(i) ==
  /\ DOMAIN flight = 1 .. Len(flight) /\ Len(flight) \in Nat /\ i \in 1 .. Len(flight)
  /\ DOMAIN flight' = 1 .. Len(flight) - 1 /\ Len(flight') = Len(flight) - 1
  /\ \A k \in 1 .. Len(flight) - 1 : flight'[k] = flight[IF k < i THEN k ELSE k + 1]

\* So does the device, in order unless the transport loses it.
LEMMA TakenAtIs ==
  ASSUME Types, NEW i \in DOMAIN flight, flight' = RemoveAt(flight, i)
  PROVE  IsTakenAt(i)
<1>1. PICK S : S = [call : Callers, apdu : AllCommands]
  BY Zenon
<1>2. flight \in Seq(S)
  BY <1>1 DEF Types
<1>3. PICK w \in Nat : w = Len(flight) /\ DOMAIN flight = 1 .. w
  BY <1>2
<1>4. IsWithout(flight', flight, i, w, S)
  BY <1>2, <1>3, RemovedAt
<1>5. PICK t : t = flight'
  OBVIOUS
<1>6. t \in Seq(S) /\ Len(t) = w - 1
      /\ \A k \in 1 .. w - 1 : t[k] = flight[IF k < i THEN k ELSE k + 1]
  BY <1>4, <1>5, Zenon DEF IsWithout
<1>7. DOMAIN t = 1 .. w - 1
  BY <1>6
<1>. QED  BY <1>3, <1>5, <1>6, <1>7, Zenon DEF IsTakenAt

\* The command at place i is the first of the block of its call.
IsFirst(i, c, n, b, q) ==
  /\ i = b + 1 /\ q >= 1
  /\ n + 1 \in 1 .. Len(Script(job[c])) /\ flight[i].apdu = Script(job[c])[n + 1]

\* So it is, if the device takes the first there is or the call has one at most.
LEMMA FirstIsTaken ==
  ASSUME Types, NEW c \in Callers, NEW i \in DOMAIN flight, flight[i].call = c,
         transport # "unordered" => i = 1,
         NEW n, NEW b, NEW q, HasBlock(c, n, b, q), Len(script[c]) \in Nat
  PROVE  IsFirst(i, c, n, b, q)
<1>1. PICK w \in Nat : w = Len(flight) /\ DOMAIN flight = 1 .. w
  BY FlightIs, Zenon
<1>2. PICK s : s = Script(job[c])
  OBVIOUS
<1>3. PICK l \in Nat : l = Len(script[c])
  OBVIOUS
<1>4. /\ n \in Nat /\ b \in Nat /\ q \in Nat /\ b + q <= w
      /\ n + q + l = Len(s)
      /\ \A k \in 1 .. w : flight[k].call = c <=> b < k /\ k <= b + q
      /\ \A m \in 1 .. q : flight[b + m].apdu = s[n + m]
      /\ transport = "queued" \/ q <= 1
  BY <1>1, <1>2, <1>3, Zenon DEF HasBlock
<1>5. i \in 1 .. w /\ b < i /\ i <= b + q
  BY <1>1, <1>4, Zenon
<1>6. i = b + 1 /\ q >= 1
  <2>1. transport = "queued" => i = 1
    OBVIOUS
  <2>. QED  BY <1>4, <1>5, <2>1
<1>7. flight[i].apdu = s[n + 1]
  <2>1. 1 \in 1 .. q
    BY <1>4, <1>6
  <2>2. flight[b + 1].apdu = s[n + 1]
    BY <1>4, <2>1
  <2>. QED  BY <1>6, <2>2, Zenon
<1>8. n + 1 \in 1 .. Len(s)
  <2>1. n \in Nat /\ q \in Nat /\ n + q + l = Len(s) /\ q >= 1
    BY <1>4, <1>6
  <2>. QED  BY <2>1
<1>. QED  BY <1>2, <1>6, <1>7, <1>8, Zenon DEF IsFirst

\* The block goes on behind the first of it.
LEMMA BlockTaken ==
  ASSUME NEW c \in Callers, NEW i, IsTakenAt(i),
         NEW n, NEW b, NEW q, HasBlock(c, n, b, q), IsFirst(i, c, n, b, q), Len(script[c]) \in Nat,
         job' = job, transport' = transport, script'[c] = script[c]
  PROVE  HasBlock(c, n + 1, b, q - 1)'
<1>1. PICK w \in Nat : w = Len(flight)
  BY Zenon DEF IsTakenAt
<1>2. /\ DOMAIN flight = 1 .. w /\ i \in 1 .. w
      /\ DOMAIN flight' = 1 .. w - 1 /\ Len(flight') = w - 1
      /\ \A k \in 1 .. w - 1 : flight'[k] = flight[IF k < i THEN k ELSE k + 1]
  BY <1>1, Zenon DEF IsTakenAt
<1>3. PICK s : s = Script(job[c])
  OBVIOUS
<1>4. PICK l \in Nat : l = Len(script[c])
  OBVIOUS
<1>5. /\ n \in Nat /\ b \in Nat /\ q \in Nat /\ b + q <= w
      /\ n + q + l = Len(s)
      /\ \A k \in 1 .. w : flight[k].call = c <=> b < k /\ k <= b + q
      /\ \A m \in 1 .. q : flight[b + m].apdu = s[n + m]
      /\ transport = "queued" \/ q <= 1
  BY <1>1, <1>2, <1>3, <1>4, Zenon DEF HasBlock
<1>7. i = b + 1 /\ q >= 1
  BY DEF IsFirst
<1>9. ASSUME NEW k \in 1 .. w - 1
      PROVE  flight'[k].call = c <=> b < k /\ k <= b + (q - 1)
  <2>1. CASE k < i
    <3>1. k \in 1 .. w /\ ~(b < k)
      BY <1>5, <1>7, <2>1
    <3>2. flight'[k] = flight[k]
      BY <1>2, <2>1
    <3>3. flight[k].call # c
      BY <1>5, <3>1, Zenon
    <3>. QED  BY <3>1, <3>2, <3>3, Zenon
  <2>2. CASE ~(k < i)
    <3>1. k + 1 \in 1 .. w /\ (b < k + 1 /\ k + 1 <= b + q <=> b < k /\ k <= b + (q - 1))
      BY <1>5, <1>7, <2>2
    <3>2. flight'[k] = flight[k + 1]
      BY <1>2, <2>2
    <3>3. flight[k + 1].call = c <=> b < k + 1 /\ k + 1 <= b + q
      BY <1>5, <3>1, Zenon
    <3>. QED  BY <3>1, <3>2, <3>3, Zenon
  <2>. QED  BY <2>1, <2>2, Zenon
<1>10. ASSUME NEW m \in 1 .. q - 1
       PROVE  flight'[b + m].apdu = s[(n + 1) + m]
  <2>1. b + m \in 1 .. w - 1 /\ ~(b + m < i)
    BY <1>5, <1>7
  <2>2. flight'[b + m] = flight[(b + m) + 1]
    BY <1>2, <2>1
  <2>0. n \in Nat /\ b \in Nat /\ q \in Nat
    BY <1>5
  <2>3. (b + m) + 1 = b + (m + 1) /\ (n + 1) + m = n + (m + 1) /\ m + 1 \in 1 .. q
    BY <2>0
  <2>4. flight[b + (m + 1)].apdu = s[n + (m + 1)]
    BY <1>5, <2>3, Zenon
  <2>. QED  BY <2>2, <2>3, <2>4, Zenon
<1>11. /\ n + 1 \in Nat /\ q - 1 \in Nat /\ b + (q - 1) <= w - 1
       /\ (n + 1) + (q - 1) + l = Len(s) /\ (transport = "queued" \/ q - 1 <= 1)
  <2>1. /\ n \in Nat /\ b \in Nat /\ q \in Nat /\ b + q <= w /\ n + q + l = Len(s) /\ q >= 1
        /\ transport = "queued" \/ q <= 1
    BY <1>5, <1>7
  <2>. QED  BY <2>1
<1>12. HasBlock(c, n + 1, b, q - 1)'
  <2>1. Script(job'[c]) = s /\ transport' = transport /\ Len(script'[c]) = l
    BY <1>3, <1>4
  <2>. QED  BY <1>2, <1>5, <1>9, <1>10, <1>11, <2>1, Zenon DEF HasBlock
<1>. QED  BY <1>12

\* A call of which nothing is in flight keeps its empty block.
LEMMA NothingTaken ==
  ASSUME Inv, NEW c \in Callers, ~InFlight(c), NEW i, IsTakenAt(i), flight[i].call # c,
         NEW n, NEW b, NEW q, HasBlock(c, n, b, q), Len(script[c]) \in Nat,
         job' = job, transport' = transport, script'[c] = script[c]
  PROVE  HasBlock(c, n, 0, 0)'
<1>1. PICK w \in Nat : w = Len(flight)
  BY Zenon DEF IsTakenAt
<1>2. /\ DOMAIN flight = 1 .. w /\ i \in 1 .. w
      /\ DOMAIN flight' = 1 .. w - 1 /\ Len(flight') = w - 1
      /\ \A k \in 1 .. w - 1 : flight'[k] = flight[IF k < i THEN k ELSE k + 1]
  BY <1>1, Zenon DEF IsTakenAt
<1>3. n \in Nat /\ n + q + Len(script[c]) = Len(Script(job[c])) /\ q = 0
  <2>1. q = 0
    BY NoBlock
  <2>. QED  BY <2>1 DEF HasBlock
<1>4. ASSUME NEW k \in 1 .. w - 1
      PROVE  flight'[k].call # c
  <2>1. PICK l : l = IF k < i THEN k ELSE k + 1
    OBVIOUS
  <2>2. l \in 1 .. w /\ flight'[k] = flight[l]
    BY <1>2, <2>1
  <2>3. flight[l].call # c
    BY <1>2, <2>2, Zenon DEF InFlight
  <2>. QED  BY <2>2, <2>3, Zenon
<1>5. \A k \in DOMAIN flight' : flight'[k].call = c <=> 0 < k /\ k <= 0 + 0
  BY <1>2, <1>4
<1>6. /\ 0 + 0 <= w - 1 /\ 0 \in Nat /\ 0 <= 1
      /\ n + 0 + Len(script[c]) = Len(Script(job[c])) /\ \A m \in 1 .. 0 : FALSE
  BY <1>2, <1>3
<1>. QED  BY <1>2, <1>3, <1>5, <1>6, Zenon DEF HasBlock

\* A call that is not in the middle of its commands does not mind another's.
LEMMA OtherTaken ==
  ASSUME Inv, NEW i \in DOMAIN flight, IsTakenAt(i), NEW c \in Callers, c # flight[i].call,
         pc[c] = "running", c \notin MixedBy(i), Progress(c),
         job' = job, transport' = transport, script'[c] = script[c], answer'[c] = answer[c]
  PROVE  Progress(c)'
<1>1. PICK n, b, q : HasBlock(c, n, b, q) /\ HasWorked(c, n)
  BY DEF Progress
<1>2. PICK L \in Nat \ {0} : L = Len(Script(job[c]))
  BY RunningIs
<1>3. PICK l \in Nat : l = Len(script[c]) /\ (script[c] = <<>> <=> l = 0)
  BY RunningIs
<1>4. n \in Nat /\ q \in Nat /\ n + q + l = L
  BY <1>1, <1>2, <1>3, Zenon DEF HasBlock
<1>5. ~(l < L /\ (l # 0 \/ InFlight(c)))
  <2>1. c \in Callers \ {flight[i].call}
    OBVIOUS
  <2>. QED  BY <1>2, <1>3, <2>1, Zenon DEF MixedBy, InFlight
<1>6. ~InFlight(c)
  <2>1. InFlight(c) => HasSent(c)
    BY DEF Inv, CallInv
  <2>. QED  BY <1>2, <1>3, <1>5, <2>1, Zenon DEF HasSent
<1>7. q = 0
  BY <1>1, <1>6, NoBlock
<1>8. n = 0 \/ n = L
  BY <1>4, <1>5, <1>7
<1>9. HasBlock(c, n, 0, 0)'
  BY <1>1, <1>3, <1>6, NothingTaken
<1>10. HasWorked(c, n)'
  <2>1. n = L => /\ job[c].op # "pubKey" /\ answer[c] # NoAnswer
                 /\ IsShown(job[c]) => answer[c].hash = msgHash(job[c])
    BY <1>1, <1>2, Zenon DEF HasWorked
  <2>2. ~(0 < n /\ n < L)
    BY <1>8
  <2>. QED  BY <1>2, <2>1, <2>2, Zenon DEF HasWorked
<1>. QED  BY <1>9, <1>10 DEF Progress

\* The command takes the device, which has n of the call's, one further.
TakesCommand(c, n, cmd) ==
  /\ cmd = Script(job[c])[n + 1] /\ n + 1 \in 1 .. Len(Script(job[c]))
  /\ Accepts(device, cmd) /\ Collect(device, cmd) = After(job[c], n + 1)
  /\ IsComplete(After(job[c], n + 1)) <=> n + 1 = Len(Script(job[c]))
  /\ n + 1 = Len(Script(job[c])) /\ IsShown(job[c]) =>
       DeviceHash(After(job[c], n + 1)) = msgHash(job[c])

\* The device takes the next command of a clear call.
LEMMA NextIsTaken ==
  ASSUME Inv, NEW c \in Callers, Clear(c), job[c].op # "pubKey", NEW n \in Nat, HasWorked(c, n),
         n + 1 \in 1 .. Len(Script(job[c])), NEW cmd, cmd = Script(job[c])[n + 1]
  PROVE  TakesCommand(c, n, cmd)
<1>1. job[c] \in Jobs /\ Tellable(job[c])
  BY JobIs DEF Clear
<1>2. TellsAll(job[c])
  BY <1>1, TellableIsTold
<1>3. PICK j : j = job[c]
  OBVIOUS
<1>4. PICK s : s = Script(j)
  OBVIOUS
<1>5. PICK L \in Nat : L = Len(s)
  BY <1>2, <1>3, <1>4 DEF TellsAll
<1>6. /\ \A m \in 1 .. L : /\ Accepts(After(j, m - 1), s[m])
                           /\ After(j, m) = Collect(After(j, m - 1), s[m])
                           /\ IsComplete(After(j, m)) <=> m = L
      /\ After(j, 0) = Idle
      /\ IsShown(j) => DeviceHash(After(j, L)) = msgHash(j)
  BY <1>2, <1>3, <1>4, <1>5, Zenon DEF TellsAll
<1>7. PICK m : m = n + 1
  OBVIOUS
<1>8. m \in 1 .. L /\ m - 1 = n /\ cmd = s[m]
  BY <1>3, <1>4, <1>5, <1>7
<1>9. /\ Accepts(After(j, n), cmd)
      /\ After(j, m) = Collect(After(j, n), cmd)
      /\ IsComplete(After(j, m)) <=> m = L
  BY <1>6, <1>8, Zenon
<1>10. Accepts(device, cmd) /\ Collect(device, cmd) = After(j, m)
  <2>1. CASE n = 0
    <3>1. IsScript(s, <<PathOf(j.signer)>>)
      BY <1>1, <1>3, <1>4, ScriptIs
    <3>2. m = 1
      BY <1>7, <2>1
    <3>3. cmd.p1 = 0
      BY <1>8, <3>1, <3>2, Zenon DEF IsScript
    <3>4. Collect(device, cmd) = Collect(Idle, cmd) /\ Accepts(device, cmd)
      BY <3>3 DEF Collect, Accepts
    <3>. QED  BY <1>6, <1>9, <2>1, <3>4, Zenon
  <2>2. CASE n # 0
    <3>1. 0 < n /\ n < L
      BY <1>8, <2>2
    <3>2. device = After(j, n)
      BY <1>3, <1>4, <1>5, <3>1, Zenon DEF HasWorked
    <3>. QED  BY <1>9, <3>2, Zenon
  <2>. QED  BY <2>1, <2>2
<1>. QED  BY <1>3, <1>4, <1>5, <1>6, <1>7, <1>8, <1>9, <1>10, Zenon DEF TakesCommand

\* A command of a clear call is taken, and its last is answered unless the user
\* refuses; what another's command does to a call in the middle of its own, it
\* is not clear any more.
LEMMA ProcessCause ==
  ASSUME Inv, CauseInv, NEW i \in DOMAIN flight, Process(i)
  PROVE  CauseInv'
<1>. PICK c : c = flight[i].call
  OBVIOUS
<1>. PICK cmd : cmd = flight[i].apdu
  OBVIOUS
<1>. PICK new : new = Collect(device, cmd)
  OBVIOUS
<1>1. c \in Callers /\ FlightOf(i) /\ Types /\ job[c] \in Jobs
  BY FlightIs, JobIs DEF Inv
<1>2. /\ cmd \in Commands(job[c])
      /\ cmd.awaited => pc[c] = "running"
      /\ pc[c] = "running" \/ pc[c] = "done"
  <2>1. InFlight(c) /\ CallInv(c)
    BY <1>1 DEF InFlight, Inv
  <2>2. pc[c] # "ready" /\ pc[c] \in {"ready", "running", "done"}
    BY <1>1, <2>1 DEF CallInv, Types
  <2>. QED  BY <1>1, <2>2 DEF FlightOf
<1>3. /\ cmd.ins = 1 => job[c].op = "pubKey" /\ cmd.awaited
      /\ job[c].op = "pubKey" => cmd.ins = 1 /\ cmd.p1 = 0
  BY <1>1, <1>2, CommandIs
<1>4. /\ transport # "unordered" => i = 1
      /\ flight' = RemoveAt(flight, i) /\ mixed' = mixed \union MixedBy(i)
      /\ job' = job /\ transport' = transport
  BY DEF Process
<1>5. \/ /\ ~Accepts(device, cmd) /\ answer' = answer /\ refusals' = refusals
         /\ \/ cmd.awaited /\ End(c, Failed)
            \/ pc' = pc /\ script' = script /\ result' = result
      \/ /\ Accepts(device, cmd) /\ cmd.ins = 1 /\ answer' = answer /\ refusals' = refusals
         /\ End(c, Returns(Unset, DeviceKey(new)))
      \/ /\ Accepts(device, cmd) /\ cmd.ins # 1 /\ ~IsComplete(new) /\ device' = new
         /\ answer' = answer /\ refusals' = refusals
         /\ pc' = pc /\ script' = script /\ result' = result
      \/ /\ Accepts(device, cmd) /\ cmd.ins # 1 /\ IsComplete(new) /\ refusals' = refusals
         /\ answer' = [answer EXCEPT ![c] = [hash |-> DeviceHash(new), key |-> DeviceKey(new)]]
         /\ pc' = pc /\ script' = script /\ result' = result
      \/ /\ Accepts(device, cmd) /\ cmd.ins # 1 /\ IsComplete(new)
         /\ answer' = answer /\ refusals' = refusals \union {c}
         /\ \/ cmd.awaited /\ End(c, Failed)
            \/ pc' = pc /\ script' = script /\ result' = result
  BY DEF Process
<1>6. /\ \A e \in Callers \ {c} : answer'[e] = answer[e]
      /\ mixed \subseteq mixed' /\ refusals \subseteq refusals'
  <2>1. answer = [e \in Callers |-> answer[e]]
    BY <1>1 DEF Types
  <2>2. \A e \in Callers \ {c} : answer'[e] = answer[e]
    BY <1>5, <2>1
  <2>. QED  BY <1>4, <1>5, <2>2
<1>7. Leaves(c)
  <2>1. CASE pc' = pc /\ script' = script /\ result' = result
    BY <1>4, <1>6, <2>1 DEF Leaves
  <2>2. CASE End(c, Failed)
    BY <1>1, <1>4, <1>6, <2>2, EndLeaves
  <2>3. CASE End(c, Returns(Unset, DeviceKey(new)))
    BY <1>1, <1>4, <1>6, <2>3, EndLeaves
  <2>. QED  BY <1>5, <2>1, <2>2, <2>3
<1>8. IsTakenAt(i)
  BY <1>1, <1>4, TakenAtIs
<1>9. ASSUME NEW e \in Callers \ {c}, pc[e] = "running", e \notin mixed', Progress(e)
      PROVE  Progress(e)'
  <2>1. e \notin MixedBy(i) /\ e # flight[i].call
    BY <1>4, <1>9
  <2>2. script'[e] = script[e] /\ answer'[e] = answer[e]
    BY <1>7 DEF Leaves
  <2>. QED  BY <1>4, <1>8, <1>9, <2>1, <2>2, OtherTaken
<1>10. CASE ~Clear(c)'
  <2>1. CallCause(c)'
    BY <1>10 DEF CallCause
  <2>. QED  BY <1>1, <1>7, <1>9, <2>1, OthersStay
<1>11. CASE Clear(c)'
  <2>1. Clear(c) /\ c \notin refusals'
    <3>1. Clear(c)
      BY <1>1, <1>4, <1>6, <1>11, ClearBefore
    <3>. QED  BY <1>11, <3>1 DEF Clear
  <2>2. CASE pc[c] = "done"
    <3>1. ~cmd.awaited /\ cmd.ins # 1
      BY <1>2, <1>3, <2>2
    <3>2. pc' = pc /\ result' = result
      BY <1>5, <3>1
    <3>3. result[c].ok
      BY <1>1, <2>1, <2>2 DEF CauseInv, CallCause
    <3>4. CallCause(c)'
      BY <2>2, <3>2, <3>3 DEF CallCause
    <3>. QED  BY <1>1, <1>7, <1>9, <3>4, OthersStay
  <2>3. CASE pc[c] = "running" /\ job[c].op = "pubKey"
    <3>1. Accepts(device, cmd) /\ cmd.ins = 1
      BY <1>3, <2>3 DEF Accepts
    <3>2. End(c, Returns(Unset, DeviceKey(new)))
      BY <1>5, <3>1
    <3>3. pc'[c] = "done" /\ result'[c] = Returns(Unset, DeviceKey(new))
      BY <1>1, <3>2, EndIs
    <3>4. CallCause(c)'
      BY <3>3 DEF CallCause, Returns
    <3>. QED  BY <1>1, <1>7, <1>9, <3>4, OthersStay
  <2>4. CASE pc[c] = "running" /\ job[c].op # "pubKey"
    <3>1. PICK n, b, q : HasBlock(c, n, b, q) /\ HasWorked(c, n)
      BY <1>1, <2>1, <2>4 DEF CauseInv, CallCause, Progress
    <3>2. n \in Nat
      BY <3>1 DEF HasBlock
    <3>3. PICK L \in Nat \ {0} : L = Len(Script(job[c]))
      BY <1>1, <2>4, RunningIs
    <3>4. Len(script[c]) \in Nat
      BY <1>1, <2>4, RunningIs
    <3>5. IsFirst(i, c, n, b, q)
      BY <1>1, <1>4, <3>1, <3>4, FirstIsTaken
    <3>6. n + 1 \in 1 .. L /\ cmd = Script(job[c])[n + 1]
      BY <3>3, <3>5 DEF IsFirst
    <3>7. TakesCommand(c, n, cmd)
      BY <1>1, <2>1, <2>4, <3>1, <3>2, <3>3, <3>6, NextIsTaken
    <3>8. /\ Accepts(device, cmd) /\ new = After(job[c], n + 1)
          /\ IsComplete(new) <=> n + 1 = L
          /\ n + 1 = L /\ IsShown(job[c]) => DeviceHash(new) = msgHash(job[c])
      BY <3>3, <3>7, Zenon DEF TakesCommand
    <3>9. cmd.ins # 1
      BY <1>3, <2>4
    <3>10. c \notin refusals \union {c} => FALSE
      OBVIOUS
    <3>11. /\ pc' = pc /\ script' = script /\ result' = result
           /\ n + 1 # L => device' = new
           /\ n + 1 = L =>
                answer' = [answer EXCEPT ![c] = [hash |-> DeviceHash(new), key |-> DeviceKey(new)]]
      BY <1>5, <2>1, <3>8, <3>9, <3>10, Zenon
    <3>12. HasBlock(c, n + 1, b, q - 1)'
      BY <1>1, <1>4, <1>8, <3>1, <3>4, <3>5, <3>11, BlockTaken
    <3>13. HasWorked(c, n + 1)'
      <4>1. CASE n + 1 # L
        <5>1. device' = After(job[c], n + 1)
          BY <3>8, <3>11, <4>1
        <5>2. After(job[c], n + 1)' = After(job[c], n + 1)
          BY <1>4, Zenon DEF After
        <5>. QED  BY <1>4, <3>3, <4>1, <5>1, <5>2, Zenon DEF HasWorked
      <4>2. CASE n + 1 = L
        <5>1. answer = [e \in Callers |-> answer[e]]
          BY <1>1 DEF Types
        <5>2. answer'[c] = [hash |-> DeviceHash(new), key |-> DeviceKey(new)]
          BY <1>1, <3>11, <4>2, <5>1
        <5>3. answer'[c].key = <<"path", new.path[1]>> /\ answer'[c].hash = DeviceHash(new)
          BY <5>2 DEF DeviceKey
        <5>4. answer'[c] # NoAnswer
          BY <5>3 DEF NoAnswer, Unset
        <5>5. IsShown(job[c]) => answer'[c].hash = msgHash(job[c])
          BY <3>8, <4>2, <5>3
        <5>6. ~(n + 1 < L)
          BY <3>3, <4>2
        <5>. QED  BY <1>4, <2>4, <3>3, <4>2, <5>4, <5>5, <5>6, Zenon DEF HasWorked
      <4>. QED  BY <4>1, <4>2
    <3>14. Progress(c)'
      BY <3>12, <3>13 DEF Progress
    <3>15. CallCause(c)'
      BY <2>4, <3>11, <3>14 DEF CallCause
    <3>. QED  BY <1>1, <1>7, <1>9, <3>15, OthersStay
  <2>. QED  BY <1>2, <2>2, <2>3, <2>4
<1>. QED  BY <1>10, <1>11

------------------------------------------------------------------------------
(* The theorem about failures.                                              *)

\* Whatever the transport, what a call sends leaves the clear ones clear of it.
LEMMA SendCause ==
  ASSUME Inv, CauseInv, NEW c \in Callers, Send(c)
  PROVE  CauseInv'
<1>1. /\ pc[c] = "running" /\ ~IsWaiting(c) /\ script[c] # <<>>
      /\ answer' = [answer EXCEPT ![c] = NoAnswer]
      /\ UNCHANGED <<job, pubKey, transport, device, refusals>>
  BY DEF Send
<1>2. CASE transport # "refusing"
  <2>1. /\ flight' = flight \o Sent(c)
        /\ script' = [script EXCEPT ![c] = SubSeq(@, NextAwaited(c) + 1, Len(@))]
        /\ UNCHANGED <<pc, result, mixed>>
    BY <1>2 DEF Send
  <2>. QED  BY <1>1, <2>1, AppendCause, Zenon
<1>3. CASE transport = "refusing" /\ flight = <<>> /\ NextAwaited(c) = 1
  <2>1. /\ flight' = Sent(c) /\ script' = [script EXCEPT ![c] = Tail(@)]
        /\ UNCHANGED <<pc, result, mixed>>
    BY <1>3 DEF Send
  <2>2. /\ flight' = flight \o Sent(c)
        /\ script' = [script EXCEPT ![c] = SubSeq(@, NextAwaited(c) + 1, Len(@))]
    BY <1>1, <1>3, <2>1, SentAlone, Zenon
  <2>. QED  BY <1>1, <2>1, <2>2, AppendCause, Zenon
<1>4. CASE transport = "refusing" /\ ~(flight = <<>> /\ NextAwaited(c) = 1)
  <2>1. /\ flight' = IF flight = <<>> THEN <<Sent(c)[1]>> ELSE flight
        /\ mixed' = IF \E i \in DOMAIN flight : flight[i].call # c
                    THEN mixed \union {c} ELSE mixed
        /\ End(c, Failed)
    BY <1>4 DEF Send
  <2>. QED  BY <1>1, <1>4, <2>1, RefusedCause, Zenon
<1>. QED  BY <1>2, <1>3, <1>4

\* A clear call makes progress until it ends, and ends well.
LEMMA CauseHolds == Spec => []CauseInv
<1>1. Init => CauseInv
  BY CauseInit
<1>2. Inv /\ CauseInv /\ [Next]_vars => CauseInv'
  <2>. SUFFICES ASSUME Inv, CauseInv, [Next]_vars PROVE CauseInv'
    OBVIOUS
  <2>1. ASSUME NEW c \in Callers,
               \/ SignWithKey(c) \/ CachedKey(c) \/ RefuseToSign(c)
               \/ Start(c) \/ Send(c) \/ Finish(c)
        PROVE  CauseInv'
    BY <2>1, SignWithKeyCause, CachedKeyCause, RefuseToSignCause, StartCause, SendCause, FinishCause
  <2>2. ASSUME NEW i \in DOMAIN flight, Process(i)
        PROVE  CauseInv'
    BY <2>2, ProcessCause
  <2>3. CASE UNCHANGED vars
    <3>1. /\ job' = job /\ pc' = pc /\ script' = script /\ answer' = answer /\ result' = result
          /\ transport' = transport /\ flight' = flight /\ device' = device
          /\ refusals' = refusals /\ mixed' = mixed
      BY <2>3 DEF vars
    <3>2. ASSUME NEW e \in Callers PROVE CallCause(e)'
      <4>1. CallCause(e)
        BY DEF CauseInv
      <4>2. Progress(e) => Progress(e)'
        <5>1. Behind(e)
          BY <3>1, BehindSame DEF Inv
        <5>. QED  BY <3>1, <5>1, ProgressBehind
      <4>. QED  BY <3>1, <4>1, <4>2 DEF CallCause, Clear
    <3>. QED  BY <3>2 DEF CauseInv
  <2>. QED  BY <2>1, <2>2, <2>3 DEF Next, Done
<1>. QED  BY <1>1, <1>2, InvHolds, PTL DEF Spec

\* A call throws only because the user refuses, because commands of another call
\* come between its own, because the device cannot be told of the transaction, or
\* because a call of it is long and the transport loses the order of its parts.
THEOREM FailureHasCauseAlways == Spec => []FailureHasCause
<1>1. Inv /\ CauseInv => FailureHasCause
  <2>. SUFFICES ASSUME Inv, CauseInv, NEW c \in Callers, pc[c] = "done", ~result[c].ok,
                       c \notin refusals, c \notin mixed,
                       IsSupported(job[c]), FitsItsCommands(job[c]), ~CannotBeShown(job[c])
                PROVE  /\ IsShown(job[c]) /\ job[c].op = "invoke" /\ transport # "queued"
                       /\ \E i \in DOMAIN job[c].tx.calls : IsLong(job[c].tx.calls[i])
    BY Zenon DEF FailureHasCause
  <2>1. ~Clear(c) /\ Tellable(job[c]) /\ job[c] \in Jobs
    BY JobIs DEF CauseInv, CallCause, Tellable
  <2>2. transport # "queued" /\ ~AreAwaited(Script(job[c]))
    BY <2>1 DEF Clear
  <2>. QED  BY <2>1, <2>2, NotAwaited
<1>. QED  BY <1>1, InvHolds, CauseHolds, PTL
=============================================================================
