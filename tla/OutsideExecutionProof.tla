----------------------- MODULE OutsideExecutionProof -----------------------
(***************************************************************************)
(* Proofs about OutsideExecution.                                          *)
(*                                                                         *)
(* The first half is about data: what buildExecuteFromOutsideCallData()    *)
(* lays out is read back by the contract as the same execution, whatever   *)
(* the lengths of the lists in it.  Both sides are recursive functions;    *)
(* induction over Nat is had from the least counterexample (WFMin), on the *)
(* set of the numbers for which a fact holds.                              *)
(*                                                                         *)
(* The second half is the inductive invariant Inv: what was made of an     *)
(* order is what it asked for, its version is one that was found, and its  *)
(* nonce one that was free when it was asked for.                          *)
(***************************************************************************)
EXTENDS OutsideExecution, SequenceTheorems, WellFoundedInduction, TLAPS

------------------------------------------------------------------------------
(* Lists written one after the other.                                       *)

NatLess == {ss \in Nat \X Nat : ss[1] < ss[2]}

\* A set of naturals that is not empty has a least one.
LEMMA LeastNatural ==
  ASSUME NEW T \in SUBSET Nat, T # {}
  PROVE  \E n \in T : \A m \in T : n <= m
<1>1. IsWellFoundedOn(NatLess, Nat)
  BY NatLessThanWellFounded DEF OpToRel, NatLess
<1>2. PICK n \in T : \A m \in T : ~ (<<m, n>> \in NatLess)
  BY <1>1, WFMin
<1>3. ASSUME NEW m \in T PROVE n <= m
  <2>1. m \in Nat /\ n \in Nat
    OBVIOUS
  <2>2. m < n => <<m, n>> \in NatLess
    BY <2>1 DEF NatLess
  <2>. QED BY <1>2, <2>1, <2>2
<1>. QED BY <1>3

\* What holds of 0, and of n + 1 when it holds of n, holds of all naturals.
LEMMA InductionOn ==
  ASSUME NEW T, 0 \in T, \A n \in Nat : n \in T => n + 1 \in T
  PROVE  Nat \subseteq T
<1>1. SUFFICES ASSUME Nat \ T # {} PROVE FALSE
  OBVIOUS
<1>2. PICK n \in Nat \ T : \A m \in Nat \ T : n <= m
  BY <1>1, LeastNatural
<1>3. n - 1 \in Nat
  BY <1>2
<1>. QED BY <1>2, <1>3

IsJoining(f, seqs, n) ==
  f = [i \in 1 .. n |-> IF i = 1 THEN seqs[i] ELSE f[i - 1] \o seqs[i]]

\* The function that FlattenSeq defines by recursion exists.
LEMMA JoiningExists ==
  ASSUME NEW seqs
  PROVE  \A n \in Nat : \E f : IsJoining(f, seqs, n)
<1>. DEFINE T == {n \in Nat : \E f : IsJoining(f, seqs, n)}
<1>1. 0 \in T
  <2>1. IsJoining([i \in 1 .. 0 |-> 0], seqs, 0)
    BY DEF IsJoining
  <2>. QED BY <2>1
<1>2. ASSUME NEW n \in Nat, n \in T
      PROVE  n + 1 \in T
  <2>1. PICK f : IsJoining(f, seqs, n)
    BY <1>2
  <2>. DEFINE g == [i \in 1 .. n + 1 |-> IF i = 1 THEN seqs[i] ELSE f[i - 1] \o seqs[i]]
  <2>2. \A i \in 1 .. n : f[i] = IF i = 1 THEN seqs[i] ELSE f[i - 1] \o seqs[i]
    BY <2>1, Zenon DEF IsJoining
  <2>3. \A i \in 1 .. n : g[i] = f[i]
    BY <2>2
  <2>4. ASSUME NEW i \in 1 .. n + 1
        PROVE  g[i] = IF i = 1 THEN seqs[i] ELSE g[i - 1] \o seqs[i]
    <3>1. g[i] = IF i = 1 THEN seqs[i] ELSE f[i - 1] \o seqs[i]
      OBVIOUS
    <3>2. i # 1 => i - 1 \in 1 .. n
      OBVIOUS
    <3>. HIDE DEF g
    <3>. QED  BY <2>3, <3>1, <3>2
  <2>5. DOMAIN g = 1 .. n + 1
    OBVIOUS
  <2>6. g = [i \in 1 .. n + 1 |-> g[i]]
    OBVIOUS
  <2>. HIDE DEF g
  <2>7. g = [i \in 1 .. n + 1 |-> IF i = 1 THEN seqs[i] ELSE g[i - 1] \o seqs[i]]
    BY <2>4, <2>6
  <2>8. IsJoining(g, seqs, n + 1)
    BY <2>7 DEF IsJoining
  <2>. QED  BY <2>8
<1>. HIDE DEF T
<1>3. Nat \subseteq T
  BY <1>1, <1>2, InductionOn
<1>. QED  BY <1>3 DEF T

\* FlattenSeq is the last value of that function.
LEMMA FlattenIsJoined ==
  ASSUME NEW seqs, Len(seqs) \in Nat \ {0}
  PROVE  \E f : IsJoining(f, seqs, Len(seqs)) /\ FlattenSeq(seqs) = f[Len(seqs)]
<1>. DEFINE f == CHOOSE f : IsJoining(f, seqs, Len(seqs))
<1>1. IsJoining(f, seqs, Len(seqs))
  BY JoiningExists
<1>2. FlattenSeq(seqs) = f[Len(seqs)]
  BY DEF FlattenSeq, IsJoining
<1>. QED  BY <1>1, <1>2

\* The list u is s, and then t.
IsConcatenation(u, s, t) ==
  /\ Len(s) \in Nat /\ Len(t) \in Nat /\ Len(u) = Len(s) + Len(t)
  /\ \A j \in 1 .. Len(s) : u[j] = s[j]
  /\ \A j \in 1 .. Len(t) : u[Len(s) + j] = t[j]

\* Where the elements of a concatenation stand.
LEMMA Concatenation ==
  ASSUME NEW S, NEW s \in Seq(S), NEW t \in Seq(S)
  PROVE  s \o t \in Seq(S) /\ IsConcatenation(s \o t, s, t)
BY DEF IsConcatenation

\* Each list that is joined begins with those before.
Grows(f, n) ==
  \A k \in 1 .. n : \A i \in 1 .. k :
    Len(f[i]) <= Len(f[k]) /\ \A j \in 1 .. Len(f[i]) : f[k][j] = f[i][j]

\* The lists that are joined on the way are lists, and grow.
LEMMA JoinedLists ==
  ASSUME NEW S, NEW n \in Nat \ {0}, NEW seqs, \A i \in 1 .. n : seqs[i] \in Seq(S),
         NEW f, IsJoining(f, seqs, n)
  PROVE  (\A k \in 1 .. n : f[k] \in Seq(S)) /\ Grows(f, n)
<1>0. \A i \in 1 .. n : f[i] = IF i = 1 THEN seqs[i] ELSE f[i - 1] \o seqs[i]
  BY Zenon DEF IsJoining
<1>. DEFINE Begins(i, k) ==
              Len(f[i]) <= Len(f[k]) /\ \A j \in 1 .. Len(f[i]) : f[k][j] = f[i][j]
            Keeps(k) == \A i \in 1 .. k : f[i] \in Seq(S) /\ Begins(i, k)
            T == {k \in Nat : k \in 1 .. n => Keeps(k)}
<1>1. 0 \in T
  OBVIOUS
<1>2. ASSUME NEW k \in Nat, k \in T
      PROVE  k + 1 \in T
  <2>. SUFFICES ASSUME k + 1 \in 1 .. n
                PROVE  Keeps(k + 1)
    OBVIOUS
  <2>1. CASE k = 0
    <3>1. f[1] = seqs[1] /\ f[1] \in Seq(S)
      BY <1>0
    <3>. QED  BY <2>1, <3>1
  <2>2. CASE k # 0
    <3>1. k \in 1 .. n /\ Keeps(k)
      BY <1>2, <2>2
    <3>2. f[k] \in Seq(S) /\ seqs[k + 1] \in Seq(S)
      BY <3>1
    <3>3. f[k + 1] = f[k] \o seqs[k + 1]
      <4>1. k + 1 # 1 /\ (k + 1) - 1 = k
        BY <2>2
      <4>. QED  BY <1>0, <4>1
    <3>4. f[k + 1] \in Seq(S) /\ Begins(k, k + 1)
      <4>1. PICK s \in Seq(S), t \in Seq(S) : s = f[k] /\ t = seqs[k + 1]
        BY <3>2
      <4>2. f[k + 1] = s \o t
        BY <3>3, <4>1
      <4>3. f[k + 1] \in Seq(S) /\ IsConcatenation(f[k + 1], s, t)
        BY <4>2, Concatenation
      <4>4. /\ Len(s) \in Nat /\ Len(t) \in Nat /\ Len(f[k + 1]) = Len(s) + Len(t)
            /\ \A j \in 1 .. Len(s) : f[k + 1][j] = s[j]
        BY <4>3, Zenon DEF IsConcatenation
      <4>5. Len(f[k]) <= Len(f[k + 1])
        <5>1. PICK a \in Nat, b \in Nat : a = Len(s) /\ b = Len(t)
          BY <4>4
        <5>2. Len(f[k + 1]) = a + b /\ Len(f[k]) = a
          BY <4>1, <4>4, <5>1
        <5>. QED  BY <5>2
      <4>6. \A j \in 1 .. Len(f[k]) : f[k + 1][j] = f[k][j]
        BY <4>1, <4>4, Zenon
      <4>. QED  BY <4>3, <4>5, <4>6
    <3>5. ASSUME NEW i \in 1 .. k
          PROVE  f[i] \in Seq(S) /\ Begins(i, k + 1)
      <4>1. f[i] \in Seq(S) /\ Begins(i, k) /\ Len(f[i]) \in Nat /\ Len(f[k]) \in Nat
            /\ Len(f[k + 1]) \in Nat
        BY <3>1, <3>2, <3>4
      <4>. QED  BY <3>4, <4>1
    <3>6. f[k + 1] \in Seq(S) /\ Begins(k + 1, k + 1)
      BY <3>4
    <3>. HIDE DEF Begins
    <3>. QED  BY <3>5, <3>6
  <2>. QED  BY <2>1, <2>2
<1>. HIDE DEF T
<1>3. Nat \subseteq T
  BY <1>1, <1>2, InductionOn
<1>4. ASSUME NEW k \in 1 .. n
      PROVE  Keeps(k)
  BY <1>3 DEF T
<1>5. \A k \in 1 .. n : f[k] \in Seq(S)
  BY <1>4
<1>. QED  BY <1>4, <1>5 DEF Grows

\* The lists of seqs stand in flat one after the other, the k-th up to end[k].
IsLaidOut(flat, seqs, end) ==
  /\ end \in [0 .. Len(seqs) -> Nat] /\ end[0] = 0 /\ end[Len(seqs)] = Len(flat)
  /\ \A k \in 1 .. Len(seqs) :
       /\ end[k] = end[k - 1] + Len(seqs[k]) /\ end[k] <= Len(flat)
       /\ \A j \in 1 .. Len(seqs[k]) : flat[end[k - 1] + j] = seqs[k][j]

\* FlattenSeq writes its lists one after the other.
LEMMA FlattenLaysOut ==
  ASSUME NEW S, NEW seqs \in Seq(Seq(S))
  PROVE  FlattenSeq(seqs) \in Seq(S) /\ \E end : IsLaidOut(FlattenSeq(seqs), seqs, end)
<1>1. CASE seqs = <<>>
  <2>1. FlattenSeq(seqs) = <<>>
    BY <1>1 DEF FlattenSeq
  <2>2. IsLaidOut(<<>>, <<>>, [k \in 0 .. 0 |-> 0])
    BY DEF IsLaidOut
  <2>. QED  BY <1>1, <2>1, <2>2
<1>2. CASE seqs # <<>>
  <2>1. PICK n \in Nat \ {0} : n = Len(seqs)
    BY <1>2
  <2>2. PICK f : IsJoining(f, seqs, n) /\ FlattenSeq(seqs) = f[n]
    BY <2>1, FlattenIsJoined
  <2>3. PICK flat : flat = FlattenSeq(seqs) /\ flat = f[n]
    BY <2>2
  <2>4. \A i \in 1 .. n : f[i] = IF i = 1 THEN seqs[i] ELSE f[i - 1] \o seqs[i]
    BY <2>2, Zenon DEF IsJoining
  <2>5. \A i \in 1 .. n : seqs[i] \in Seq(S)
    BY <2>1
  <2>6. (\A k \in 1 .. n : f[k] \in Seq(S)) /\ Grows(f, n)
    BY <2>2, <2>5, JoinedLists
  <2>7. PICK end : end = [k \in 0 .. n |-> IF k = 0 THEN 0 ELSE Len(f[k])]
    OBVIOUS
  <2>8. end \in [0 .. n -> Nat] /\ end[0] = 0 /\ end[n] = Len(flat) /\ flat \in Seq(S)
    BY <2>3, <2>6, <2>7
  <2>9. ASSUME NEW k \in 1 .. n
        PROVE  /\ end[k] = end[k - 1] + Len(seqs[k]) /\ end[k] <= Len(flat)
               /\ \A j \in 1 .. Len(seqs[k]) : flat[end[k - 1] + j] = seqs[k][j]
    <3>1. end[k] = Len(f[k]) /\ end[k] <= Len(flat)
          /\ \A j \in 1 .. Len(f[k]) : flat[j] = f[k][j]
      BY <2>3, <2>6, <2>7 DEF Grows
    <3>2. CASE k = 1
      <4>1. f[k] = seqs[k] /\ end[k - 1] = 0 /\ Len(f[k]) \in Nat
        BY <2>4, <2>6, <2>8, <3>2
      <4>. QED  BY <3>1, <4>1
    <3>3. CASE k # 1
      <4>1. k - 1 \in 1 .. n
        BY <3>3
      <4>2. PICK s \in Seq(S), t \in Seq(S) : s = f[k - 1] /\ t = seqs[k]
        BY <2>5, <2>6, <4>1
      <4>3. f[k] = s \o t
        BY <2>4, <3>3, <4>2
      <4>4. end[k - 1] = Len(s)
        BY <2>7, <3>3, <4>1, <4>2
      <4>5. IsConcatenation(f[k], s, t)
        BY <4>3, Concatenation
      <4>6. /\ Len(s) \in Nat /\ Len(t) \in Nat /\ Len(f[k]) = Len(s) + Len(t)
            /\ \A j \in 1 .. Len(t) : f[k][Len(s) + j] = t[j]
        BY <4>5, Zenon DEF IsConcatenation
      <4>7. end[k] = end[k - 1] + Len(seqs[k])
        BY <3>1, <4>2, <4>4, <4>6
      <4>8. ASSUME NEW j \in 1 .. Len(seqs[k])
            PROVE  flat[end[k - 1] + j] = seqs[k][j]
        <5>1. j \in 1 .. Len(t) /\ Len(s) + j \in 1 .. Len(f[k])
          <6>1. PICK a \in Nat, b \in Nat : a = Len(s) /\ b = Len(t)
            BY <4>6
          <6>2. Len(f[k]) = a + b /\ j \in 1 .. b
            BY <4>2, <4>6, <6>1
          <6>. QED  BY <6>1, <6>2
        <5>2. flat[Len(s) + j] = f[k][Len(s) + j]
          BY <3>1, <5>1
        <5>. QED  BY <4>2, <4>4, <4>6, <5>1, <5>2
      <4>. QED  BY <3>1, <4>7, <4>8
    <3>. QED  BY <3>2, <3>3
  <2>10. IsLaidOut(flat, seqs, end)
    BY <2>1, <2>8, <2>9 DEF IsLaidOut
  <2>. QED  BY <2>3, <2>8, <2>10
<1>. QED  BY <1>1, <1>2

------------------------------------------------------------------------------
(* What is written as calldata is read as what was written.                 *)

IsPlacing(place, felts) ==
  place = [k \in 0 .. At(felts, 5) |->
             IF k = 0 THEN 5 ELSE place[k - 1] + 3 + At(felts, place[k - 1] + 3)]

\* A function that satisfies the recursion is the one that is defined by it.
LEMMA PlacesAreThese ==
  ASSUME NEW felts, At(felts, 5) \in Nat, NEW place, IsPlacing(place, felts)
  PROVE  Places(felts) = place
<1>. DEFINE other == CHOOSE other : IsPlacing(other, felts)
            n == At(felts, 5)
<1>1. IsPlacing(other, felts)
  OBVIOUS
<1>2. Places(felts) = other
  BY DEF Places, IsPlacing
<1>. HIDE DEF other
<1>3. ASSUME NEW f, IsPlacing(f, felts)
      PROVE  /\ f = [k \in 0 .. n |-> f[k]]
             /\ \A k \in 0 .. n :
                  f[k] = IF k = 0 THEN 5 ELSE f[k - 1] + 3 + At(felts, f[k - 1] + 3)
  BY <1>3, Zenon DEF IsPlacing
<1>. HIDE DEF n
<1>. DEFINE T == {k \in Nat : k \in 0 .. n => other[k] = place[k]}
<1>4. 0 \in T
  BY <1>1, <1>3
<1>5. ASSUME NEW k \in Nat, k \in T
      PROVE  k + 1 \in T
  <2>. SUFFICES ASSUME k + 1 \in 0 .. n
                PROVE  other[k + 1] = place[k + 1]
    OBVIOUS
  <2>1. k \in 0 .. n /\ k + 1 # 0 /\ (k + 1) - 1 = k /\ other[k] = place[k]
    BY <1>5 DEF n
  <2>2. other[k + 1] = other[k] + 3 + At(felts, other[k] + 3)
    BY <1>1, <1>3, <2>1
  <2>3. place[k + 1] = place[k] + 3 + At(felts, place[k] + 3)
    BY <1>3, <2>1
  <2>. QED  BY <2>1, <2>2, <2>3
<1>. HIDE DEF T
<1>6. Nat \subseteq T
  BY <1>4, <1>5, InductionOn
<1>7. \A k \in 0 .. n : other[k] = place[k]
  BY <1>6 DEF T
<1>8. other = [k \in 0 .. n |-> other[k]] /\ place = [k \in 0 .. n |-> place[k]]
  BY <1>1, <1>3
<1>. QED  BY <1>2, <1>7, <1>8

ExecutionSet == [caller : Felt, nonce : Felt, after : Felt, before : Felt, calls : Seq(CallSet)]

\* A call in calldata: its address, its selector, the length of its data, its data.
LEMMA CompiledCallIs ==
  ASSUME NEW call \in CallSet
  PROVE  /\ CompiledCall(call) \in Seq(Felt)
         /\ Len(call.data) \in Nat /\ Len(CompiledCall(call)) = 3 + Len(call.data)
         /\ CompiledCall(call)[1] = call.to /\ CompiledCall(call)[2] = call.selector
         /\ CompiledCall(call)[3] = Len(call.data)
         /\ \A i \in 1 .. Len(call.data) : CompiledCall(call)[3 + i] = call.data[i]
<1>. DEFINE first == <<call.to, call.selector, Len(call.data)>>
<1>1. call.to \in Felt /\ call.selector \in Felt /\ call.data \in Seq(Felt)
  BY DEF CallSet
<1>2. Len(call.data) \in Felt
  BY <1>1 DEF Felt
<1>3. first \in Seq(Felt) /\ Len(first) = 3
  BY <1>1, <1>2
<1>4. first[1] = call.to /\ first[2] = call.selector /\ first[3] = Len(call.data)
  OBVIOUS
<1>5. CompiledCall(call) = first \o call.data
  BY DEF CompiledCall
<1>. HIDE DEF first
<1>6. CompiledCall(call) \in Seq(Felt) /\ IsConcatenation(CompiledCall(call), first, call.data)
  BY <1>1, <1>3, <1>5, Concatenation
<1>7. /\ Len(CompiledCall(call)) = 3 + Len(call.data)
      /\ \A j \in 1 .. 3 : CompiledCall(call)[j] = first[j]
      /\ \A j \in 1 .. Len(call.data) : CompiledCall(call)[3 + j] = call.data[j]
  BY <1>3, <1>6 DEF IsConcatenation
<1>8. CompiledCall(call)[1] = first[1] /\ CompiledCall(call)[2] = first[2]
      /\ CompiledCall(call)[3] = first[3]
  BY <1>7
<1>. QED  BY <1>2, <1>4, <1>6, <1>7, <1>8 DEF Felt

\* The calldata of e: a head of five felts, and its calls, the k-th up to end[k] after it.
IsCalldata(felts, e, end) ==
  /\ felts \in Seq(Felt)
  /\ felts[1] = e.caller /\ felts[2] = e.nonce /\ felts[3] = e.after /\ felts[4] = e.before
  /\ felts[5] = Len(e.calls)
  /\ end \in [0 .. Len(e.calls) -> Nat] /\ end[0] = 0
  /\ Len(felts) = 5 + end[Len(e.calls)]
  /\ \A k \in 1 .. Len(e.calls) :
       /\ end[k] = end[k - 1] + Len(CompiledCall(e.calls[k]))
       /\ 5 + end[k] <= Len(felts)
       /\ \A j \in 1 .. Len(CompiledCall(e.calls[k])) :
            felts[5 + end[k - 1] + j] = CompiledCall(e.calls[k])[j]

\* buildExecuteFromOutsideCallData() lays an execution out so.
LEMMA CalldataIsLaidOut ==
  ASSUME NEW e \in ExecutionSet
  PROVE  \E end : IsCalldata(buildExecuteFromOutsideCallData(e), e, end)
<1>. DEFINE felts == buildExecuteFromOutsideCallData(e)
            header == <<e.caller, e.nonce, e.after, e.before, Len(e.calls)>>
            coded == [i \in DOMAIN e.calls |-> CompiledCall(e.calls[i])]
<1>1. /\ e.calls \in Seq(CallSet) /\ Len(e.calls) \in Nat
      /\ e.caller \in Felt /\ e.nonce \in Felt /\ e.after \in Felt /\ e.before \in Felt
  BY DEF ExecutionSet
<1>2. PICK n \in Nat : n = Len(e.calls)
  BY <1>1
<1>3. header \in Seq(Felt) /\ Len(header) = 5
  BY <1>1 DEF Felt
<1>4. \A k \in 1 .. n : CompiledCall(e.calls[k]) \in Seq(Felt)
  BY <1>1, <1>2, CompiledCallIs
<1>5. coded = [k \in 1 .. n |-> CompiledCall(e.calls[k])]
  BY <1>1, <1>2
<1>6. coded \in Seq(Seq(Felt)) /\ Len(coded) = n /\ \A k \in 1 .. n : coded[k] = CompiledCall(e.calls[k])
  BY <1>4, <1>5
<1>7. felts = header \o FlattenSeq(coded)
  BY DEF buildExecuteFromOutsideCallData
<1>8. PICK flat : flat = FlattenSeq(coded)
  OBVIOUS
<1>9. header[1] = e.caller /\ header[2] = e.nonce /\ header[3] = e.after
      /\ header[4] = e.before /\ header[5] = Len(e.calls)
  OBVIOUS
<1>. HIDE DEF header, coded, felts
<1>10. PICK end : flat \in Seq(Felt) /\ IsLaidOut(flat, coded, end)
  BY <1>6, <1>8, FlattenLaysOut
<1>11. felts \in Seq(Felt) /\ IsConcatenation(felts, header, flat)
  BY <1>3, <1>7, <1>8, <1>10, Concatenation
<1>12. /\ Len(felts) = 5 + Len(flat) /\ Len(flat) \in Nat
       /\ \A j \in 1 .. 5 : felts[j] = header[j]
       /\ \A j \in 1 .. Len(flat) : felts[5 + j] = flat[j]
  BY <1>3, <1>11 DEF IsConcatenation
<1>13. end \in [0 .. n -> Nat] /\ end[0] = 0 /\ end[n] = Len(flat)
  BY <1>6, <1>10 DEF IsLaidOut
<1>14. ASSUME NEW k \in 1 .. n
       PROVE  /\ end[k] = end[k - 1] + Len(CompiledCall(e.calls[k])) /\ end[k] <= Len(flat)
              /\ \A j \in 1 .. Len(CompiledCall(e.calls[k])) :
                   flat[end[k - 1] + j] = CompiledCall(e.calls[k])[j]
  BY <1>6, <1>10 DEF IsLaidOut
<1>15. ASSUME NEW k \in 1 .. n, NEW j \in 1 .. Len(CompiledCall(e.calls[k]))
       PROVE  felts[5 + end[k - 1] + j] = CompiledCall(e.calls[k])[j]
  <2>1. Len(CompiledCall(e.calls[k])) \in Nat /\ k - 1 \in 0 .. n
    BY <1>4
  <2>2. end[k - 1] \in Nat /\ end[k - 1] + j \in 1 .. Len(flat)
    <3>1. PICK a \in Nat, b \in Nat, c \in Nat :
            a = end[k - 1] /\ b = Len(CompiledCall(e.calls[k])) /\ c = Len(flat)
      BY <1>12, <1>13, <2>1
    <3>2. end[k] = a + b /\ end[k] <= c
      BY <1>14, <3>1
    <3>3. j \in 1 .. b
      BY <3>1
    <3>4. a + j \in 1 .. c
      BY <3>2, <3>3
    <3>. QED  BY <3>1, <3>4
  <2>3. felts[5 + (end[k - 1] + j)] = flat[end[k - 1] + j]
    BY <1>12, <2>2
  <2>4. 5 + (end[k - 1] + j) = 5 + end[k - 1] + j
    BY <2>2
  <2>. QED  BY <1>14, <2>3, <2>4
<1>16. \A k \in 1 .. n : 5 + end[k] <= Len(felts)
  BY <1>12, <1>13, <1>14
<1>17. IsCalldata(felts, e, end)
  <2>1. Len(felts) = 5 + end[n]
    BY <1>12, <1>13
  <2>2. felts[1] = e.caller /\ felts[2] = e.nonce /\ felts[3] = e.after /\ felts[4] = e.before
        /\ felts[5] = n
    BY <1>2, <1>9, <1>12
  <2>. QED  BY <1>2, <1>11, <1>13, <1>14, <1>15, <1>16, <2>1, <2>2 DEF IsCalldata
<1>. QED  BY <1>17 DEF felts

\* The contract reads from the calldata the execution it was built from.
LEMMA CalldataIsRead ==
  ASSUME NEW e \in ExecutionSet
  PROVE  LET felts == buildExecuteFromOutsideCallData(e)
         IN Reads(felts) /\ ReadExecution(felts) = e
<1>1. PICK felts : felts = buildExecuteFromOutsideCallData(e)
  OBVIOUS
<1>2. PICK end : IsCalldata(felts, e, end)
  BY <1>1, CalldataIsLaidOut
<1>3. e.calls \in Seq(CallSet)
  BY DEF ExecutionSet
<1>4. PICK n \in Nat : n = Len(e.calls)
  BY <1>3
<1>5. /\ felts \in Seq(Felt) /\ end \in [0 .. n -> Nat] /\ end[0] = 0
      /\ Len(felts) = 5 + end[n] /\ felts[5] = n
      /\ felts[1] = e.caller /\ felts[2] = e.nonce /\ felts[3] = e.after /\ felts[4] = e.before
  BY <1>2, <1>4 DEF IsCalldata
<1>6. PICK len \in Nat : len = Len(felts) /\ 5 <= len /\ DOMAIN felts = 1 .. len
  BY <1>5
<1>7. At(felts, 5) = n
  BY <1>5, <1>6 DEF At
<1>8. PICK place : place = [k \in 0 .. n |-> 5 + end[k]]
  OBVIOUS
<1>9. ASSUME NEW k \in 1 .. n
      PROVE  /\ e.calls[k] \in CallSet /\ Len(e.calls[k].data) \in Nat
             /\ place[k - 1] \in Nat /\ place[k] \in Nat
             /\ place[k] = place[k - 1] + 3 + Len(e.calls[k].data) /\ place[k] <= len
             /\ felts[place[k - 1] + 1] = e.calls[k].to
             /\ felts[place[k - 1] + 2] = e.calls[k].selector
             /\ felts[place[k - 1] + 3] = Len(e.calls[k].data)
             /\ \A j \in 1 .. Len(e.calls[k].data) :
                  felts[place[k - 1] + 3 + j] = e.calls[k].data[j]
  <2>1. PICK call \in CallSet : call = e.calls[k]
    BY <1>3, <1>4
  <2>2. PICK coded : coded = CompiledCall(call)
    OBVIOUS
  <2>3. PICK d \in Nat : d = Len(call.data)
    BY <2>1, CompiledCallIs
  <2>4. /\ Len(coded) = 3 + d /\ coded[1] = call.to /\ coded[2] = call.selector /\ coded[3] = d
        /\ \A j \in 1 .. d : coded[3 + j] = call.data[j]
    BY <2>2, <2>3, CompiledCallIs
  <2>5. k - 1 \in 0 .. n /\ k \in 0 .. n
    OBVIOUS
  <2>6. PICK a \in Nat, b \in Nat : a = end[k - 1] /\ b = end[k]
    BY <1>5, <2>5
  <2>7. place[k - 1] = 5 + a /\ place[k] = 5 + b
    BY <1>8, <2>5, <2>6
  <2>8. /\ b = a + (3 + d) /\ 5 + b <= len
        /\ \A j \in 1 .. 3 + d : felts[5 + a + j] = coded[j]
    BY <1>2, <1>4, <1>6, <2>1, <2>2, <2>4, <2>6 DEF IsCalldata
  <2>9. ASSUME NEW j \in 1 .. d
        PROVE  felts[5 + a + 3 + j] = call.data[j]
    <3>1. 3 + j \in 1 .. 3 + d /\ 5 + a + (3 + j) = 5 + a + 3 + j
      OBVIOUS
    <3>2. felts[5 + a + (3 + j)] = coded[3 + j]
      BY <2>8, <3>1
    <3>. QED  BY <2>4, <3>1, <3>2
  <2>10. felts[5 + a + 1] = coded[1] /\ felts[5 + a + 2] = coded[2] /\ felts[5 + a + 3] = coded[3]
    BY <2>8
  <2>11. /\ place[k - 1] \in Nat /\ place[k] \in Nat /\ place[k] = place[k - 1] + 3 + d
         /\ place[k] <= len
    BY <2>7, <2>8
  <2>12. /\ felts[place[k - 1] + 1] = call.to /\ felts[place[k - 1] + 2] = call.selector
         /\ felts[place[k - 1] + 3] = d
         /\ \A j \in 1 .. d : felts[place[k - 1] + 3 + j] = call.data[j]
    BY <2>4, <2>7, <2>9, <2>10
  <2>. QED  BY <2>1, <2>3, <2>11, <2>12, Zenon
<1>10. IsPlacing(place, felts)
  <2>1. ASSUME NEW k \in 0 .. n
        PROVE  5 + end[k] = IF k = 0 THEN 5 ELSE place[k - 1] + 3 + At(felts, place[k - 1] + 3)
    <3>1. CASE k = 0
      BY <1>5, <3>1
    <3>2. CASE k # 0
      <4>1. k \in 1 .. n
        BY <3>2
      <4>2. PICK p \in Nat, q \in Nat, d \in Nat :
              p = place[k - 1] /\ q = place[k] /\ d = Len(e.calls[k].data)
        BY <1>9, <4>1
      <4>3. q = p + 3 + d /\ q <= len /\ felts[p + 3] = d
        BY <1>9, <4>1, <4>2
      <4>4. p + 3 \in 1 .. len
        BY <4>3
      <4>5. At(felts, p + 3) = d
        BY <1>6, <4>3, <4>4 DEF At
      <4>6. place[k] = 5 + end[k]
        BY <1>8
      <4>. QED  BY <3>2, <4>2, <4>3, <4>5, <4>6
    <3>. QED  BY <3>1, <3>2
  <2>2. place = [k \in 0 .. n |->
                   IF k = 0 THEN 5 ELSE place[k - 1] + 3 + At(felts, place[k - 1] + 3)]
    BY <1>8, <2>1
  <2>. QED  BY <1>7, <2>2 DEF IsPlacing
<1>11. Places(felts) = place
  BY <1>7, <1>10, PlacesAreThese
<1>12. Reads(felts)
  BY <1>5, <1>7, <1>8, <1>11 DEF Reads
<1>13. ASSUME NEW k \in 1 .. n
       PROVE  e.calls[k] = [to |-> felts[place[k - 1] + 1], selector |-> felts[place[k - 1] + 2],
                            data |-> SubSeq(felts, place[k - 1] + 4, place[k])]
  <2>1. PICK call \in CallSet : call = e.calls[k]
    BY <1>9
  <2>2. call.data \in Seq(Felt)
    BY <2>1 DEF CallSet
  <2>3. PICK p \in Nat, q \in Nat, d \in Nat : p = place[k - 1] /\ q = place[k] /\ d = Len(call.data)
    BY <1>9, <2>1
  <2>4. q = p + 3 + d /\ q <= len /\ \A j \in 1 .. d : felts[p + 3 + j] = call.data[j]
    BY <1>9, <2>1, <2>3
  <2>5. SubSeq(felts, p + 4, q) = call.data
    <3>1. p + 4 \in Int /\ q \in Int /\ q - (p + 4) + 1 = d
      BY <2>4
    <3>2. \A i \in p + 4 .. q : felts[i] \in Felt
      BY <1>5, <1>6, <2>4
    <3>3. PICK sub : sub = SubSeq(felts, p + 4, q)
      OBVIOUS
    <3>4. /\ sub \in Seq(Felt) /\ Len(sub) = IF p + 4 <= q THEN q - (p + 4) + 1 ELSE 0
          /\ \A i \in 1 .. q - (p + 4) + 1 : sub[i] = felts[(p + 4) + i - 1]
      BY <3>1, <3>2, <3>3, SubSeqProperties
    <3>5. Len(sub) = d
      BY <2>4, <3>1, <3>4
    <3>6. ASSUME NEW i \in 1 .. d
          PROVE  sub[i] = call.data[i]
      <4>1. (p + 4) + i - 1 = p + 3 + i
        OBVIOUS
      <4>. QED  BY <2>4, <3>1, <3>4, <4>1
    <3>7. sub = call.data
      BY <2>2, <2>3, <3>4, <3>5, <3>6, SeqEqual
    <3>. QED  BY <3>3, <3>7
  <2>6. call = [to |-> call.to, selector |-> call.selector, data |-> call.data]
    BY DEF CallSet
  <2>. QED  BY <1>9, <2>1, <2>3, <2>5, <2>6
<1>14. e.calls = [k \in 1 .. n |-> e.calls[k]]
  BY <1>3, <1>4
<1>15. e = [caller |-> e.caller, nonce |-> e.nonce, after |-> e.after, before |-> e.before,
            calls |-> e.calls]
  BY DEF ExecutionSet
<1>16. ReadExecution(felts) =
         [caller |-> felts[1], nonce |-> felts[2], after |-> felts[3], before |-> felts[4],
          calls |-> [k \in 1 .. n |->
             [to |-> felts[place[k - 1] + 1], selector |-> felts[place[k - 1] + 2],
              data |-> SubSeq(felts, place[k - 1] + 4, place[k])]]]
  BY <1>5, <1>11 DEF ReadExecution
<1>17. e.calls = [k \in 1 .. n |->
             [to |-> felts[place[k - 1] + 1], selector |-> felts[place[k - 1] + 2],
              data |-> SubSeq(felts, place[k - 1] + 4, place[k])]]
  BY <1>13, <1>14
<1>18. ReadExecution(felts) = e
  BY <1>5, <1>15, <1>16, <1>17
<1>. QED  BY <1>1, <1>12, <1>18

------------------------------------------------------------------------------
(* The inductive invariant.                                                 *)

OrderPlaces == {"start", "2", "1", "nonce", "chain id", "made", "failed"}

ChainTypes ==
  /\ supports \in [Accounts -> Supports] /\ used \in [Accounts -> SUBSET Felt]
  /\ replaced \subseteq Accounts /\ stale \subseteq Orders /\ now \in Nat

OrderTypes ==
  /\ pc \in [Orders -> OrderPlaces] /\ nonce \in [Orders -> Felt]
  /\ DOMAIN version = Orders /\ version = [o \in Orders |-> version[o]]
  /\ made = [o \in Orders |-> made[o]]

\* An order with a caller that is no address fails first.
CallerIsCoded(o) ==
  pc[o] \notin {"start", "failed"} => Options(o).caller[1] \in {"hex", "any"}

\* A version that was not given is one that the account's class supports, as
\* long as the class is not replaced.
VersionIsFound(o) ==
  /\ pc[o] \in {"1", "2"} => Version(o) = NotGiven
  /\ Version(o) # NotGiven => version[o] = Version(o)
  /\ Version(o) = NotGiven /\ pc[o] \in {"nonce", "chain id", "made"} =>
       version[o] \in supports[Account(o)] \union {UNSUPPORTED} \/ Account(o) \in replaced
  /\ pc[o] = "made" => version[o] # UNSUPPORTED

\* A nonce that was asked for is one that no one has used, or that another
\* order has used since.
NonceIsFresh(o) ==
  ~HasNonce(o) /\ pc[o] \in {"chain id", "made"} => nonce[o] \notin used[Account(o)] \/ o \in stale

\* What was made of an order is what it asked for, and stays.
MadeAsAsked(o) ==
  pc[o] = "made" =>
    made[o] = [version |-> version[o], account |-> Account(o),
               calldata |-> buildExecuteFromOutsideCallData(Execution(o)),
               signed |-> <<Account(o), getTypedData(version[o], Execution(o))>>]

LastIsMade ==
  /\ last.batch \in Seq(Orders)
  /\ \A i \in DOMAIN last.batch : pc[last.batch[i]] = "made"

OrdersInv ==
  \A o \in Orders :
    CallerIsCoded(o) /\ VersionIsFound(o) /\ NonceIsFresh(o) /\ MadeAsAsked(o)

Inv == ChainTypes /\ OrderTypes /\ OrdersInv /\ LastIsMade /\ ExecutedAsOrdered /\ RevertHasCause

orderVars == <<pc, version, nonce, made>>

\* Inv holds at first.
LEMMA InitHolds == Init => Inv
<1>. SUFFICES ASSUME Init PROVE Inv
  OBVIOUS
<1>1. ChainTypes
  BY DEF Init, ChainTypes
<1>2. OrderTypes
  BY DEF Init, OrderTypes, OrderPlaces, Felt
<1>3. OrdersInv
  BY DEF Init, OrdersInv, CallerIsCoded, VersionIsFound, NonceIsFresh, MadeAsAsked
<1>4. last.batch = <<>> /\ last.passed = TRUE
  BY DEF Init, NoExecution
<1>5. LastIsMade
  BY <1>4 DEF LastIsMade
<1>6. ExecutedAsOrdered /\ RevertHasCause
  <2>1. DOMAIN last.batch = {}
    BY <1>4
  <2>. QED  BY <1>4, <2>1 DEF ExecutedAsOrdered, RevertHasCause
<1>. QED  BY <1>1, <1>2, <1>3, <1>5, <1>6 DEF Inv

\* What an order asks for is an execution of felts.
LEMMA ExecutionIsTyped ==
  ASSUME NEW o \in Orders, nonce[o] \in Felt, CallerIsCoded(o), pc[o] = "made"
  PROVE  Execution(o) \in ExecutionSet
<1>1. Options(o).caller[1] \in {"hex", "any"}
  BY DEF CallerIsCoded
<1>2. CodedCaller(Options(o).caller) \in Felt
  BY <1>1, OutsideAssumption DEF CodedCaller, ANY_CALLER, Felt
<1>3. CallsOf(o) \in Seq(CallSet) /\ Options(o).after \in Felt /\ Options(o).before \in Felt
  BY OutsideAssumption
<1>. QED  BY <1>2, <1>3 DEF Execution, ExecutionSet

\* What the contract finds in an order that was made.
LEMMA MadeIsRead ==
  ASSUME NEW o \in Orders, nonce[o] \in Felt, CallerIsCoded(o), MadeAsAsked(o), pc[o] = "made"
  PROVE  /\ Reads(made[o].calldata) /\ ReadExecution(made[o].calldata) = Execution(o)
         /\ made[o].version = version[o] /\ made[o].account = Account(o)
         /\ made[o].signed = <<Account(o), Hashed(version[o], Execution(o))>>
<1>1. Execution(o) \in ExecutionSet
  BY ExecutionIsTyped
<1>2. /\ made[o].calldata = buildExecuteFromOutsideCallData(Execution(o))
      /\ made[o].version = version[o] /\ made[o].account = Account(o)
      /\ made[o].signed = <<Account(o), getTypedData(version[o], Execution(o))>>
  BY DEF MadeAsAsked
<1>3. getTypedData(version[o], Execution(o)) = Hashed(version[o], Execution(o))
  BY DEF getTypedData, Hashed
<1>. QED  BY <1>1, <1>2, <1>3, CalldataIsRead

\* CodedCaller in the calldata allows whom the option named.
LEMMA CallerAllows ==
  ASSUME NEW o \in Orders, CallerIsCoded(o), pc[o] = "made", NEW executor
  PROVE  CodedCaller(Options(o).caller) \in {executor, ANY_CALLER}
         <=> Allows(Options(o).caller, executor)
<1>1. PICK caller : caller = Options(o).caller
  OBVIOUS
<1>2. /\ caller[1] = "hex" => caller = <<"hex", caller[2]>>
      /\ caller[1] = "any" => caller = <<"any">>
      /\ caller[1] \in {"hex", "any"}
  BY <1>1, OutsideAssumption DEF CallerIsCoded
<1>3. CASE caller[1] = "hex"
  <2>1. PICK a : caller = <<"hex", a>> /\ CodedCaller(caller) = a
    BY <1>2, <1>3 DEF CodedCaller
  <2>2. Allows(caller, executor) <=> a \in {executor, ANY_CALLER}
    BY <2>1 DEF Allows
  <2>. QED  BY <1>1, <2>1, <2>2
<1>4. CASE caller[1] = "any"
  <2>1. caller = <<"any">> /\ CodedCaller(caller) = ANY_CALLER
    BY <1>2, <1>4 DEF CodedCaller
  <2>. QED  BY <1>1, <2>1 DEF Allows
<1>. QED  BY <1>2, <1>3, <1>4

------------------------------------------------------------------------------
(* The steps of an order change what is of that order.                      *)

OthersStay(o) ==
  /\ UNCHANGED chain
  /\ \A p \in Orders \ {o} :
       pc'[p] = pc[p] /\ version'[p] = version[p] /\ nonce'[p] = nonce[p] /\ made'[p] = made[p]

\* A step of an order that is not made leaves alone those last executed.
LEMMA LastIsOfOthers ==
  ASSUME Inv, NEW o \in Orders, pc[o] # "made", OthersStay(o)
  PROVE  \A i \in DOMAIN last.batch :
           LET p == last.batch[i]
           IN /\ p \in Orders /\ pc'[p] = "made" /\ made'[p] = made[p] /\ nonce'[p] = nonce[p]
<1>. SUFFICES ASSUME NEW i \in DOMAIN last.batch
              PROVE  LET p == last.batch[i]
                     IN /\ p \in Orders /\ pc'[p] = "made" /\ made'[p] = made[p]
                        /\ nonce'[p] = nonce[p]
  OBVIOUS
<1>1. PICK p : p = last.batch[i]
  OBVIOUS
<1>2. p \in Orders /\ pc[p] = "made"
  BY <1>1 DEF Inv, LastIsMade
<1>. QED  BY <1>1, <1>2 DEF OthersStay

\* So it is enough to look at what such a step does to its own order.
LEMMA OrderKeeps ==
  ASSUME Inv, NEW o \in Orders, pc[o] # "made", OthersStay(o), OrderTypes',
         CallerIsCoded(o)', VersionIsFound(o)', NonceIsFresh(o)', MadeAsAsked(o)'
  PROVE  Inv'
<1>1. ChainTypes'
  BY DEF Inv, ChainTypes, OthersStay, chain
<1>2. ASSUME NEW p \in Orders, p # o
      PROVE  CallerIsCoded(p)' /\ VersionIsFound(p)' /\ NonceIsFresh(p)' /\ MadeAsAsked(p)'
  <2>1. CallerIsCoded(p) /\ VersionIsFound(p) /\ NonceIsFresh(p) /\ MadeAsAsked(p)
    BY DEF Inv, OrdersInv
  <2>2. /\ pc'[p] = pc[p] /\ version'[p] = version[p] /\ nonce'[p] = nonce[p] /\ made'[p] = made[p]
        /\ used' = used /\ stale' = stale /\ supports' = supports /\ replaced' = replaced
    BY <1>2 DEF OthersStay, chain
  <2>3. CallerIsCoded(p)'
    BY <2>1, <2>2 DEF CallerIsCoded
  <2>4. VersionIsFound(p)'
    BY <2>1, <2>2 DEF VersionIsFound
  <2>5. NonceIsFresh(p)'
    BY <2>1, <2>2 DEF NonceIsFresh
  <2>6. Execution(p)' = Execution(p)
    BY <2>2 DEF Execution
  <2>7. MadeAsAsked(p)'
    BY <2>1, <2>2, <2>6 DEF MadeAsAsked
  <2>. QED  BY <2>3, <2>4, <2>5, <2>7
<1>3. OrdersInv'
  BY <1>2 DEF OrdersInv
<1>4. last' = last /\ used' = used /\ stale' = stale /\ supports' = supports /\ replaced' = replaced
  BY DEF OthersStay, chain
<1>5. LastIsMade'
  BY <1>4, LastIsOfOthers DEF Inv, LastIsMade
<1>6. ExecutedAsOrdered'
  BY <1>4, LastIsOfOthers DEF Inv, ExecutedAsOrdered
<1>7. RevertHasCause'
  <2>1. ASSUME ~last.passed PROVE RevertHasCause'
    <3>1. PICK i \in DOMAIN last.batch :
            LET o1 == last.batch[i] asked == Options(o1)
            IN \/ ~Allows(asked.caller, last.executor)
               \/ last.at <= asked.after \/ asked.before <= last.at
               \/ o1 \in stale \/ Account(o1) \in replaced
               \/ HasNonce(o1) /\ nonce[o1] \in used[Account(o1)]
               \/ Version(o1) # NotGiven /\ Version(o1) \notin supports[Account(o1)]
               \/ \E j \in 1..(i - 1) : Account(last.batch[j]) = Account(o1) /\ nonce[last.batch[j]] = nonce[o1]
      BY <2>1 DEF Inv, RevertHasCause
    <3>2. \A j \in 1..(i - 1) : j \in DOMAIN last.batch
      BY DEF Inv, LastIsMade
    <3>. QED  BY <1>4, <3>1, <3>2, LastIsOfOthers DEF RevertHasCause
  <2>. QED  BY <1>4, <2>1 DEF RevertHasCause
<1>. QED  BY <1>1, <1>3, <1>5, <1>6, <1>7 DEF Inv

\* getOutsideTransaction() with its version: the nonce comes next, or is given.
LEMMA GoesOnTo ==
  ASSUME Inv, NEW o \in Orders, GoesOn(o)
  PROVE  /\ pc'[o] \in {"chain id", "nonce"} /\ nonce'[o] \in Felt
         /\ pc'[o] = "chain id" => HasNonce(o)
         /\ pc' \in [Orders -> OrderPlaces] /\ nonce' \in [Orders -> Felt]
         /\ \A p \in Orders \ {o} : pc'[p] = pc[p] /\ nonce'[p] = nonce[p]
<1>1. pc \in [Orders -> OrderPlaces] /\ nonce \in [Orders -> Felt]
  BY DEF Inv, OrderTypes
<1>2. CASE HasNonce(o)
  <2>1. pc' = [pc EXCEPT ![o] = "chain id"] /\ nonce' = [nonce EXCEPT ![o] = Nonce(o)]
    BY <1>2 DEF GoesOn, Goes
  <2>2. Nonce(o) \in Felt
    BY <1>2, OutsideAssumption DEF HasNonce
  <2>. QED  BY <1>1, <1>2, <2>1, <2>2 DEF OrderPlaces
<1>3. CASE ~HasNonce(o)
  <2>1. PICK n \in Nonces : pc' = [pc EXCEPT ![o] = "nonce"] /\ nonce' = [nonce EXCEPT ![o] = n]
    BY <1>3 DEF GoesOn, Goes
  <2>2. n \in Felt
    BY OutsideAssumption
  <2>. QED  BY <1>1, <2>1, <2>2 DEF OrderPlaces
<1>. QED  BY <1>2, <1>3

\* getOutsideTransaction() begins: its caller, its version.
LEMMA BeginKeeps == ASSUME Inv, NEW o \in Orders, Begin(o) PROVE Inv'
<1>1. /\ pc[o] = "start" /\ version' = version /\ made' = made /\ UNCHANGED chain
      /\ pc \in [Orders -> OrderPlaces] /\ nonce \in [Orders -> Felt]
      /\ DOMAIN version = Orders /\ version = [p \in Orders |-> version[p]]
      /\ made = [p \in Orders |-> made[p]] /\ VersionIsFound(o)
  BY DEF Begin, Inv, OrderTypes, OrdersInv
<1>2. CASE Options(o).caller[1] \notin {"hex", "any"} /\ Goes(o, "failed") /\ UNCHANGED nonce
  <2>1. pc' = [pc EXCEPT ![o] = "failed"] /\ nonce' = nonce
    BY <1>2 DEF Goes
  <2>2. OthersStay(o) /\ pc'[o] = "failed" /\ OrderTypes'
    BY <1>1, <2>1 DEF OthersStay, OrderTypes, OrderPlaces
  <2>3. CallerIsCoded(o)' /\ VersionIsFound(o)' /\ NonceIsFresh(o)' /\ MadeAsAsked(o)'
    BY <1>1, <2>2 DEF CallerIsCoded, VersionIsFound, NonceIsFresh, MadeAsAsked
  <2>. QED  BY <1>1, <2>2, <2>3, OrderKeeps
<1>3. CASE /\ Options(o).caller[1] \in {"hex", "any"}
           /\ Version(o) = NotGiven /\ Goes(o, "2") /\ UNCHANGED nonce
  <2>1. pc' = [pc EXCEPT ![o] = "2"] /\ nonce' = nonce
    BY <1>3 DEF Goes
  <2>2. OthersStay(o) /\ pc'[o] = "2" /\ OrderTypes'
    BY <1>1, <2>1 DEF OthersStay, OrderTypes, OrderPlaces
  <2>3. CallerIsCoded(o)' /\ VersionIsFound(o)' /\ NonceIsFresh(o)' /\ MadeAsAsked(o)'
    BY <1>1, <1>3, <2>2 DEF CallerIsCoded, VersionIsFound, NonceIsFresh, MadeAsAsked
  <2>. QED  BY <1>1, <2>2, <2>3, OrderKeeps
<1>4. CASE /\ Options(o).caller[1] \in {"hex", "any"}
           /\ Version(o) # NotGiven /\ GoesOn(o)
  <2>0. /\ pc' \in [Orders -> OrderPlaces] /\ nonce' \in [Orders -> Felt]
        /\ \A p \in Orders \ {o} : pc'[p] = pc[p] /\ nonce'[p] = nonce[p]
    BY <1>4, GoesOnTo
  <2>1. OthersStay(o) /\ OrderTypes'
    BY <1>1, <2>0 DEF OthersStay, OrderTypes
  <2>2. CallerIsCoded(o)' /\ VersionIsFound(o)' /\ NonceIsFresh(o)' /\ MadeAsAsked(o)'
    BY <1>1, <1>4, GoesOnTo DEF CallerIsCoded, VersionIsFound, NonceIsFresh, MadeAsAsked
  <2>. QED  BY <1>1, <2>1, <2>2, OrderKeeps
<1>. QED  BY <1>2, <1>3, <1>4 DEF Begin

\* getSnip9Version(): the interfaces of the class, one after the other.
LEMMA VersionKeeps ==
  ASSUME Inv, NEW o \in Orders, NEW v \in {"1", "2"}, getSnip9Version(o, v)
  PROVE  Inv'
<1>1. /\ pc[o] = v /\ made' = made /\ UNCHANGED chain /\ supports' = supports
      /\ pc \in [Orders -> OrderPlaces] /\ nonce \in [Orders -> Felt]
      /\ DOMAIN version = Orders /\ version = [p \in Orders |-> version[p]]
      /\ made = [p \in Orders |-> made[p]]
      /\ CallerIsCoded(o) /\ VersionIsFound(o)
  BY DEF getSnip9Version, Inv, OrderTypes, OrdersInv, chain
<1>2. Version(o) = NotGiven /\ Options(o).caller[1] \in {"hex", "any"}
  BY <1>1 DEF VersionIsFound, CallerIsCoded
<1>3. ASSUME NEW found, found \in supports[Account(o)] \union {UNSUPPORTED},
             version' = [version EXCEPT ![o] = found], GoesOn(o)
      PROVE  Inv'
  <2>1. /\ DOMAIN version' = Orders /\ version' = [p \in Orders |-> version'[p]]
        /\ version'[o] = found /\ \A p \in Orders \ {o} : version'[p] = version[p]
    BY <1>1, <1>3
  <2>2. OthersStay(o) /\ OrderTypes'
    BY <1>1, <1>3, <2>1, GoesOnTo DEF OthersStay, OrderTypes
  <2>3. CallerIsCoded(o)' /\ NonceIsFresh(o)' /\ MadeAsAsked(o)'
    BY <1>1, <1>2, <1>3, GoesOnTo DEF CallerIsCoded, NonceIsFresh, MadeAsAsked
  <2>4. VersionIsFound(o)'
    BY <1>1, <1>2, <1>3, <2>1, GoesOnTo DEF VersionIsFound
  <2>. QED  BY <1>1, <2>2, <2>3, <2>4, OrderKeeps
<1>4. CASE v \in supports[Account(o)] /\ version' = [version EXCEPT ![o] = v] /\ GoesOn(o)
  BY <1>3, <1>4
<1>5. CASE v = "2" /\ Goes(o, "1") /\ UNCHANGED <<version, nonce>>
  <2>1. pc' = [pc EXCEPT ![o] = "1"] /\ nonce' = nonce /\ version' = version
    BY <1>5 DEF Goes
  <2>2. OthersStay(o) /\ pc'[o] = "1" /\ OrderTypes'
    BY <1>1, <2>1 DEF OthersStay, OrderTypes, OrderPlaces
  <2>3. CallerIsCoded(o)' /\ VersionIsFound(o)' /\ NonceIsFresh(o)' /\ MadeAsAsked(o)'
    BY <1>1, <1>2, <2>2 DEF CallerIsCoded, VersionIsFound, NonceIsFresh, MadeAsAsked
  <2>. QED  BY <1>1, <2>2, <2>3, OrderKeeps
<1>6. CASE v # "2" /\ version' = [version EXCEPT ![o] = UNSUPPORTED] /\ GoesOn(o)
  BY <1>3, <1>6
<1>. QED  BY <1>4, <1>5, <1>6 DEF getSnip9Version

\* getSnip9Nonce(): drawn until it is free.
LEMMA NonceKeeps == ASSUME Inv, NEW o \in Orders, getSnip9Nonce(o) PROVE Inv'
<1>1. /\ pc[o] = "nonce" /\ version' = version /\ made' = made /\ UNCHANGED chain
      /\ used' = used /\ supports' = supports /\ replaced' = replaced
      /\ pc \in [Orders -> OrderPlaces] /\ nonce \in [Orders -> Felt]
      /\ DOMAIN version = Orders /\ version = [p \in Orders |-> version[p]]
      /\ made = [p \in Orders |-> made[p]]
      /\ CallerIsCoded(o) /\ VersionIsFound(o)
  BY DEF getSnip9Nonce, Inv, OrderTypes, OrdersInv, chain
<1>2. CASE nonce[o] \in used[Account(o)]
  <2>1. PICK n \in Nonces : nonce' = [nonce EXCEPT ![o] = n] /\ pc' = pc
    BY <1>2 DEF getSnip9Nonce
  <2>2. n \in Felt
    BY OutsideAssumption
  <2>3. OthersStay(o) /\ OrderTypes'
    BY <1>1, <2>1, <2>2 DEF OthersStay, OrderTypes
  <2>4. CallerIsCoded(o)' /\ VersionIsFound(o)' /\ NonceIsFresh(o)' /\ MadeAsAsked(o)'
    BY <1>1, <2>1 DEF CallerIsCoded, VersionIsFound, NonceIsFresh, MadeAsAsked
  <2>. QED  BY <1>1, <2>3, <2>4, OrderKeeps
<1>3. CASE nonce[o] \notin used[Account(o)]
  <2>1. pc' = [pc EXCEPT ![o] = "chain id"] /\ nonce' = nonce
    BY <1>3 DEF getSnip9Nonce, Goes
  <2>2. OthersStay(o) /\ pc'[o] = "chain id" /\ OrderTypes'
    BY <1>1, <2>1 DEF OthersStay, OrderTypes, OrderPlaces
  <2>3. CallerIsCoded(o)' /\ VersionIsFound(o)' /\ NonceIsFresh(o)' /\ MadeAsAsked(o)'
    BY <1>1, <1>3, <2>1, <2>2 DEF CallerIsCoded, VersionIsFound, NonceIsFresh, MadeAsAsked
  <2>. QED  BY <1>1, <2>2, <2>3, OrderKeeps
<1>. QED  BY <1>2, <1>3

\* A request is lost.
LEMMA FailureKeeps == ASSUME Inv, NEW o \in Orders, RequestFails(o) PROVE Inv'
<1>1. /\ pc[o] # "made" /\ pc' = [pc EXCEPT ![o] = "failed"] /\ nonce' = nonce
      /\ version' = version /\ made' = made /\ UNCHANGED chain
      /\ pc \in [Orders -> OrderPlaces] /\ nonce \in [Orders -> Felt]
      /\ DOMAIN version = Orders /\ version = [p \in Orders |-> version[p]]
      /\ made = [p \in Orders |-> made[p]] /\ VersionIsFound(o)
  BY DEF RequestFails, Goes, Inv, OrderTypes, OrdersInv
<1>2. OthersStay(o) /\ pc'[o] = "failed" /\ OrderTypes'
  BY <1>1 DEF OthersStay, OrderTypes, OrderPlaces
<1>3. CallerIsCoded(o)' /\ VersionIsFound(o)' /\ NonceIsFresh(o)' /\ MadeAsAsked(o)'
  BY <1>1, <1>2 DEF CallerIsCoded, VersionIsFound, NonceIsFresh, MadeAsAsked
<1>. QED  BY <1>1, <1>2, <1>3, OrderKeeps

\* The outside transaction is built and signed.
LEMMA SignKeeps == ASSUME Inv, NEW o \in Orders, Sign(o) PROVE Inv'
<1>1. /\ pc[o] = "chain id" /\ nonce' = nonce /\ version' = version /\ UNCHANGED chain
      /\ used' = used /\ stale' = stale /\ supports' = supports /\ replaced' = replaced
      /\ pc \in [Orders -> OrderPlaces] /\ nonce \in [Orders -> Felt]
      /\ DOMAIN version = Orders /\ version = [p \in Orders |-> version[p]]
      /\ made = [p \in Orders |-> made[p]]
      /\ CallerIsCoded(o) /\ VersionIsFound(o) /\ NonceIsFresh(o)
  BY DEF Sign, Inv, OrderTypes, OrdersInv, chain
<1>2. CASE version[o] = UNSUPPORTED
  <2>1. pc' = [pc EXCEPT ![o] = "failed"] /\ made' = made
    BY <1>2 DEF Sign, Goes
  <2>2. OthersStay(o) /\ pc'[o] = "failed" /\ OrderTypes'
    BY <1>1, <2>1 DEF OthersStay, OrderTypes, OrderPlaces
  <2>3. CallerIsCoded(o)' /\ VersionIsFound(o)' /\ NonceIsFresh(o)' /\ MadeAsAsked(o)'
    BY <1>1, <2>2 DEF CallerIsCoded, VersionIsFound, NonceIsFresh, MadeAsAsked
  <2>. QED  BY <1>1, <2>2, <2>3, OrderKeeps
<1>3. CASE version[o] # UNSUPPORTED
  <2>1. PICK tx : tx = [version |-> version[o], account |-> Account(o),
                        calldata |-> buildExecuteFromOutsideCallData(Execution(o)),
                        signed |-> <<Account(o), getTypedData(version[o], Execution(o))>>]
    OBVIOUS
  <2>2. pc' = [pc EXCEPT ![o] = "made"] /\ made' = [made EXCEPT ![o] = tx]
    BY <1>3, <2>1 DEF Sign, Goes
  <2>3. OthersStay(o) /\ pc'[o] = "made" /\ made'[o] = tx /\ OrderTypes'
    BY <1>1, <2>2 DEF OthersStay, OrderTypes, OrderPlaces
  <2>4. CallerIsCoded(o)' /\ VersionIsFound(o)' /\ NonceIsFresh(o)'
    BY <1>1, <1>3, <2>3 DEF CallerIsCoded, VersionIsFound, NonceIsFresh
  <2>5. Execution(o)' = Execution(o)
    BY <1>1 DEF Execution
  <2>6. MadeAsAsked(o)'
    BY <1>1, <2>1, <2>3, <2>5 DEF MadeAsAsked
  <2>. QED  BY <1>1, <2>3, <2>4, <2>6, OrderKeeps
<1>. QED  BY <1>2, <1>3

------------------------------------------------------------------------------
(* The steps of the chain leave the orders alone.                           *)

\* Time passes, or nothing happens.
LEMMA StutterKeeps ==
  ASSUME Inv, UNCHANGED orderVars, UNCHANGED <<supports, used, last, replaced, stale>>, now' \in Nat
  PROVE  Inv'
<1>1. /\ pc' = pc /\ version' = version /\ nonce' = nonce /\ made' = made
      /\ supports' = supports /\ used' = used /\ last' = last
      /\ replaced' = replaced /\ stale' = stale
  BY DEF orderVars
<1>2. ChainTypes' /\ OrderTypes'
  BY <1>1 DEF Inv, ChainTypes, OrderTypes
<1>3. ASSUME NEW o \in Orders
      PROVE  CallerIsCoded(o)' /\ VersionIsFound(o)' /\ NonceIsFresh(o)' /\ MadeAsAsked(o)'
  BY <1>1 DEF Inv, OrdersInv, CallerIsCoded, VersionIsFound, NonceIsFresh, MadeAsAsked, Execution
<1>4. LastIsMade' /\ ExecutedAsOrdered' /\ RevertHasCause'
  BY <1>1 DEF Inv, LastIsMade, ExecutedAsOrdered, RevertHasCause
<1>. QED  BY <1>2, <1>3, <1>4 DEF Inv, OrdersInv

\* The class of an account is replaced.
LEMMA ReplaceKeeps == ASSUME Inv, NEW a \in Accounts, Replace(a) PROVE Inv'
<1>1. /\ pc' = pc /\ version' = version /\ nonce' = nonce /\ made' = made
      /\ used' = used /\ last' = last /\ stale' = stale /\ now' = now
      /\ replaced' = replaced \union {a}
      /\ supports \in [Accounts -> Supports]
  BY DEF Replace, Inv, ChainTypes
<1>2. PICK s \in Supports : supports' = [supports EXCEPT ![a] = s]
  BY DEF Replace
<1>3. supports' \in [Accounts -> Supports] /\ \A b \in Accounts \ {a} : supports'[b] = supports[b]
  BY <1>1, <1>2
<1>4. \A o \in Orders : Account(o) \in Accounts
  BY DEF Accounts
<1>5. ChainTypes' /\ OrderTypes'
  BY <1>1, <1>3 DEF Inv, ChainTypes, OrderTypes
<1>6. ASSUME NEW o \in Orders
      PROVE  CallerIsCoded(o)' /\ VersionIsFound(o)' /\ NonceIsFresh(o)' /\ MadeAsAsked(o)'
  <2>1. CallerIsCoded(o) /\ VersionIsFound(o) /\ NonceIsFresh(o) /\ MadeAsAsked(o)
    BY DEF Inv, OrdersInv
  <2>2. VersionIsFound(o)'
    BY <1>1, <1>3, <1>4, <2>1 DEF VersionIsFound
  <2>3. Execution(o)' = Execution(o)
    BY <1>1 DEF Execution
  <2>. QED  BY <1>1, <2>1, <2>2, <2>3 DEF CallerIsCoded, NonceIsFresh, MadeAsAsked
<1>7. LastIsMade' /\ ExecutedAsOrdered'
  BY <1>1 DEF Inv, LastIsMade, ExecutedAsOrdered
<1>8. ASSUME ~last.passed
      PROVE  RevertHasCause'
  <2>1. PICK i \in DOMAIN last.batch :
          LET o == last.batch[i] asked == Options(o)
          IN \/ ~Allows(asked.caller, last.executor)
             \/ last.at <= asked.after \/ asked.before <= last.at
             \/ o \in stale \/ Account(o) \in replaced
             \/ HasNonce(o) /\ nonce[o] \in used[Account(o)]
             \/ Version(o) # NotGiven /\ Version(o) \notin supports[Account(o)]
             \/ \E j \in 1..(i - 1) : Account(last.batch[j]) = Account(o) /\ nonce[last.batch[j]] = nonce[o]
    BY <1>8 DEF Inv, RevertHasCause
  <2>2. last.batch[i] \in Orders
    BY DEF Inv, LastIsMade
  <2>. QED  BY <1>1, <1>3, <1>4, <2>1, <2>2 DEF RevertHasCause
<1>9. RevertHasCause'
  BY <1>1, <1>8 DEF RevertHasCause
<1>. QED  BY <1>5, <1>6, <1>7, <1>9 DEF Inv, OrdersInv

\* executeFromOutside(): all of a batch, or nothing.
LEMMA ExecutionKeeps ==
  ASSUME Inv, NEW executor \in Executors, NEW batch \in Batches,
         executeFromOutside(executor, batch)
  PROVE  Inv'
<1>1. PICK passes \in BOOLEAN :
        passes = \A i \in DOMAIN batch : Passes(made[batch[i]], executor, TakenBefore(batch, i))
  OBVIOUS
<1>2. /\ \A i \in DOMAIN batch : pc[batch[i]] = "made"
      /\ last' = [batch |-> batch, executor |-> executor, at |-> now, passed |-> passes]
      /\ pc' = pc /\ version' = version /\ nonce' = nonce /\ made' = made
      /\ supports' = supports /\ replaced' = replaced /\ now' = now
      /\ passes => /\ used' = [a \in Accounts |->
                         used[a] \union {nonce[o] : o \in {p \in InBatch(batch) : Account(p) = a}}]
                   /\ stale' = stale \union
                        {o \in Orders : pc[o] \in {"chain id", "made"} /\
                           \E p \in InBatch(batch) : Account(p) = Account(o) /\ nonce[p] = nonce[o]}
      /\ ~passes => used' = used /\ stale' = stale
  BY <1>1 DEF executeFromOutside
<1>3. batch \in Seq(Orders) /\ \A i \in DOMAIN batch : batch[i] \in Orders
  BY OutsideAssumption
<1>4. \A o \in Orders : Account(o) \in Accounts
  BY DEF Accounts
<1>5. /\ last'.batch = batch /\ last'.executor = executor /\ last'.at = now
      /\ last'.passed = passes
  BY <1>2
<1>6. ChainTypes'
  <2>1. \A p \in InBatch(batch) : p \in Orders /\ nonce[p] \in Felt
    BY <1>3 DEF InBatch, Inv, OrderTypes
  <2>2. CASE passes
    <3>1. ASSUME NEW a \in Accounts
          PROVE  used[a] \union {nonce[o] : o \in {p \in InBatch(batch) : Account(p) = a}}
                   \in SUBSET Felt
      BY <2>1 DEF Inv, ChainTypes
    <3>2. used' \in [Accounts -> SUBSET Felt]
      BY <1>2, <2>2, <3>1
    <3>3. stale' \subseteq Orders
      BY <1>2, <2>2 DEF Inv, ChainTypes
    <3>. QED  BY <1>2, <3>2, <3>3 DEF Inv, ChainTypes
  <2>3. CASE ~passes
    BY <1>2, <2>3 DEF Inv, ChainTypes
  <2>. QED  BY <2>2, <2>3
<1>7. OrderTypes'
  BY <1>2 DEF Inv, OrderTypes
<1>8. ASSUME NEW o \in Orders
      PROVE  CallerIsCoded(o)' /\ VersionIsFound(o)' /\ NonceIsFresh(o)' /\ MadeAsAsked(o)'
  <2>1. CallerIsCoded(o) /\ VersionIsFound(o) /\ NonceIsFresh(o) /\ MadeAsAsked(o)
    BY DEF Inv, OrdersInv
  <2>2. NonceIsFresh(o)'
    <3>. SUFFICES ASSUME ~HasNonce(o), pc[o] \in {"chain id", "made"},
                         nonce[o] \in used'[Account(o)], o \notin stale'
                  PROVE  FALSE
      BY <1>2 DEF NonceIsFresh
    <3>1. CASE passes
      <4>1. o \notin stale /\ nonce[o] \notin used[Account(o)]
        BY <1>2, <2>1, <3>1 DEF NonceIsFresh
      <4>2. \E p \in InBatch(batch) : Account(p) = Account(o) /\ nonce[p] = nonce[o]
        <5>1. used'[Account(o)] = used[Account(o)] \union
                {nonce[q] : q \in {p \in InBatch(batch) : Account(p) = Account(o)}}
          BY <1>2, <1>4, <3>1
        <5>. QED  BY <4>1, <5>1
      <4>. QED  BY <1>2, <3>1, <4>2
    <3>2. CASE ~passes
      BY <1>2, <2>1, <3>2 DEF NonceIsFresh
    <3>. QED  BY <3>1, <3>2
  <2>3. Execution(o)' = Execution(o)
    BY <1>2 DEF Execution
  <2>. QED  BY <1>2, <2>1, <2>2, <2>3 DEF CallerIsCoded, VersionIsFound, MadeAsAsked
<1>9. LastIsMade'
  BY <1>2, <1>3, <1>5 DEF LastIsMade
<1>10. ASSUME NEW i \in DOMAIN batch
       PROVE  LET o == batch[i] tx == made[batch[i]]
              IN /\ o \in Orders /\ pc[o] = "made"
                 /\ CallerIsCoded(o) /\ VersionIsFound(o) /\ NonceIsFresh(o)
                 /\ Reads(tx.calldata) /\ ReadExecution(tx.calldata) = Execution(o)
                 /\ tx.version = version[o] /\ tx.account = Account(o)
                 /\ tx.signed = <<Account(o), Hashed(version[o], Execution(o))>>
  <2>1. PICK o \in Orders : o = batch[i]
    BY <1>3
  <2>2. /\ CallerIsCoded(o) /\ VersionIsFound(o) /\ NonceIsFresh(o) /\ MadeAsAsked(o)
        /\ nonce[o] \in Felt /\ pc[o] = "made"
    BY <1>2, <2>1 DEF Inv, OrdersInv, OrderTypes
  <2>. QED  BY <2>1, <2>2, MadeIsRead
<1>11. ExecutedAsOrdered'
  <2>1. ASSUME passes, NEW i \in DOMAIN batch
        PROVE  LET o == batch[i] asked == Options(o)
               IN /\ ReadExecution(made[o].calldata).calls = CallsOf(o)
                  /\ Allows(asked.caller, executor) /\ asked.after < now /\ now < asked.before
    <3>1. PICK o \in Orders : o = batch[i]
      BY <1>3
    <3>2. Passes(made[o], executor, TakenBefore(batch, i))
      BY <1>1, <2>1, <3>1
    <3>3. /\ pc[o] = "made" /\ CallerIsCoded(o)
          /\ ReadExecution(made[o].calldata) = Execution(o)
      BY <1>10, <3>1
    <3>4. /\ Execution(o).caller \in {executor, ANY_CALLER}
          /\ Execution(o).after < now /\ now < Execution(o).before
      BY <3>2, <3>3 DEF Passes
    <3>5. /\ Execution(o).caller = CodedCaller(Options(o).caller) /\ Execution(o).calls = CallsOf(o)
          /\ Execution(o).after = Options(o).after /\ Execution(o).before = Options(o).before
      BY DEF Execution
    <3>. QED  BY <3>1, <3>3, <3>4, <3>5, CallerAllows
  <2>. QED  BY <1>2, <1>5, <2>1 DEF ExecutedAsOrdered
<1>12. RevertHasCause'
  <2>. SUFFICES ASSUME ~passes
                PROVE  RevertHasCause'
    BY <1>5 DEF RevertHasCause
  <2>1. PICK i \in DOMAIN batch : ~Passes(made[batch[i]], executor, TakenBefore(batch, i))
    BY <1>1
  <2>2. PICK o \in Orders : o = batch[i]
    BY <1>3
  <2>3. /\ pc[o] = "made" /\ CallerIsCoded(o) /\ VersionIsFound(o) /\ NonceIsFresh(o)
        /\ Reads(made[o].calldata) /\ ReadExecution(made[o].calldata) = Execution(o)
        /\ made[o].version = version[o] /\ made[o].account = Account(o)
        /\ made[o].signed = <<Account(o), Hashed(version[o], Execution(o))>>
    BY <1>10, <2>2
  <2>4. /\ Execution(o).caller = CodedCaller(Options(o).caller) /\ Execution(o).nonce = nonce[o]
        /\ Execution(o).after = Options(o).after /\ Execution(o).before = Options(o).before
    BY DEF Execution
  <2>5. \/ version[o] \notin supports[Account(o)]
        \/ Execution(o).caller \notin {executor, ANY_CALLER}
        \/ ~(Execution(o).after < now) \/ ~(now < Execution(o).before)
        \/ Execution(o).nonce \in TakenBefore(batch, i)
    BY <2>1, <2>2, <2>3 DEF Passes
  <2>6. \/ ~Allows(Options(o).caller, executor)
        \/ now <= Options(o).after \/ Options(o).before <= now
        \/ o \in stale \/ Account(o) \in replaced
        \/ HasNonce(o) /\ nonce[o] \in used[Account(o)]
        \/ Version(o) # NotGiven /\ Version(o) \notin supports[Account(o)]
        \/ \E j \in 1..(i - 1) : Account(batch[j]) = Account(o) /\ nonce[batch[j]] = nonce[o]
    <3>1. CASE version[o] \notin supports[Account(o)]
      BY <2>3, <3>1 DEF VersionIsFound
    <3>2. CASE Execution(o).caller \notin {executor, ANY_CALLER}
      BY <2>3, <2>4, <3>2, CallerAllows
    <3>3. CASE ~(Execution(o).after < now) \/ ~(now < Execution(o).before)
      BY <2>4, <3>3, OutsideAssumption DEF Felt, Inv, ChainTypes
    <3>4. CASE Execution(o).nonce \in TakenBefore(batch, i)
      BY <2>2, <2>3, <2>4, <3>4 DEF TakenBefore, NonceIsFresh
    <3>. QED  BY <2>5, <3>1, <3>2, <3>3, <3>4
  <2>. QED  BY <1>2, <1>5, <2>2, <2>6 DEF RevertHasCause
<1>. QED  BY <1>6, <1>7, <1>8, <1>9, <1>11, <1>12 DEF Inv, OrdersInv

------------------------------------------------------------------------------
(* The theorems.                                                            *)

\* Inv is an invariant of the specification.
LEMMA InvHolds == Spec => []Inv
<1>1. Inv /\ [Next]_vars => Inv'
  <2>. SUFFICES ASSUME Inv, [Next]_vars PROVE Inv'
    OBVIOUS
  <2>1. ASSUME NEW o \in Orders,
               \/ Begin(o) \/ getSnip9Nonce(o) \/ RequestFails(o) \/ Sign(o)
               \/ \E v \in {"1", "2"} : getSnip9Version(o, v)
        PROVE  Inv'
    BY <2>1, BeginKeeps, NonceKeeps, FailureKeeps, SignKeeps, VersionKeeps
  <2>2. ASSUME NEW e \in Executors, NEW b \in Batches, executeFromOutside(e, b) PROVE Inv'
    BY <2>2, ExecutionKeeps
  <2>3. CASE Tick
    BY <2>3, StutterKeeps DEF Tick, orderVars, Inv, ChainTypes
  <2>4. ASSUME NEW a \in Accounts, Replace(a) PROVE Inv'
    BY <2>4, ReplaceKeeps
  <2>5. CASE UNCHANGED vars
    BY <2>5, StutterKeeps DEF vars, orderVars, Inv, ChainTypes
  <2>. QED  BY <2>1, <2>2, <2>3, <2>4, <2>5 DEF Next
<1>. QED  BY <1>1, InitHolds, PTL DEF Spec

\* Of every order that executeFromOutside() carries out, the calls are those
\* that were given to getOutsideTransaction(), by the caller and in the time
\* that were: whatever the lengths of the calls and of their data are.
THEOREM ExecutedAsOrderedAlways == Spec => []ExecutedAsOrdered
BY InvHolds, PTL DEF Inv

\* What executeFromOutside() sends is reverted only for a cause that lies
\* outside the library: the calldata is read back as what was signed, always.
THEOREM RevertHasCauseAlways == Spec => []RevertHasCause
BY InvHolds, PTL DEF Inv
==============================================================================
