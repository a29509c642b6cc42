-------------------------- MODULE TransactionHash --------------------------
(***************************************************************************)
(* What is hashed of a transaction: src/src/utils/hash/transactionHash.    *)
(* The two hash functions stand for themselves: a hash is the tagged tuple *)
(* of what was hashed, so that two hashes are equal exactly if their       *)
(* inputs are.  A felt is a tagged tuple too, a number N(n).               *)
(*                                                                         *)
(* A transaction is a record with the fields of all kinds and versions:    *)
(*   kind ("invoke", "declare", "deploy"), version, sender, chain, nonce,  *)
(*   maxFee, tip, l1, l2, paymaster, deployData, nonceDAM, feeDAM,         *)
(*   calls, cairo, classHash, compiledClassHash, salt, ctor.               *)
(* The sender of a deployment is the address of the new account.           *)
(***************************************************************************)
EXTENDS Naturals, Sequences, SequencesExt

CONSTANTS
  DAMLimit,    \* 2^32: data availability modes are below
  AmountLimit, \* 2^64: amounts of gas are below
  PriceLimit   \* 2^128: prices of a unit are below

ASSUME HashAssumption ==
  /\ DAMLimit \in Nat \ {0} /\ AmountLimit \in Nat \ {0} /\ PriceLimit \in Nat \ {0}

N(n) == <<"n", n>>
Pedersen(data) == <<"pedersen", data>>
Poseidon(data) == <<"poseidon", data>>

\* Versions: a transaction's, or the same for a fee estimate.
V(n) == <<"tx", n>>
F(n) == <<"fee", n>>
ETransactionVersion2 == {V(n) : n \in 0 .. 2} \union {F(n) : n \in 0 .. 2}
ETransactionVersion3 == {V(3), F(3)}

------------------------------------------------------------------------------
(* The calldata of __execute__: its layout for Cairo 0 is in ContractCall.  *)

fromCallsToExecuteCalldata(calls) == <<<<"cairo0", calls>>>>

fromCallsToExecuteCalldata_cairo1(calls) ==
  <<N(Len(calls))>> \o FlattenSeq([i \in DOMAIN calls |->
     <<calls[i].to, calls[i].selector, N(Len(calls[i].args))>> \o calls[i].args])

getExecuteCalldata(calls, cairo) ==
  IF cairo = 1 THEN fromCallsToExecuteCalldata_cairo1(calls)
  ELSE fromCallsToExecuteCalldata(calls)

------------------------------------------------------------------------------
(* Versions 0 to 2: v2.ts.                                                  *)

CommonV2(prefix, tx, calldata, additional) ==
  Pedersen(<<<<prefix>>, tx.version, tx.sender, N(0), Pedersen(calldata), tx.maxFee, tx.chain>>
             \o additional)

NoHash == <<"none">>

\* Mutant: the hash of the compiled class is left out.
DeclareWithoutCompiled(tx) == CommonV2("declare", tx, <<tx.classHash>>, <<tx.nonce>>)

DeclareV2(tx) ==
  CommonV2("declare", tx, <<tx.classHash>>,
           <<tx.nonce>> \o (IF tx.compiledClassHash = NoHash THEN <<>>
                            ELSE <<tx.compiledClassHash>>))

DeployV2(tx) ==
  CommonV2("deploy_account", tx, <<tx.classHash, tx.salt>> \o tx.ctor, <<tx.nonce>>)

InvokeV2(tx) ==
  CommonV2("invoke", tx, getExecuteCalldata(tx.calls, tx.cairo), <<tx.nonce>>)

------------------------------------------------------------------------------
(* Version 3: v3.ts.  A bound is a record [amount, price].                  *)

\* A mode of EDataAvailabilityMode is L1 or L2; any other throws.
intDAM(mode) == IF mode = "L1" THEN 0 ELSE 1

hashDAMode(nonceMode, feeMode) == N(nonceMode * DAMLimit + feeMode)

encodeResourceBounds(name, bound) ==
  <<name, bound.amount * PriceLimit + bound.price>>

hashFeeField(tip, l1, l2) ==
  Poseidon(<<tip, encodeResourceBounds("L1_GAS", l1), encodeResourceBounds("L2_GAS", l2)>>)

CommonV3(prefix, tx, additional) ==
  Poseidon(<<<<prefix>>, tx.version, tx.sender, hashFeeField(tx.tip, tx.l1, tx.l2),
             Poseidon(tx.paymaster), tx.chain, tx.nonce,
             hashDAMode(intDAM(tx.nonceDAM), intDAM(tx.feeDAM))>> \o additional)

DeployV3(tx) == CommonV3("deploy_account", tx, <<Poseidon(tx.ctor), tx.classHash, tx.salt>>)

DeclareV3(tx) ==
  CommonV3("declare", tx, <<Poseidon(tx.deployData), tx.classHash, tx.compiledClassHash>>)

InvokeV3(tx) ==
  CommonV3("invoke", tx,
           <<Poseidon(tx.deployData), Poseidon(getExecuteCalldata(tx.calls, tx.cairo))>>)

------------------------------------------------------------------------------
(* The choice by version: index.ts.                                         *)

calculateInvokeTransactionHash(tx) ==
  IF tx.version \in ETransactionVersion3 THEN InvokeV3(tx) ELSE InvokeV2(tx)

calculateDeclareTransactionHash(tx) ==
  IF tx.version \in ETransactionVersion3 THEN DeclareV3(tx) ELSE DeclareV2(tx)

calculateDeployAccountTransactionHash(tx) ==
  IF tx.version \in ETransactionVersion3 THEN DeployV3(tx) ELSE DeployV2(tx)

------------------------------------------------------------------------------
(* The hash a node, or the device, computes of the transaction it is given: *)
(* the definition of the network, not of this repository.                   *)

ProtocolHash(tx) ==
  LET calldata == getExecuteCalldata(tx.calls, tx.cairo)
      prefix == IF tx.kind = "deploy" THEN <<"deploy_account">> ELSE <<tx.kind>>
      fee == Poseidon(<<tx.tip, encodeResourceBounds("L1_GAS", tx.l1),
                        encodeResourceBounds("L2_GAS", tx.l2)>>)
      modes == N(intDAM(tx.nonceDAM) * DAMLimit + intDAM(tx.feeDAM))
      compiled == IF tx.version[2] < 2 THEN <<>> ELSE <<tx.compiledClassHash>>
  IN IF tx.version[2] = 3
     THEN Poseidon(<<prefix, tx.version, tx.sender, fee, Poseidon(tx.paymaster),
                     tx.chain, tx.nonce, modes>> \o
            CASE tx.kind = "invoke" -> <<Poseidon(tx.deployData), Poseidon(calldata)>>
              [] tx.kind = "declare" ->
                   <<Poseidon(tx.deployData), tx.classHash, tx.compiledClassHash>>
              [] OTHER -> <<Poseidon(tx.ctor), tx.classHash, tx.salt>>)
     ELSE Pedersen(<<prefix, tx.version, tx.sender, N(0)>> \o
            CASE tx.kind = "invoke" ->
                   <<Pedersen(calldata), tx.maxFee, tx.chain, tx.nonce>>
              [] tx.kind = "declare" ->
                   <<Pedersen(<<tx.classHash>>), tx.maxFee, tx.chain, tx.nonce>> \o compiled
              [] OTHER ->
                   <<Pedersen(<<tx.classHash, tx.salt>> \o tx.ctor), tx.maxFee, tx.chain,
                     tx.nonce>>)
=============================================================================
