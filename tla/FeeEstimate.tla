----------------------------- MODULE FeeEstimate -----------------------------
(***************************************************************************)
(* From the node's estimate to what a transaction may spend: the margins   *)
(* of src/src/utils/stark.ts and src/src/utils/num.ts, as                  *)
(* src/src/utils/responseParser/rpc.ts applies them.                       *)
(*                                                                         *)
(* An estimate is a record [overall_fee, gas_consumed, gas_price,          *)
(* data_gas]; data_gas is FALSE for a node of RPC 0.6, which leaves the    *)
(* data gas out of its answer.                                             *)
(***************************************************************************)
EXTENDS Naturals

\* Without data gas, the fee is that of the gas.
IsEstimate(estimate) ==
  /\ estimate.overall_fee \in Nat /\ estimate.gas_consumed \in Nat
  /\ estimate.gas_price \in Nat /\ estimate.data_gas \in BOOLEAN
  /\ ~estimate.data_gas => estimate.overall_fee = estimate.gas_consumed * estimate.gas_price

IsMargin(margin) ==
  /\ margin.maxFee \in Nat /\ margin.l1BoundMaxAmount \in Nat
  /\ margin.l1BoundMaxPricePerUnit \in Nat

addPercent(number, percent) == number + ((number * percent) \div 100)

estimatedFeeToMaxFee(estimatedFee, overhead) == addPercent(estimatedFee, overhead)

Bounds(amount, price) ==
  [l1_gas |-> [max_amount |-> amount, max_price_per_unit |-> price],
   l2_gas |-> [max_amount |-> 0, max_price_per_unit |-> 0]]

\* Mutant: data gas is not counted.
OnlyGas(estimate) == estimate.gas_consumed

\* The whole fee in units of the gas price, where the answer tells of data gas; the
\* rest of the division is dropped.
Units(estimate) ==
  IF estimate.data_gas THEN estimate.overall_fee \div estimate.gas_price
  ELSE estimate.gas_consumed

\* A price of zero is no divisor.
Throws(estimate) == estimate.data_gas /\ estimate.gas_price = 0

estimateFeeToBounds(estimate, amountOverhead, priceOverhead) ==
  Bounds(addPercent(Units(estimate), amountOverhead),
         addPercent(estimate.gas_price, priceOverhead))

\* One element of the answer of starknet_estimateFee, or of a simulation.
parseFeeEstimate(estimate, margin) ==
  [suggestedMaxFee |-> estimatedFeeToMaxFee(estimate.overall_fee, margin.maxFee),
   resourceBounds |-> estimateFeeToBounds(estimate, margin.l1BoundMaxAmount,
                                          margin.l1BoundMaxPricePerUnit)]
==============================================================================
