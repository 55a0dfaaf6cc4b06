------------------------------ MODULE DexMath ------------------------------
(***************************************************************************)
(* The pure arithmetic of the dex pallet (src/pallets/dex/src/lib.rs):     *)
(* the constant-product pricing functions get_target_amount and            *)
(* get_supply_amount, and the increment computation of do_add_liquidity.   *)
(*                                                                         *)
(* A Balance (u128) is at most MaxBalance, a scaled-down u128::MAX, and a  *)
(* U256 intermediate at most U256Max, so that the pricing functions'       *)
(* saturating multiplications and checked conversions keep their limits.   *)
(* Prices and ratios are FixedU128 values, with the floor rounding of      *)
(* module FixedU128.                                                       *)
(***************************************************************************)
EXTENDS FixedU128

CONSTANTS
  FeeNumerator,     \* GetExchangeFee.0
  FeeDenominator,   \* GetExchangeFee.1
  MaxBalance        \* u128::MAX, scaled down (2^w - 1)

ASSUME FeeDenominator \in Nat \ {0} /\ FeeNumerator \in 0..FeeDenominator
ASSUME MaxBalance \in Nat \ {0}

(* U256::MAX for the width of MaxBalance: (u128::MAX + 1)^2 - 1.           *)
U256Max == (MaxBalance + 1) * (MaxBalance + 1) - 1

(* saturating_mul of two values of the width whose maximum is max.         *)
SaturatingMul(a, b, max) == IF a * b > max THEN max ELSE a * b

(* Mutation: supply_amount * (fee_denominator - fee_numerator) in u128 as  *)
(* a wrapping multiplication.                                              *)
GetTargetAmountWrapping(supplyPool, targetPool, supplyAmount) ==
  IF supplyAmount = 0 \/ supplyPool = 0 \/ targetPool = 0 THEN 0
  ELSE LET withFee == (supplyAmount * (FeeDenominator - FeeNumerator)) % (MaxBalance + 1)
       IN (withFee * targetPool) \div (supplyPool * FeeDenominator + withFee)

(* get_target_amount: output of one hop for a given input, fee taken from  *)
(* the input leg, floored.  The input with fee is a u128 saturating_mul;   *)
(* numerator and denominator are U256, and the quotient (below the target  *)
(* pool) always converts back to u128.                                     *)
GetTargetAmount(supplyPool, targetPool, supplyAmount) ==
  IF supplyAmount = 0 \/ supplyPool = 0 \/ targetPool = 0 THEN 0
  ELSE LET withFee == SaturatingMul(supplyAmount, FeeDenominator - FeeNumerator, MaxBalance)
           num     == SaturatingMul(withFee, targetPool, U256Max)
           den     == SaturatingMul(supplyPool, FeeDenominator, U256Max) + withFee
       IN num \div (IF den > U256Max THEN U256Max ELSE den)

(* Mutation: get_supply_amount without the final round-up.               *)
GetSupplyAmountFloor(supplyPool, targetPool, targetAmount) ==
  IF targetAmount = 0 \/ supplyPool = 0 \/ targetPool = 0 THEN 0
  ELSE LET num == SaturatingMul(SaturatingMul(supplyPool, targetAmount, U256Max),
                                FeeDenominator, U256Max)
           den == (IF targetPool > targetAmount THEN targetPool - targetAmount ELSE 0)
                    * (FeeDenominator - FeeNumerator)
           r   == IF den = 0 THEN 0 ELSE num \div den
       IN IF r > MaxBalance THEN 0 ELSE r

(* get_supply_amount: input one hop needs for a given output, rounded up  *)
(* by adding one; U256 products saturate, and a division by zero (output  *)
(* not below the target pool), an overflowing + 1 or a quotient beyond     *)
(* u128 all give zero.                                                     *)
GetSupplyAmount(supplyPool, targetPool, targetAmount) ==
  IF targetAmount = 0 \/ supplyPool = 0 \/ targetPool = 0 THEN 0
  ELSE LET num == SaturatingMul(SaturatingMul(supplyPool, targetAmount, U256Max),
                                FeeDenominator, U256Max)
           den == (IF targetPool > targetAmount THEN targetPool - targetAmount ELSE 0)
                    * (FeeDenominator - FeeNumerator)
           r   == IF den = 0 THEN 0 ELSE num \div den + 1
       IN IF r > MaxBalance THEN 0 ELSE r

(* Mutation: the share ratio of the first branch taken against pool_1.    *)
LiquidityIncrementWrongPool(pool0, pool1, total, max0, max1) ==
  IF total = 0
  THEN <<max0, max1, IF max0 >= max1 THEN max0 ELSE max1>>
  ELSE LET price01      == CheckedFromRational(pool1, pool0)
           inputPrice01 == CheckedFromRational(max1, max0)
       IN IF inputPrice01 <= price01
          THEN LET amount0 == MulInt(CheckedFromRational(pool0, pool1), max1)
               IN <<amount0, max1, MulInt(CheckedFromRational(amount0, pool1), total)>>
          ELSE LET amount1 == MulInt(price01, max0)
               IN <<max0, amount1, MulInt(CheckedFromRational(amount1, pool1), total)>>

(* The (pool_0_increment, pool_1_increment, share_increment) triple of     *)
(* do_add_liquidity for pool (pool0, pool1), share issuance total and the  *)
(* caller's maxima (max0, max1) in canonical order.                        *)
LiquidityIncrement(pool0, pool1, total, max0, max1) ==
  IF total = 0
  THEN <<max0, max1, IF max0 >= max1 THEN max0 ELSE max1>>
  ELSE LET price01      == CheckedFromRational(pool1, pool0)
           inputPrice01 == CheckedFromRational(max1, max0)
       IN IF inputPrice01 <= price01
          THEN LET amount0 == MulInt(CheckedFromRational(pool0, pool1), max1)
               IN <<amount0, max1, MulInt(CheckedFromRational(amount0, pool0), total)>>
          ELSE LET amount1 == MulInt(price01, max0)
               IN <<max0, amount1, MulInt(CheckedFromRational(amount1, pool1), total)>>

=============================================================================
