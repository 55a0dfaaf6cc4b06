---------------------------- MODULE DexMathCalls ----------------------------
(***************************************************************************)
(* A harness for the pure arithmetic of DexMath and LoanMath: every       *)
(* initial state is one call of get_target_amount / get_supply_amount, of  *)
(* the increment computation of do_add_liquidity, or of calculate_debit_apy*)
(* at two adjacent utilisations, with any arguments below the bounds, so   *)
(* that an invariant over the call checks the function on every bounded    *)
(* input.  The functions are pure, so a step repeats the call.             *)
(***************************************************************************)
EXTENDS DexMath, LoanMath

CONSTANTS
  MaxPricingArg,    \* bound on reserves and amounts of the pricing calls
  MaxLiquidityArg,  \* bound on pools and maxima of the add_liquidity calls
  MaxIssuance,      \* bound on the share issuance of the add_liquidity calls
  Slopes,           \* the values tried for base, slope_1 and slope_2
  MaxUtil           \* the largest utilisation tried (Accuracy = 100%)

VARIABLE call

PricingCalls ==
  [op: {"pricing"}, supplyPool: 1..MaxPricingArg, targetPool: 1..MaxPricingArg,
   amount: 1..MaxPricingArg]

LiquidityCalls ==
  [op: {"liquidity"}, pool0: 1..MaxLiquidityArg, pool1: 1..MaxLiquidityArg,
   total: 1..MaxIssuance, max0: 1..MaxLiquidityArg, max1: 1..MaxLiquidityArg]

ApyCalls ==
  [op: {"apy"}, criticalPoint: 1..(Accuracy - 1), base: Slopes, slope1: Slopes,
   slope2: Slopes, utilisation: 0..(MaxUtil - 1)]

Init == call \in PricingCalls \cup LiquidityCalls \cup ApyCalls

Next == UNCHANGED call

Spec == Init /\ [][Next]_call


(* Paying the input get_supply_amount asks for always buys at least the    *)
(* requested output: get_target_amount(rs, rt, get_supply_amount(rs, rt,  *)
(* y)) >= y, as long as that input times the fee factor fits in u128 (the *)
(* saturating_mul of get_target_amount; beyond it the two directions of   *)
(* the router disagree).  Without it swap_with_exact_target would take    *)
(* more out of a pool than the constant product allows.                    *)
SupplyCoversTarget ==
  call.op = "pricing" =>
    LET s == GetSupplyAmount(call.supplyPool, call.targetPool, call.amount)
    IN s # 0 /\ s * (FeeDenominator - FeeNumerator) <= MaxBalance =>
         GetTargetAmount(call.supplyPool, call.targetPool, s) >= call.amount

(* A larger swap never fetches less: get_target_amount is non-decreasing  *)
(* in the supply amount over the whole u128 range, including where        *)
(* supply_amount * (fee_denominator - fee_numerator) exceeds u128::MAX and *)
(* the saturating_mul caps it.                                             *)
TargetMonotoneInSupply ==
  call.op = "pricing" =>
    GetTargetAmount(call.supplyPool, call.targetPool, call.amount)
      <= GetTargetAmount(call.supplyPool, call.targetPool, call.amount + 1)

(* add_liquidity takes no more than the caller's maxima: the increments    *)
(* do_add_liquidity transfers are at most max_amount_0 and max_amount_1.   *)
IncrementWithinMax ==
  call.op = "liquidity" =>
    LET inc == LiquidityIncrement(call.pool0, call.pool1, call.total, call.max0, call.max1)
    IN inc[1] <= call.max0 /\ inc[2] <= call.max1

(* The debit APY never falls as utilisation rises, across the critical     *)
(* point too: on_finalize prices a busier pool at least as high as a       *)
(* quieter one, so borrowing more never lowers the rate.                   *)
DebitApyMonotone ==
  call.op = "apy" =>
    CalculateDebitApy(call, call.utilisation) <= CalculateDebitApy(call, call.utilisation + 1)
=============================================================================
