----------------------------- MODULE LoanMath -----------------------------
(***************************************************************************)
(* The pure arithmetic of the lending pool (asset_pool/src/lib.rs): the    *)
(* interest curve of calculate_debit_apy and the conversion of a real      *)
(* amount into a loan's scaled units.  An InterestInfo is a record with    *)
(* the FixedU128 fields criticalPoint, base, slope1 and slope2.            *)
(***************************************************************************)
EXTENDS FixedU128

(* calculate_debit_apy with the slope_1 term of the upper branch left out  *)
CalculateDebitApyNoSlope1(interest, utilisation) ==
  IF utilisation < interest.criticalPoint
  THEN interest.base + FMul(interest.slope1, FDiv(utilisation, interest.criticalPoint))
  ELSE interest.base
         + FMul(interest.slope2, FDiv(utilisation - interest.criticalPoint,
                                      Accuracy - interest.criticalPoint))

(* calculate_debit_apy: base plus slope_1 scaled by utilisation up to the  *)
(* critical point; above it the whole of slope_1 plus slope_2 scaled by    *)
(* the utilisation beyond the critical point.                              *)
CalculateDebitApy(interest, utilisation) ==
  IF utilisation < interest.criticalPoint
  THEN interest.base + FMul(interest.slope1, FDiv(utilisation, interest.criticalPoint))
  ELSE interest.base + interest.slope1
         + FMul(interest.slope2, FDiv(utilisation - interest.criticalPoint,
                                      Accuracy - interest.criticalPoint))

(* A real amount in a loan's scaled units:                                 *)
(* rate.reciprocal().unwrap_or_default().saturating_mul_int(amount).       *)
Scaled(rate, amount) == MulInt(Reciprocal(rate), amount)

=============================================================================
