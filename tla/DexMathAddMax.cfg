CONSTANTS
  FeeNumerator = 1
  FeeDenominator = 100
  MaxBalance = 1023
  Accuracy = 100
  MaxPricingArg = 20
  MaxLiquidityArg = 14
  MaxIssuance = 2
  Slopes = {0, 4, 100}
  MaxUtil = 100
SPECIFICATION Spec
INVARIANT
  IncrementWithinMax
