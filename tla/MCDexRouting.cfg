CONSTANTS
  FeeNumerator = 1
  FeeDenominator = 100
  MaxBalance = 32767
  Accuracy = 100
  Tokens = {0, 1, 2}
  Accounts = {alice}
  DexAccount = dex
  TradingPathLimit = 3
  InitialBalance = 4
  Amounts = {1, 2, 3}
  PairParams <- MCRoutingPairParams
  Paths <- MCRoutingPaths
  PriceImpactLimits <- MCRoutingPriceImpactLimits
  Genesis <- MCRoutingGenesis
  MaxBlock = 0

SPECIFICATION Spec

INVARIANTS
  Solvency

PROPERTIES
  ShareValueNonDecreasing
