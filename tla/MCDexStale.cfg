CONSTANTS
  FeeNumerator = 1
  FeeDenominator = 100
  MaxBalance = 32767
  Accuracy = 100
  Tokens = {0, 1, 2}
  Accounts = {alice}
  DexAccount = dex
  TradingPathLimit = 5
  InitialBalance = 6
  Amounts = {1, 2, 3}
  PairParams <- MCStalePairParams
  Paths <- MCStalePaths
  PriceImpactLimits <- MCStalePriceImpactLimits
  Genesis <- MCStaleGenesis
  MaxBlock = 0

SPECIFICATION Spec

PROPERTIES
  ShareValueNonDecreasing
