CONSTANTS
  FeeNumerator = 1
  FeeDenominator = 100
  MaxBalance = 32767
  Accuracy = 100
  Tokens = {0, 1}
  Accounts = {alice, bob}
  DexAccount = dex
  TradingPathLimit = 3
  InitialBalance = 3
  Amounts = {0, 1, 2}
  PairParams <- MCPairParams
  Paths <- MCPaths
  PriceImpactLimits <- MCPriceImpactLimits
  Genesis <- MCGenesis
  MaxBlock = 1

SPECIFICATION Spec

INVARIANT
  NoPartialPool
