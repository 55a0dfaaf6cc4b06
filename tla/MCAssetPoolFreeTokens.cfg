CONSTANTS
  Accuracy = 1000
  Accounts = {alice, bob}
  LoanPools = {dot, btc}
  AccumulatePeriod = 1
  IncentiveUpdates <- MCIncentiveUpdates
  IncentiveGenesis <- MCNoIncentiveGenesis
  PoolAccount = pallet
  AssetPoolIds = {dot}
  InitialBalance = 2
  Adjustments <- MCAdjustments
  PoolParams <- MCPoolParams
  BlockPercentEachYear <- MCBlockPercentEachYear
  MaxBlock = 1
  MaxBalance = 4

SPECIFICATION Spec

PROPERTY
  NoFreeTokens
