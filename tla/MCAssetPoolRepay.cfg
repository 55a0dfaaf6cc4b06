CONSTANTS
  Accuracy = 1000
  Accounts = {alice}
  LoanPools = {dot}
  AccumulatePeriod = 1
  IncentiveUpdates = {}
  IncentiveGenesis <- MCNoIncentiveGenesis
  PoolAccount = pallet
  AssetPoolIds = {dot}
  InitialBalance = 20
  Adjustments <- MCRepayAdjustments
  PoolParams <- MCPoolParams
  BlockPercentEachYear <- MCBlockPercentEachYear
  MaxBlock = 0
  MaxBalance = 20

SPECIFICATION Spec

INVARIANT
  RepaymentAccepted
