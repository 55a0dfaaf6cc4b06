---------------------------- MODULE MCAssetPool ----------------------------
(***************************************************************************)
(* Model-checking instance of AssetPool with the asset_pool mock's DOT     *)
(* pool: maximum debit ratio, reserve factor and critical point 0.9, base  *)
(* 0, slopes 0.04 and 1, genesis rates 1 and BlockPercentEachYear 1.       *)
(***************************************************************************)
EXTENDS AssetPool, TLC

Ratio(n, d) == (n * Accuracy) \div d

(* The mock's asset_pool_params: the pools of AssetPoolIds configured.    *)
MCPoolParams == [p \in AssetPoolIds |->
  [totalDeposit |-> 0, totalDebit |-> 0,
   maximumTotalDebitRatio |-> Ratio(90, 100), reserveFactor |-> Ratio(90, 100),
   depositRate |-> Ratio(1, 1), debitRate |-> Ratio(1, 1),
   depositApy |-> 0, debitApy |-> 0,
   criticalPoint |-> Ratio(90, 100), base |-> 0,
   slope1 |-> Ratio(4, 100), slope2 |-> Ratio(1, 1)]]

MCBlockPercentEachYear == Ratio(1, 1)

(* Deposits, withdrawals, loans and repayments of 1, 5 and 10. *)
MCAdjustments == {2, -2, 1, -1}

(* update_loans_incentive_rewards calls: two amounts for the same pool,    *)
(* of which the later is the one kept.                                     *)
MCIncentiveUpdates == {<< <<p, 1>>, <<p, 2>> >> : p \in LoanPools}

(* One account that deposits 20, borrows 18 (the maximum ratio 0.9),       *)
(* withdraws the 2 left in the pool and then repays 1 or 2.                *)
MCRepayAdjustments == {20, 18, -2, -1}

(* The node chain_spec's loans_incentive_rewards_params: 10^10 for every  *)
(* pool, here one unit of the incentive currency.                          *)
MCIncentiveGenesis == [p \in LoanPools |-> 1]

(* The mocks' default GenesisConfig: no incentive amounts.                 *)
MCNoIncentiveGenesis == [p \in {} |-> 0]

(* Accounts are interchangeable: nothing in the pallet compares them.      *)
AccountSymmetry == Permutations(Accounts)

=============================================================================
