---------------------------- MODULE Incentives ----------------------------
(***************************************************************************)
(* The incentives pallet (src/pallets/incentives/src/lib.rs): the loan     *)
(* incentive amounts set by the whitelisted origin, the reward shares that *)
(* OnUpdateLoan sets in orml_rewards for every loan change, and           *)
(* accumulate_reward, which orml_rewards calls at the start of a block to *)
(* mint each period's incentive into LoansIncentivePool and credit the    *)
(* reward pool.  orml_rewards itself (the pool of a currency, its share   *)
(* and withdrawn-reward bookkeeping, claim_rewards) lies outside the       *)
(* repository: only the reward share of an account and the total rewards *)
(* credited to a pool are kept.                                            *)
(***************************************************************************)
EXTENDS Integers, SequencesExt

CONSTANTS
  Accounts,           \* signed callers (model values)
  LoanPools,          \* the currency ids that are reward pools (AssetPoolIds)
  AccumulatePeriod,   \* T::AccumulatePeriod
  IncentiveUpdates,   \* argument vectors of update_loans_incentive_rewards
  IncentiveGenesis    \* GenesisConfig loans_incentive_rewards_params: pool |-> amount

ASSUME AccumulatePeriod \in Nat \ {0}
ASSUME DOMAIN IncentiveGenesis \subseteq LoanPools

VARIABLES
  rewardShare,        \* orml_rewards share of an account in a pool
  incentiveRewards,   \* LoansIncentiveRewards
  poolRewards,        \* orml_rewards PoolInfo.total_rewards
  minted              \* IncentiveCurrencyId issued to LoansIncentivePool

incentiveVars == <<rewardShare, incentiveRewards, poolRewards, minted>>

(* genesis_build inserts every configured incentive amount; any other     *)
(* pool reads the ValueQuery default 0.                                    *)
IncentivesInit ==
  /\ rewardShare = [p \in LoanPools |-> [x \in Accounts |-> 0]]
  /\ incentiveRewards = [p \in LoanPools |->
                          IF p \in DOMAIN IncentiveGenesis THEN IncentiveGenesis[p] ELSE 0]
  /\ poolRewards = [p \in LoanPools |-> 0]
  /\ minted = 0

(* OnUpdateLoan::happened with a plain subtraction for a decrease          *)
OnUpdateLoanUnsaturated(share, who, p, adjustment, previous) ==
  LET size == IF adjustment < 0 THEN -adjustment ELSE adjustment
  IN IF size = 0 THEN share
     ELSE [share EXCEPT ![p][who] = IF adjustment > 0 THEN previous + size
                                    ELSE previous - size]

(* OnUpdateLoan::happened(who, pool, adjustment, previous_amount): the     *)
(* share becomes previous_amount moved by |adjustment| (saturating), and   *)
(* stays as it is for a zero adjustment.                                   *)
OnUpdateLoan(share, who, p, adjustment, previous) ==
  LET size == IF adjustment < 0 THEN -adjustment ELSE adjustment
      new  == IF adjustment > 0 THEN previous + size
              ELSE IF previous > size THEN previous - size ELSE 0
  IN IF size = 0 THEN share ELSE [share EXCEPT ![p][who] = new]

(* update_loans_incentive_rewards: the pairs inserted in order, so a later *)
(* amount for the same pool overwrites an earlier one.                     *)
UpdateLoansIncentiveRewards(updates) ==
  /\ incentiveRewards' =
       FoldLeft(LAMBDA m, u : [m EXCEPT ![u[1]] = u[2]], incentiveRewards, updates)
  /\ UNCHANGED <<rewardShare, poolRewards, minted>>

(* accumulate_reward(now): every AccumulatePeriod blocks, each pool with   *)
(* shares and a non-zero incentive gets it minted and credited.            *)
AccumulateReward(now) ==
  LET paid == {p \in LoanPools : SumFunction(rewardShare[p]) # 0 /\ incentiveRewards[p] # 0}
  IN IF now % AccumulatePeriod = 0
     THEN /\ poolRewards' = [p \in LoanPools |->
                               IF p \in paid THEN poolRewards[p] + incentiveRewards[p]
                               ELSE poolRewards[p]]
          /\ minted' = minted + SumFunction([p \in paid |-> incentiveRewards[p]])
     ELSE UNCHANGED <<poolRewards, minted>>

=============================================================================
