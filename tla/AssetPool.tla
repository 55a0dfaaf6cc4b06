---------------------------- MODULE AssetPool ----------------------------
(***************************************************************************)
(* The lending pallet (src/pallets/asset_pool/src/lib.rs) with the pb      *)
(* extrinsics that expose it (src/pallets/pb/src/lib.rs), composed as in a *)
(* runtime whose OnUpdateLoan is the incentives pallet's hook.             *)
(*                                                                         *)
(* A loan keeps its deposit and debit scaled down by the pool's            *)
(* deposit_rate and debit_rate ("real deposit: deposit * deposit_rate");   *)
(* the pool totals are in real units and the rates grow in on_finalize.    *)
(* Every call is #[transactional]: a failing check or transfer is no step. *)
(***************************************************************************)
EXTENDS LoanMath, Incentives

CONSTANTS
  PoolAccount,           \* the pallet's ModuleId account
  AssetPoolIds,          \* T::AssetPoolIds: the pools on_finalize accrues
  InitialBalance,        \* free balance of each pool currency per account
  Adjustments,           \* the non-zero Amount (i128) arguments a caller may pass
  PoolParams,            \* GenesisConfig asset_pool_params: pool |-> AssetPoolInfo
  BlockPercentEachYear,  \* T::BlockPercentEachYear (FixedU128)
  MaxBlock,              \* bound on the block number
  MaxBalance             \* u128::MAX, scaled down: checked_add fails above it

(* An AssetPoolInfo is a record of the balances totalDeposit, totalDebit  *)
(* and the FixedU128 fields maximumTotalDebitRatio, reserveFactor,         *)
(* depositRate, debitRate, depositApy, debitApy, with the InterestInfo     *)
(* fields criticalPoint, base, slope1, slope2 flattened into it.  A caller *)
(* may name any currency of LoanPools, configured at genesis or not.       *)
ASSUME /\ DOMAIN PoolParams \subseteq LoanPools
       /\ AssetPoolIds \subseteq LoanPools
       /\ \A p \in DOMAIN PoolParams : PoolParams[p].criticalPoint \in 1..(Accuracy - 1)
ASSUME 0 \notin Adjustments /\ PoolAccount \notin Accounts

VARIABLES
  info,      \* AssetPoolInfos: totals, rates and APYs per pool
  loans,     \* LoanInfos: scaled deposit and debit per pool and account
  balance,   \* orml_tokens free balance of each pool currency
  now        \* block number

vars == <<info, loans, balance, now, rewardShare, incentiveRewards, poolRewards, minted>>

Holders == Accounts \cup {PoolAccount}

Abs(a) == IF a < 0 THEN -a ELSE a

(* checked_add / checked_sub saturating at 0 and u128::MAX instead         *)
SaturatingAdjust(old, amt, adj) ==
  IF adj > 0 THEN IF old + amt > MaxBalance THEN MaxBalance ELSE old + amt
             ELSE IF old < amt THEN 0 ELSE old - amt

(* old.checked_add(amt) for a positive adjustment, old.checked_sub(amt)    *)
(* for a negative one; a result outside 0..MaxBalance is the error.        *)
CheckedAdjust(old, amt, adj) == IF adj > 0 THEN old + amt ELSE old - amt

(* AssetPoolInfo::default(): what the ValueQuery getter returns for a      *)
(* currency without genesis parameters, rates and ratios all zero.         *)
DefaultInfo ==
  [f \in {"totalDeposit", "totalDebit", "maximumTotalDebitRatio", "reserveFactor",
          "depositRate", "debitRate", "depositApy", "debitApy",
          "criticalPoint", "base", "slope1", "slope2"} |-> 0]

(* GenesisConfig::build inserts each configured AssetPoolInfo as given.    *)
Init ==
  /\ info = [p \in LoanPools |->
              IF p \in DOMAIN PoolParams THEN PoolParams[p] ELSE DefaultInfo]
  /\ loans = [p \in LoanPools |-> [x \in Accounts |-> [deposit |-> 0, debit |-> 0]]]
  /\ balance = [h \in Holders |-> [p \in LoanPools |->
                 IF h = PoolAccount THEN 0 ELSE InitialBalance]]
  /\ now = 0
  /\ IncentivesInit

(* A transfer of amt of currency p (orml_tokens::transfer).                *)
Transfer(bal, p, from, to, amt) ==
  [bal EXCEPT ![from][p] = @ - amt, ![to][p] = @ + amt]

-----------------------------------------------------------------------------
(* update_deposit (pb::adjust_deposit): _update_deposit, then the transfer *)
(* in (adjustment > 0) or out (adjustment < 0).                            *)
UpdateDeposit(who, p, adj) ==
  LET amt    == Abs(adj)
      i      == info[p]
      l      == loans[p][who]
      total  == CheckedAdjust(i.totalDeposit, amt, adj)
      delta  == Scaled(i.depositRate, amt)
      newDep == CheckedAdjust(l.deposit, delta, adj)
      from   == IF adj > 0 THEN who ELSE PoolAccount
      to     == IF adj > 0 THEN PoolAccount ELSE who
  IN
  /\ total \in 0..MaxBalance                       \* DepositTooLow / DepositOverflow
  /\ newDep \in 0..MaxBalance                      \* DepositTooLow / DepositOverflow
  /\ balance[from][p] >= amt
  /\ info' = [info EXCEPT ![p].totalDeposit = total]
  /\ loans' = [loans EXCEPT ![p][who].deposit = newDep]
  /\ rewardShare' = OnUpdateLoan(rewardShare, who, p, adj, l.deposit)
  /\ balance' = Transfer(balance, p, from, to, amt)
  /\ UNCHANGED <<now, incentiveRewards, poolRewards, minted>>

(* update_debit (pb::adjust_debit): _update_debit with the pool-wide debit *)
(* ratio check, then the loan paid out (> 0) or repaid (< 0).              *)
UpdateDebit(who, p, adj) ==
  LET amt      == Abs(adj)
      i        == info[p]
      l        == loans[p][who]
      total    == CheckedAdjust(i.totalDebit, amt, adj)
      delta    == Scaled(i.debitRate, amt)
      newDebit == CheckedAdjust(l.debit, delta, adj)
      from     == IF adj > 0 THEN PoolAccount ELSE who
      to       == IF adj > 0 THEN who ELSE PoolAccount
  IN
  /\ i.totalDeposit # 0                                                   \* DepositNotEnough
  /\ total \in 0..MaxBalance                                               \* DebitTooLow / DebitOverflow
  /\ CheckedFromRational(total, i.totalDeposit) <= i.maximumTotalDebitRatio
  /\ i.debitRate # 0                                                      \* reciprocal().unwrap() panics
  /\ newDebit \in 0..MaxBalance                                            \* DebitTooLow / DebitOverflow
  /\ balance[from][p] >= amt
  /\ info' = [info EXCEPT ![p].totalDebit = total]
  /\ loans' = [loans EXCEPT ![p][who].debit = newDebit]
  /\ rewardShare' = OnUpdateLoan(rewardShare, who, p, adj, l.debit)
  /\ balance' = Transfer(balance, p, from, to, amt)
  /\ UNCHANGED <<now, incentiveRewards, poolRewards, minted>>

-----------------------------------------------------------------------------
(* The on_finalize update of one pool with both totals non-zero.           *)
Accrue(i) ==
  LET utilisation == CheckedFromRational(i.totalDebit, i.totalDeposit)
      debitApy    == CalculateDebitApy(i, utilisation)
      increment   == FMul(BlockPercentEachYear, debitApy)
  IN [i EXCEPT !.debitApy    = debitApy,
               !.depositApy  = FMul(FMul(debitApy, i.reserveFactor), utilisation),
               !.debitRate   = @ + increment,
               !.depositRate = @ + FMul(increment, i.reserveFactor)]

(* The end of a block and the start of the next: the asset pool's          *)
(* on_finalize accrues interest in every pool of AssetPoolIds with         *)
(* deposits and debits;                                                    *)
(* orml_rewards' on_initialize then runs accumulate_reward for the new     *)
(* block.  No extrinsic runs in between.                                   *)
NewBlock ==
  /\ now < MaxBlock
  /\ info' = [p \in LoanPools |->
               IF p \notin AssetPoolIds \/ info[p].totalDebit = 0 \/ info[p].totalDeposit = 0
               THEN info[p] ELSE Accrue(info[p])]
  /\ now' = now + 1
  /\ AccumulateReward(now + 1)
  /\ UNCHANGED <<loans, balance, rewardShare, incentiveRewards>>

(* pb::adjust_deposit and pb::adjust_debit: a signed caller's call of      *)
(* update_deposit / update_debit, rolled back with it.                     *)
AdjustDeposit(who, p, adj) == UpdateDeposit(who, p, adj)

AdjustDebit(who, p, adj) == UpdateDebit(who, p, adj)

Next ==
  \/ \E who \in Accounts, p \in LoanPools, adj \in Adjustments :
       \/ AdjustDeposit(who, p, adj)
       \/ AdjustDebit(who, p, adj)
  \/ \E u \in IncentiveUpdates :
       /\ UpdateLoansIncentiveRewards(u)
       /\ UNCHANGED <<info, loans, balance, now>>
  \/ NewBlock

Spec == Init /\ [][Next]_vars

-----------------------------------------------------------------------------
(* Properties.                                                             *)

TypeOK ==
  /\ \A p \in LoanPools :
       /\ info[p] \in [DOMAIN DefaultInfo -> Nat]
       /\ loans[p] \in [Accounts -> [deposit : Nat, debit : Nat]]
  /\ balance \in [Holders -> [LoanPools -> Nat]]
  /\ rewardShare \in [LoanPools -> [Accounts -> Nat]]
  /\ now \in 0..MaxBlock

(* The pallet account holds exactly the deposits not lent out: every       *)
(* deposit, withdrawal, loan and repayment moves the same real amount in   *)
(* the ledger and in total_deposit / total_debit, and a failed check or    *)
(* transfer reverts both (update_deposit, update_debit).                   *)
PoolBalanceMatchesTotals ==
  \A p \in LoanPools : balance[PoolAccount][p] + info[p].totalDebit = info[p].totalDeposit

(* Depositors can be paid: what the loans say depositors own (scaled       *)
(* deposit * deposit_rate) never exceeds the tokens in the pallet account  *)
(* plus what borrowers owe (scaled debit * debit_rate), all at Accuracy.   *)
InterestSolvency ==
  \A p \in LoanPools :
    SumFunction([x \in Accounts |-> loans[p][x].deposit]) * info[p].depositRate
      <= balance[PoolAccount][p] * Accuracy
         + SumFunction([x \in Accounts |-> loans[p][x].debit]) * info[p].debitRate

(* No account receives pool tokens for nothing: whenever a step pays an    *)
(* account from the pool, its recorded deposit falls or its recorded debit *)
(* grows (update_deposit withdrawal, update_debit borrow).                 *)
NoFreeTokens ==
  [][\A p \in LoanPools, x \in Accounts :
       balance'[x][p] > balance[x][p] =>
         \/ loans'[p][x].deposit < loans[p][x].deposit
         \/ loans'[p][x].debit > loans[p][x].debit]_vars

(* OnUpdateLoan keeps the reward share equal to the loan balance it was    *)
(* told about: after a change of an account's deposit, its share in the    *)
(* pool's rewards is its new recorded deposit.                             *)
RewardShareFollowsDeposit ==
  [][\A p \in LoanPools, x \in Accounts :
       loans'[p][x].deposit # loans[p][x].deposit =>
         rewardShare'[p][x] = loans'[p][x].deposit]_vars

(* A borrower can always pay its debt back: a repayment the borrower can   *)
(* afford and whose scaled amount does not exceed its recorded debit is    *)
(* accepted by update_debit.  Two things in _update_debit refuse such a    *)
(* repayment: the maximum-total-debit-ratio check applies to repayments    *)
(* too, and total_debit is kept in principal while the debts grow with     *)
(* debit_rate, so the interest is larger than what checked_sub allows.     *)
RepaymentAccepted ==
  \A p \in LoanPools, x \in Accounts, adj \in Adjustments :
    /\ adj < 0
    /\ balance[x][p] >= -adj
    /\ Scaled(info[p].debitRate, -adj) <= loans[p][x].debit
    => ENABLED UpdateDebit(x, p, adj)

=============================================================================
