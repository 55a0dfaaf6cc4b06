# TLA+ models of the polka-pallet DEX, lending and incentive pallets

This directory holds TLA+ models of the Substrate pallets under `src/pallets/`,
the TLC configurations that check them, and `PROJECT.json`. `PROJECT.json` lists
the components, runs, mutants, the mapping from TLA+ definitions to source
lines, findings and hazards.

## 1. The system

| Part | Source | State | Operations |
|---|---|---|---|
| DEX trading-pair registry | `dex/src/lib.rs` 320-432 | `TradingPairStatuses` (Disabled / Preparing(params) / Enabled) | `new_trading_pair`, `enable_trading_pair`, `disable_trading_pair` (whitelisted origin) |
| DEX genesis | `dex/src/lib.rs` 145-219 | all of the above | `GenesisConfig::build` |
| DEX bootstrap | `dex/src/lib.rs` 438-552 | `PreparingPool` (escrow per pair and account), `accumulated_amount`, consumer counts | `add_liquidity` on a Preparing pair |
| DEX liquidity | `dex/src/lib.rs` 554-670 | `LiquidityPool`, `DEXShare` issuance | `add_liquidity` on an Enabled pair, `remove_liquidity` |
| DEX router / pricing | `dex/src/lib.rs` 672-888 | reads and writes `LiquidityPool` | `swap_with_exact_supply`, `swap_with_exact_target` |
| Currency ids, pairs | `model/src/lib.rs` | none | `TradingPair::new`, `from_token_currency_ids` |
| Lending asset pool | `asset_pool/src/lib.rs` 179-406 | `AssetPoolInfos` (totals, rates, APYs), `LoanInfos` (scaled deposit/debit) | `update_deposit`, `update_debit`, `on_finalize` accrual |
| Liquidation worker | `asset_pool/src/lib.rs` 418-485 | offchain `OFFCHAIN_WORKER_LOCK`, `OFFCHAIN_WORKER_DATA` cursor | `offchain_worker` |
| Incentives | `incentives/src/lib.rs` | `LoansIncentiveRewards`, orml_rewards shares | `update_loans_incentive_rewards`, `OnUpdateLoan::happened`, `accumulate_reward` |
| pb | `pb/src/lib.rs` | none | `adjust_deposit` / `adjust_debit` wrappers of the asset pool |
| Prices | `prices/src/lib.rs` | `LockedPrice` | `lock_price`, `unlock_price` (not used by any pallet) |

How the parts interact:
- Every DEX operation moves tokens between the caller and the pallet account
  through the `orml_tokens` ledger, and mints or burns `DEXShare(token0, token1)`.
- pb exposes the asset pool to signed callers. Every deposit or debit change
  calls the `OnUpdateLoan` hook, which in the node is the incentives pallet's.
  The hook sets the account's orml_rewards share.
- At the start of every block, orml_rewards calls the incentives pallet's
  `accumulate_reward`. At the end of every block, the asset pool's
  `on_finalize` accrues interest.
- After every block, an offchain worker walks `LoanInfos` under a storage lock.
- Every dispatchable is `#[transactional]`: a call that fails anywhere is rolled
  back. The models treat each call as one atomic step, and a failed call as no
  step.

## 2. Modules

- **`FixedU128`**: FixedU128 arithmetic at scale `Accuracy`, all of it floor
  rounding: `CheckedFromRational`, `MulInt` (`saturating_mul_int`), `FMul`,
  `FDiv`, `Reciprocal`. The code's scale is 10^18. The models use 100 or 1000,
  so rounding shows at small amounts.
- **`DexMath`**: `GetTargetAmount`, `GetSupplyAmount`, and `LiquidityIncrement`
  (the increment triple computed by `do_add_liquidity`). The pricing keeps the
  code's widths. `MaxBalance` stands for `u128::MAX` and `U256Max` for the
  U256 bound. `SaturatingMul` is the code's `saturating_mul` in both widths.
  A supply amount above `MaxBalance` is the code's failed `try_into`, which
  gives 0.
- **`LoanMath`**: `CalculateDebitApy` (the kinked interest curve) and `Scaled`
  (`rate.reciprocal().saturating_mul_int(amount)`).
- **`Dex`**: the DEX pallet. Variables:
  - `status`, `pool`, `escrow` model `TradingPairStatuses`, `LiquidityPool` and
    `PreparingPool`.
  - `consumers` holds the frame_system consumer references.
  - `balance` and `shares` are the orml_tokens balances.
  - `now` is the block number.

  Actions:
  - one per dispatchable outcome: `NewTradingPair`, `EnableTradingPair`,
    `DisableEnabledPair`, `DisablePreparingPair`, `AddLiquidity`,
    `DoRemoveLiquidity`, `DoSwapWithExactSupply`, `DoSwapWithExactTarget`;
  - `AddLiquidity` is the `add_liquidity` dispatch on the pair's status. It
    leads to `DoAddLiquidity` on an Enabled pair, and to `AddPreparing` (with
    the conversion as a disjunct) on a Preparing one;
  - `AdvanceBlock`.

  `Init` is the genesis build: `GenesisState(g)` runs `build()` on a
  configuration `g` taken from the constant `Genesis`. It inserts the preparing
  pairs, inserts the enabled pairs over them, then adds each initial liquidity
  entry through `do_add_liquidity`. A configuration that would make the build
  panic is excluded by an ASSUME.
- **`PairLifecycle`**: the abstract per-pair registry (spec section 4.1).
  - A pair moves Disabled → Preparing → Enabled → Disabled, plus
    Disabled → Enabled and Preparing → Disabled.
  - Shares appear only at conversion or by adding to an Enabled pair.
  - A genesis may start a pair in any state, with shares only if it is Enabled.
  - `Dex` instantiates it with `kind <- status[p].kind` and
    `hasShares <- Issuance(p) > 0`. `LifecycleRefined` is checked as a PROPERTY.
- **`Incentives`**: `IncentivesInit` (the genesis build of
  `LoansIncentiveRewards` from `IncentiveGenesis`), `OnUpdateLoan` (the saturating share update),
  `UpdateLoansIncentiveRewards`, and `AccumulateReward`. Only the share and the
  credited total of orml_rewards are kept.
- **`AssetPool`**: the asset pool composed with pb and `Incentives`. Variables:
  - `info` is `AssetPoolInfos`;
  - `loans` holds the scaled deposit and debit;
  - `balance` is the ledger;
  - `now`, plus the incentive variables.

  Actions:
  - `AdjustDeposit` and `AdjustDebit`: the whole of `update_deposit` and
    `update_debit`, including the checks, the hook and the transfer;
  - `UpdateLoansIncentiveRewards`;
  - `NewBlock`: `on_finalize` accrual of every pool, then the next block's
    `accumulate_reward`.

  Balances are bounded by `MaxBalance`, a scaled-down `u128::MAX`. A sum above
  it is the code's `checked_add` overflow error.

  `PoolParams` gives the genesis `AssetPoolInfo` of the configured pools. Any
  other currency in `LoanPools` starts as `AssetPoolInfo::default()`
  (`DefaultInfo`, all zero), exactly as the storage read does. pb accepts it
  anyway. `on_finalize` accrues only the pools in `AssetPoolIds`. `AdjustDebit`
  fails where `debit_rate` is 0, because `reciprocal().unwrap()` panics there.
- **`LiquidationWorker`**: the offchain worker. Variables:
  - the lock: none, held by a run, or forgotten until its deadline;
  - the persistent cursor;
  - each worker run's progress over a snapshot of the pool's keys;
  - the `LoanInfos` keys per pool.

  Actions: `Start`, `Scan`, `Finish`, `Expire` and `LoanChange` (an
  environment step).
- **`ScanCursor`**: the abstract cursor that the worker promises. It is a round
  robin over the pools, with each pool walked in key order.
  - The first save may be anywhere.
  - After that, the cursor moves only to a later key of the same pool, or to
    key 0 of the next pool.
  - `LiquidationWorker` instantiates it with `cursor <- toBeContinue`, and
    `CursorRefined` is checked as a PROPERTY.
- **`DexMathCalls`**: a harness whose initial states are every pricing,
  liquidity or APY call over small arguments.
- **`MCDex`, `MCDexRouting`, `MCDexStale`, `MCAssetPool`, `MCLiquidationWorker`**:
  model-checking instances. They define parameter records, routes, genesis
  configurations, pool parameters (the chain_spec values) and symmetry.

## 3. Runs

| Run | Checks | Shows |
|---|---|---|
| `dex_core` (pass, 69k states) | `TypeOK`, `Solvency`, `EscrowConsistent`, `ConsumerRefCount`, `ShareValueNonDecreasing`, `LifecycleRefined`, `BootstrapShareFair` | One pair and two accounts, all operations interleaved, from the default genesis and from one shaped like the chain_spec. The pallet account covers reserves plus escrow. Accumulated amounts equal the sum of escrows. Consumer refs are taken and released exactly once. No step lowers the value of a share. At conversion, every contributor gets at most the token-1 value of its contribution in shares, and loses less than 1 + c0/Accuracy to rounding (a lone unit of token 0 can still get 0 shares). The registry refines `PairLifecycle`. |
| `dex_routing` (pass, 32k) | `Solvency`, `ShareValueNonDecreasing` | Three pairs, every route up to `TradingPathLimit` 3, from the empty genesis and from the dex mock's seeded one. |
| `pure_math` (pass, 352k) | `SupplyCoversTarget`, `TargetMonotoneInSupply`, `DebitApyMonotone` | Reserves ≤ 20 at a 10-bit `u128`. `get_supply_amount` buys at least the requested output wherever the fee-weighted supply fits the width. `get_target_amount` never falls as supply grows, because it saturates (a wrapping multiply breaks this). For every utilisation in 0..Accuracy and a range of slopes, the debit APY never falls as utilisation rises. |
| `asset_pool_core` (pass, 1.8M) | `TypeOK`, `PoolBalanceMatchesTotals` | Deposits, withdrawals, loans, repayments, accrual and incentive updates of two accounts in any order, from the chain_spec's incentive amounts. The pallet account always holds exactly total_deposit − total_debit. |
| `liquidation_scan` (pass, 16k) | `TypeOK`, `EveryLoanScanned`, `CursorRefined` | Two pools, three keys, a budget of 2 and two workers, whose runs follow one another because the lock is held until it expires. Under fairness, every loan that stays is visited again and again. The saved cursor refines `ScanCursor`: it never moves back within a pool, and it never skips a pool. |
| `dex_partial_pool` (violation) | `NoPartialPool` | **Bug.** Conversion does `pool_1.saturating_sub(accumulated_1)` (lib.rs:469). |
| `dex_add_liquidity_max` (violation) | `IncrementWithinMax` | **Bug.** `add_liquidity` can take more than `max_amount_0`, because the branch is chosen on floor-rounded prices (lib.rs:589). |
| `dex_stale_reserves` (violation) | `ShareValueNonDecreasing` | **Latent bug.** A route crossing a pair twice in the same direction is priced on stale reserves (lib.rs:694). |
| `asset_pool_interest_solvency` (violation) | `InterestSolvency` | **Bug.** `deposit_rate` grows by `increment · reserve_factor` whatever the utilisation (asset_pool lib.rs:210-211). After one block, depositors are owed more than the pool holds plus the debt. |
| `asset_pool_free_tokens` (violation) | `NoFreeTokens` | **Bug.** A currency with no genesis params has `deposit_rate` 0. Its reciprocal defaults to 0, so no deposit is ever recorded (lib.rs:309). TLC's trace: alice deposits 1 BTC, and bob withdraws it. The same property also breaks on a configured pool: once `deposit_rate` > 1, a withdrawal of 1 floors to a scaled change of 0. |
| `asset_pool_reward_share` (violation) | `RewardShareFollowsDeposit` | **Bug.** `OnUpdateLoan` is given the old scaled amount plus a real-unit adjustment, and debit updates write the same share (lib.rs:319). |
| `asset_pool_repay_blocked` (violation) | `RepaymentAccepted` | **Bug.** A repayment the borrower owes and can afford is refused, for two reasons. First, the maximum-debit-ratio check also applies to repayments (lib.rs:368): after a withdrawal, a partial repayment is refused. This is TLC's trace. Second, `total_debit` stays in principal while `debit_rate` grows, so `checked_sub` (lib.rs:362) refuses repaying the interest. With the ratio at 1, the sequence deposit 18, borrow 18, repay 1, one block, then repay 18 is refused. |

Every property of a passing run has a mutant in `PROJECT.json`: a plausible
bug in the mapped code, which TLC must catch under the run's own configuration.

### Bounds and why they are enough

- **`MCDex`.**
  - Tokens {0,1}, accounts {alice, bob}, balance 3, amounts {0,1,2}, blocks 0..1.
  - The parameter record is asymmetric, so argument reordering shows.
  - Two accounts are the least for one contributor's call to convert another's
    escrow.
  - The chain_spec-shaped genesis lists the pair as both preparing and enabled,
    and seeds it at 1:2.
- **`MCDexRouting` / `MCDexStale`.**
  - Three tokens give two-hop routes and routes that revisit a pair.
  - The stale case needs four hops over three pairs.
- **`DexMathCalls`.**
  - Reserves and amounts up to 20.
  - `MaxBalance` 1023 (10 bits). `s · 99` (fee 1/100) saturates from a supply of 11, so
    saturated and unsaturated prices are both reached. In the Dex runs,
    `MaxBalance` is 32767: (2^16)^2 does not fit TLC's 32-bit integers.
  - Liquidity arguments up to 14: the least with an overdraw at Accuracy 100.
  - Utilisation over the whole of 0..Accuracy, with slopes 0, 0.04 and 1.
- **`MCAssetPool`.**
  - Accuracy 1000, so the chain_spec's 4% slope gives visible rate growth
    after one block (`BlockPercentEachYear` = 1, as in the asset_pool mock).
  - One pool and two accounts under symmetry, balance 2, adjustments ±1 and ±2.
  - `asset_pool_free_tokens` adds an unconfigured BTC, as the asset_pool mock
    endows it: a second pool that has no params.
  - `MaxBalance` 4 bounds the scaled totals as `u128::MAX` does: without it,
    the free-withdrawal bug makes the state space infinite.
  - The repayment scenario uses one account with balance 20 (deposit 20,
    borrow 18, withdraw 2, repay 1).
- **`MCLiquidationWorker`.**
  - Two pools make the wrap-around matter.
  - Three keys with a budget of 2 make a walk stop mid-pool.
  - Two workers let successive runs be taken by different workers once a
    forgotten lock has expired. Runs never overlap in the model (see §4).

### Fairness and liveness

- The DEX and the asset pool have no fairness. Every operation is an extrinsic,
  and nothing obliges anyone to call. Their properties are safety and
  refinement. `CHECK_DEADLOCK` stays on, and no model deadlocks.
- `LiquidationWorker` runs under these fairness conditions:
  - `WF` on starting a worker: the node starts one after every block.
  - `WF` per worker on `Scan` and `Finish`: a run in progress goes on, and
    `extend_lock` renews its deadline.
  - `WF` on `Expire`: a forgotten lock's deadline passes.
  - None on `LoanChange`: users need not call.

  `EveryLoanScanned` is checked under this fairness.

## 4. Not modelled, and why

- **Leverage extrinsics and `LeveragePool`.** TODO stubs with no state change.
- **`liquidate_unsafe_debit`.** Its call in the worker loop is commented out,
  and `is_debit_unsafe` returns `true` unconditionally. The worker's effect is
  the lock and the cursor only.
- **Prices.** No pallet and no runtime in the repository uses it. Its
  `lock_price` / `unlock_price` only copy an oracle value.
- **orml_rewards and orml_tokens internals.** `claim_rewards`, payouts and
  `inc_consumers` provider failures live outside the repository.
- **u128 width of the DEX ledger.** Pricing keeps its widths (`DexMath`).
  The `Dex` pool and ledger balances themselves are unbounded naturals, so the
  `checked_add` overflows at lib.rs:460 are not reached.
- **Runtime upgrades.** The liquidation cursor lives in persistent offchain
  storage, and an upgrade that shortens `AssetPoolIds` would make the worker
  index past the end (lib.rs:458). `AssetPoolIds` is a constant of the models.
- **A held lock expiring mid-run, with a competitor.** A second worker could
  take the expired lock, and the first worker's `extend_lock` would then
  extend the second worker's lock. Both runs would save cursors, and the later
  save could move the cursor backwards, against `CursorRefined`. It is left
  out because `extend_lock` renews the deadline on every iteration, and one
  iteration is a storage read, far shorter than `LOCK_DURATION` (100 ms).
- **Node, runtime, weights and benchmarks.** Configuration with no protocol
  state. The chain_spec genesis values are used as the models' parameters.

## 5. Plan for the next steps

1. **Two configured pools in `MCAssetPool`.** This needs a smaller per-pool space.
