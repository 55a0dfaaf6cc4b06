-------------------------------- MODULE Dex --------------------------------
(***************************************************************************)
(* The dex pallet (src/pallets/dex/src/lib.rs) together with the part of   *)
(* the orml_tokens ledger it drives.  Every dispatchable is #[transactional]*)
(* and runs to completion inside one block, so each is one atomic action;  *)
(* a call that returns an error leaves the state untouched and is a        *)
(* stuttering step, so only the successful outcomes are actions here.      *)
(*                                                                         *)
(* State, one variable per storage item of the pallet and of the ledger:   *)
(*   status[p]    TradingPairStatuses  (record with a kind tag)            *)
(*   pool[p]      LiquidityPool        <<reserve_0, reserve_1>>            *)
(*   escrow[p]    PreparingPool prefix p: a function from the accounts     *)
(*                that have an entry to their <<amount_0, amount_1>>       *)
(*   consumers[a] frame_system consumer reference count of account a      *)
(*   balance[h][t] orml_tokens free balance of token t for holder h        *)
(*   shares[p][a]  orml_tokens balance of DEXShare(p) for account a        *)
(*   now          frame_system block number                                *)
(***************************************************************************)
EXTENDS DexMath, Integers, FiniteSets, SequencesExt

CONSTANTS
  Tokens,            \* the u8 symbols of CurrencyId::Token, ordered as in the code
  Accounts,          \* signed callers (model values)
  DexAccount,        \* the pallet's ModuleId account (a model value)
  TradingPathLimit,  \* T::TradingPathLimit
  InitialBalance,    \* free balance of every token each account starts with
  Amounts,           \* amounts a caller may pass (contributions, maxima, shares)
  PairParams,        \* argument records new_trading_pair may be called with
  Paths,             \* routes a swap may be called with
  PriceImpactLimits, \* Ratio arguments of the swaps (at Accuracy)
  MaxBlock,          \* bound on the block number
  Genesis            \* GenesisConfig values the chain may be built from

ASSUME Tokens \subseteq Nat /\ DexAccount \notin Accounts
ASSUME TradingPathLimit \in Nat /\ MaxBlock \in Nat /\ InitialBalance \in Nat
(* A GenesisConfig: preparing is a sequence of records [pair, min, target, *)
(* notBefore], enabled a sequence of pairs, liquidity a sequence of        *)
(* <<who, <<<<pair, <<amount_0, amount_1>>>>, ...>>>>.                     *)
ASSUME \A g \in Genesis : DOMAIN g = {"preparing", "enabled", "liquidity"}
ASSUME \A r \in PairParams :
         DOMAIN r = {"minA", "minB", "targetA", "targetB", "notBefore"}

VARIABLES status, pool, escrow, consumers, balance, shares, now

vars == <<status, pool, escrow, consumers, balance, shares, now>>

Holders == Accounts \cup {DexAccount}

(* TradingPair: two distinct tokens, smaller symbol first.                 *)
Pairs == {pr \in Tokens \X Tokens : pr[1] < pr[2]}

(* TradingPair::new(a, b): order the two ids, equal ones included.         *)
PairOf(a, b) == IF a > b THEN <<b, a>> ELSE <<a, b>>

(* Arguments (x for a, y for b) put into the pair's canonical order.       *)
Ordered(p, a, x, y) == IF a = p[1] THEN <<x, y>> ELSE <<y, x>>

(* TradingPairStatus; Enabled and Disabled carry no parameters.            *)
Status(kind, min, target, acc, notBefore) ==
  [kind |-> kind, min |-> min, target |-> target, acc |-> acc, notBefore |-> notBefore]
Disabled == Status("Disabled", <<0, 0>>, <<0, 0>>, <<0, 0>>, 0)
Enabled  == Status("Enabled", <<0, 0>>, <<0, 0>>, <<0, 0>>, 0)

(* The status read through the ValueQuery getter: Disabled by default, and *)
(* for the key TradingPair::new(a, a) too, which is never a stored pair.   *)
StatusOf(p) == IF p \in Pairs THEN status[p] ELSE Disabled

NoEscrow == [x \in {} |-> <<0, 0>>]

(* total_issuance of DEXShare(p).                                          *)
Issuance(p) == SumFunction(shares[p])

(* Both legs of a pair moved between an account and the pallet account.    *)
ToDex(bal, who, p, amt) ==
  [bal EXCEPT ![who][p[1]] = @ - amt[1], ![who][p[2]] = @ - amt[2],
              ![DexAccount][p[1]] = @ + amt[1], ![DexAccount][p[2]] = @ + amt[2]]
FromDex(bal, who, p, amt) ==
  [bal EXCEPT ![DexAccount][p[1]] = @ - amt[1], ![DexAccount][p[2]] = @ - amt[2],
              ![who][p[1]] = @ + amt[1], ![who][p[2]] = @ + amt[2]]
CanPay(bal, from, p, amt) == bal[from][p[1]] >= amt[1] /\ bal[from][p[2]] >= amt[2]

(* frame_system dec_consumers: never below zero.                           *)
DecConsumers(n) == IF n > 0 THEN n - 1 ELSE 0

(* GenesisConfig::default(): nothing configured.                          *)
DefaultGenesis == [preparing |-> <<>>, enabled |-> <<>>, liquidity |-> <<>>]

(* Storage before the genesis build: every getter at its default.         *)
EmptyState ==
  [ok        |-> TRUE,
   status    |-> [p \in Pairs |-> Disabled],
   pool      |-> [p \in Pairs |-> <<0, 0>>],
   balance   |-> [h \in Holders |-> [t \in Tokens |->
                   IF h = DexAccount THEN 0 ELSE InitialBalance]],
   shares    |-> [p \in Pairs |-> [a \in Accounts |-> 0]]]

(* GenesisConfig::build, first two loops: the preparing pairs are inserted *)
(* with their parameters, then the enabled pairs are inserted over them.   *)
GenesisStatus(g, st) ==
  LET preparing ==
        FoldLeft(LAMBDA s, e : [s EXCEPT ![e.pair] =
                   Status("Preparing", e.min, e.target, <<0, 0>>, e.notBefore)],
                 st, g.preparing)
  IN FoldLeft(LAMBDA s, p : [s EXCEPT ![p] = Enabled], preparing, g.enabled)

(* One initial_liquidity_pools entry: do_add_liquidity(who, pair.0, pair.1,*)
(* amounts, false) on an Enabled pair, else DisabledTradingPair; an error  *)
(* fails the build's assert (ok = FALSE).                                  *)
GenesisAddLiquidity(st, who, p, amt) ==
  LET inc == LiquidityIncrement(st.pool[p][1], st.pool[p][2],
                                SumFunction(st.shares[p]), amt[1], amt[2])
  IN IF /\ st.ok
        /\ st.status[p].kind = "Enabled"
        /\ inc[1] # 0 /\ inc[2] # 0 /\ inc[3] # 0
        /\ CanPay(st.balance, who, p, inc)
     THEN [st EXCEPT !.balance = ToDex(@, who, p, inc),
                     !.shares[p][who] = @ + inc[3],
                     !.pool[p] = <<@[1] + inc[1], @[2] + inc[2]>>]
     ELSE [st EXCEPT !.ok = FALSE]

(* GenesisConfig::build: the statuses, then every liquidity entry of every *)
(* account in order.                                                       *)
GenesisState(g) ==
  LET st0 == [EmptyState EXCEPT !.status = GenesisStatus(g, @)]
      Deposits(st, entry) ==
        FoldLeft(LAMBDA s, d : GenesisAddLiquidity(s, entry[1], d[1], d[2]), st, entry[2])
  IN FoldLeft(Deposits, st0, g.liquidity)

(* The build panics on an invalid pair or a failed deposit: every modelled *)
(* configuration is one the chain can start from.                          *)
ASSUME \A g \in Genesis :
         /\ \A e \in Range(g.preparing) : e.pair \in Pairs
         /\ Range(g.enabled) \subseteq Pairs
         /\ \A l \in Range(g.liquidity) : \A d \in Range(l[2]) : d[1] \in Pairs

Init ==
  \E g \in Genesis :
    LET st == GenesisState(g) IN
    /\ st.ok
    /\ status    = st.status
    /\ pool      = st.pool
    /\ escrow    = [p \in Pairs |-> NoEscrow]
    /\ consumers = [a \in Accounts |-> 0]
    /\ balance   = st.balance
    /\ shares    = st.shares
    /\ now       = 0

-----------------------------------------------------------------------------
(* Registry: new_trading_pair, enable_trading_pair, disable_trading_pair.  *)

(* Mutation: new_trading_pair without its zero-issuance check.          *)
NewTradingPairIgnoringIssuance(a, b, prm) ==
  LET p == PairOf(a, b) IN
  /\ a # b
  /\ status[p].kind = "Disabled"
  /\ status' = [status EXCEPT ![p] =
       Status("Preparing", Ordered(p, a, prm.minA, prm.minB),
              Ordered(p, a, prm.targetA, prm.targetB), <<0, 0>>, prm.notBefore)]
  /\ UNCHANGED <<pool, escrow, consumers, balance, shares, now>>

NewTradingPair(a, b, prm) ==
  LET p == PairOf(a, b) IN
  /\ a # b
  /\ status[p].kind = "Disabled"
  /\ Issuance(p) = 0
  /\ status' = [status EXCEPT ![p] =
       Status("Preparing", Ordered(p, a, prm.minA, prm.minB),
              Ordered(p, a, prm.targetA, prm.targetB), <<0, 0>>, prm.notBefore)]
  /\ UNCHANGED <<pool, escrow, consumers, balance, shares, now>>

EnableTradingPair(a, b) ==
  LET p == PairOf(a, b) IN
  /\ a # b
  /\ status[p].kind = "Disabled"
  /\ status' = [status EXCEPT ![p] = Enabled]
  /\ UNCHANGED <<pool, escrow, consumers, balance, shares, now>>

(* Disabling an Enabled pair parks its reserves.                           *)
DisableEnabledPair(a, b) ==
  LET p == PairOf(a, b) IN
  /\ a # b
  /\ status[p].kind = "Enabled"
  /\ status' = [status EXCEPT ![p] = Disabled]
  /\ UNCHANGED <<pool, escrow, consumers, balance, shares, now>>

(* Disabling a Preparing pair refunds every escrow entry and removes the   *)
(* status; one failed refund transfer reverts the whole call.              *)
DisablePreparingPair(a, b) ==
  LET p       == PairOf(a, b)
      owners  == DOMAIN escrow[p]
      refund  == [t \in {1, 2} |-> SumFunction([x \in owners |-> escrow[p][x][t]])]
  IN
  /\ a # b
  /\ status[p].kind = "Preparing"
  /\ CanPay(balance, DexAccount, p, refund)
  /\ balance' = [h \in Holders |->
       IF h = DexAccount
       THEN [balance[h] EXCEPT ![p[1]] = @ - refund[1], ![p[2]] = @ - refund[2]]
       ELSE IF h \in owners
       THEN [balance[h] EXCEPT ![p[1]] = @ + escrow[p][h][1], ![p[2]] = @ + escrow[p][h][2]]
       ELSE balance[h]]
  /\ consumers' = [x \in Accounts |->
       IF x \in owners THEN DecConsumers(consumers[x]) ELSE consumers[x]]
  /\ escrow' = [escrow EXCEPT ![p] = NoEscrow]
  /\ status' = [status EXCEPT ![p] = Disabled]
  /\ UNCHANGED <<pool, shares, now>>

-----------------------------------------------------------------------------
(* Bootstrap: add_liquidity on a Preparing pair, i.e. do_add_preparing     *)
(* followed by convert_to_enabled_if_possible in the same call.            *)

(* The conversion condition of convert_to_enabled_if_possible.             *)
CanConvert(prm, block) ==
  /\ block >= prm.notBefore
  /\ prm.acc[1] # 0 /\ prm.acc[2] # 0
  /\ prm.acc[1] >= prm.target[1] \/ prm.acc[2] >= prm.target[2]

(* Mutation: the reserve_1 update as a plain, unsaturated subtraction.    *)
ConversionPoolUnsaturated(pl, prm) == <<pl[1] + prm.acc[1], pl[2] - prm.acc[2]>>

(* The LiquidityPool::mutate of convert_to_enabled_if_possible: reserve_0  *)
(* gains accumulated_0, and reserve_1 is saturating_sub'ed accumulated_1.  *)
ConversionPool(pl, prm) ==
  <<pl[1] + prm.acc[1], IF pl[2] > prm.acc[2] THEN pl[2] - prm.acc[2] ELSE 0>>

(* Mutation: accumulating the contribution in argument order (a, b).       *)
AccumulateUnordered(prm, c) == [prm EXCEPT !.acc = <<@[1] + c[2], @[2] + c[1]>>]

(* do_add_preparing: accumulated_amount grows by the canonical contribution.*)
Accumulate(prm, c) == [prm EXCEPT !.acc = <<@[1] + c[1], @[2] + c[2]>>]

(* Mutation: a consumer reference taken on every contribution.             *)
IncConsumersAlways(cons, who, existed) == [cons EXCEPT ![who] = @ + 1]

(* inc_consumers only when the PreparingPool entry did not exist before.   *)
IncConsumers(cons, who, existed) ==
  IF existed THEN cons ELSE [cons EXCEPT ![who] = @ + 1]

(* Shares minted to a contributor: initial_price_0_in_1 * c0 + c1.         *)
(* Mutation: the initial price taken as accumulated_0 / accumulated_1.    *)
ConversionSharePriceSwapped(prm, c) ==
  MulInt(CheckedFromRational(prm.acc[1], prm.acc[2]), c[1]) + c[2]

ConversionShare(prm, c) ==
  MulInt(CheckedFromRational(prm.acc[2], prm.acc[1]), c[1]) + c[2]

AddPreparing(who, a, b, contribA, contribB) ==
  LET p       == PairOf(a, b)
      prm     == status[p]
      c       == Ordered(p, a, contribA, contribB)
      existed == who \in DOMAIN escrow[p]
      old     == IF existed THEN escrow[p][who] ELSE <<0, 0>>
      esc     == [x \in DOMAIN escrow[p] \cup {who} |->
                    IF x = who THEN <<old[1] + c[1], old[2] + c[2]>> ELSE escrow[p][x]]
      cons    == IncConsumers(consumers, who, existed)
      prm1    == Accumulate(prm, c)
      bal     == ToDex(balance, who, p, c)
  IN
  /\ a # b
  /\ prm.kind = "Preparing"
  /\ c[1] >= prm.min[1] \/ c[2] >= prm.min[2]
  /\ CanPay(balance, who, p, c)
  /\ balance' = bal
  /\ \/ /\ ~CanConvert(prm1, now)
        /\ status' = [status EXCEPT ![p] = prm1]
        /\ escrow' = [escrow EXCEPT ![p] = esc]
        /\ consumers' = cons
        /\ UNCHANGED <<pool, shares>>
     \/ /\ CanConvert(prm1, now)
        /\ shares' = [shares EXCEPT ![p] = [x \in Accounts |->
              IF x \in DOMAIN esc THEN @[x] + ConversionShare(prm1, esc[x]) ELSE @[x]]]
        /\ consumers' = [x \in Accounts |->
              IF x \in DOMAIN esc THEN DecConsumers(cons[x]) ELSE cons[x]]
        /\ pool' = [pool EXCEPT ![p] = ConversionPool(@, prm1)]
        /\ escrow' = [escrow EXCEPT ![p] = NoEscrow]
        /\ status' = [status EXCEPT ![p] = Enabled]
  /\ UNCHANGED now

-----------------------------------------------------------------------------
(* Liquidity: add_liquidity on an Enabled pair, and remove_liquidity.      *)

DoAddLiquidity(who, a, b, maxA, maxB) ==
  LET p   == PairOf(a, b)
      m   == Ordered(p, a, maxA, maxB)
      inc == LiquidityIncrement(pool[p][1], pool[p][2], Issuance(p), m[1], m[2])
  IN
  /\ a # b
  /\ status[p].kind = "Enabled"
  /\ inc[1] # 0 /\ inc[2] # 0 /\ inc[3] # 0
  /\ CanPay(balance, who, p, inc)
  /\ balance' = ToDex(balance, who, p, inc)
  /\ shares' = [shares EXCEPT ![p][who] = @ + inc[3]]
  /\ pool' = [pool EXCEPT ![p] = <<@[1] + inc[1], @[2] + inc[2]>>]
  /\ UNCHANGED <<status, escrow, consumers, now>>

(* The add_liquidity extrinsic: the status of the pair decides.  An       *)
(* Enabled pair takes do_add_liquidity, a Preparing one do_add_preparing   *)
(* followed by convert_to_enabled_if_possible, and a Disabled one fails    *)
(* with DisabledTradingPair; equal currencies have no trading pair         *)
(* (InvalidCurrencyId).  deposit_increment_share is never read.            *)
AddLiquidity(who, a, b, maxA, maxB) ==
  /\ a # b
  /\ \/ status[PairOf(a, b)].kind = "Enabled" /\ DoAddLiquidity(who, a, b, maxA, maxB)
     \/ status[PairOf(a, b)].kind = "Preparing" /\ AddPreparing(who, a, b, maxA, maxB)

(* remove_liquidity checks no status: parked reserves of a Disabled pair   *)
(* are withdrawn the same way.                                             *)
DoRemoveLiquidity(who, a, b, removeShare) ==
  LET p          == PairOf(a, b)
      proportion == CheckedFromRational(removeShare, Issuance(p))
      dec        == <<MulInt(proportion, pool[p][1]), MulInt(proportion, pool[p][2])>>
  IN
  /\ removeShare # 0
  /\ a # b
  /\ shares[p][who] >= removeShare
  /\ CanPay(balance, DexAccount, p, dec)
  /\ shares' = [shares EXCEPT ![p][who] = @ - removeShare]
  /\ balance' = FromDex(balance, who, p, dec)
  /\ pool' = [pool EXCEPT ![p] = <<@[1] - dec[1], @[2] - dec[2]>>]
  /\ UNCHANGED <<status, escrow, consumers, now>>

-----------------------------------------------------------------------------
(* Swap router.  A failed walk is the empty sequence; a successful one has *)
(* one amount per element of the path.                                     *)

(* get_liquidity(a, b): the pool of the pair read from a's side.           *)
GetLiquidity(a, b) ==
  LET p == PairOf(a, b) IN
  IF p \notin Pairs THEN <<0, 0>>
  ELSE IF a = p[1] THEN pool[p] ELSE <<pool[p][2], pool[p][1]>>

(* The checks get_target_amounts and get_supply_amounts make on the hop    *)
(* from a to b with the hop's output out: Enabled pair, both reserves      *)
(* non-zero, non-zero amount, price impact out / target reserve <= limit.  *)
HopOK(a, b, amount, out, limit) ==
  LET liq == GetLiquidity(a, b) IN
  /\ StatusOf(PairOf(a, b)).kind = "Enabled"
  /\ liq[1] # 0 /\ liq[2] # 0
  /\ amount # 0
  /\ CheckedFromRational(out, liq[2]) <= limit

(* Mutation: every hop priced from the path's supply amount               *)
(* (target_amounts[0] read where target_amounts[i] is meant).              *)
TargetAmountsFirstInput(path, supplyAmount, limit) ==
  LET RECURSIVE Walk(_)
      Walk(amts) ==
        LET i   == Len(amts)
            liq == GetLiquidity(path[i], path[i + 1])
            t   == GetTargetAmount(liq[1], liq[2], amts[1])
        IN IF i = Len(path) THEN amts
           ELSE IF HopOK(path[i], path[i + 1], t, t, limit)
                THEN Walk(Append(amts, t)) ELSE <<>>
  IN IF Len(path) >= 2 /\ Len(path) <= TradingPathLimit
     THEN Walk(<<supplyAmount>>) ELSE <<>>

(* get_target_amounts: walk the path left to right from supplyAmount; every*)
(* hop prices against the reserves as stored before the swap.             *)
TargetAmounts(path, supplyAmount, limit) ==
  LET RECURSIVE Walk(_)
      Walk(amts) ==
        LET i   == Len(amts)
            liq == GetLiquidity(path[i], path[i + 1])
            t   == GetTargetAmount(liq[1], liq[2], amts[i])
        IN IF i = Len(path) THEN amts
           ELSE IF HopOK(path[i], path[i + 1], t, t, limit)
                THEN Walk(Append(amts, t)) ELSE <<>>
  IN IF Len(path) >= 2 /\ Len(path) <= TradingPathLimit
     THEN Walk(<<supplyAmount>>) ELSE <<>>

(* get_supply_amounts: walk right to left from targetAmount.               *)
SupplyAmounts(path, targetAmount, limit) ==
  LET RECURSIVE Walk(_)
      Walk(amts) ==
        LET i   == Len(path) - Len(amts) + 1
            liq == GetLiquidity(path[i - 1], path[i])
            s   == GetSupplyAmount(liq[1], liq[2], amts[1])
        IN IF i = 1 THEN amts
           ELSE IF HopOK(path[i - 1], path[i], s, amts[1], limit)
                THEN Walk(<<s>> \o amts) ELSE <<>>
  IN IF Len(path) >= 2 /\ Len(path) <= TradingPathLimit
     THEN Walk(<<targetAmount>>) ELSE <<>>

(* Mutation: the canonical slot test of _swap inverted.                    *)
SwapHopSlotsSwapped(pl, a, b, supplyIncrement, targetDecrement) ==
  LET p   == PairOf(a, b)
      Sub(x, y) == IF x > y THEN x - y ELSE 0
  IN IF a = b THEN pl
     ELSE IF a # p[1]
          THEN [pl EXCEPT ![p] = <<@[1] + supplyIncrement, Sub(@[2], targetDecrement)>>]
          ELSE [pl EXCEPT ![p] = <<Sub(@[1], targetDecrement), @[2] + supplyIncrement>>]

(* _swap for one hop: the supply leg gains, the target leg loses           *)
(* (saturating); nothing for two equal ids.                                *)
SwapHop(pl, a, b, supplyIncrement, targetDecrement) ==
  LET p   == PairOf(a, b)
      Sub(x, y) == IF x > y THEN x - y ELSE 0
  IN IF a = b THEN pl
     ELSE IF a = p[1]
          THEN [pl EXCEPT ![p] = <<@[1] + supplyIncrement, Sub(@[2], targetDecrement)>>]
          ELSE [pl EXCEPT ![p] = <<Sub(@[1], targetDecrement), @[2] + supplyIncrement>>]

(* _swap_by_path: the hops applied one after the other.                    *)
SwapByPath(pl, path, amts) ==
  LET RECURSIVE Apply(_, _)
      Apply(q, i) == IF i = Len(path) THEN q
                     ELSE Apply(SwapHop(q, path[i], path[i + 1], amts[i], amts[i + 1]), i + 1)
  IN Apply(pl, 1)

(* The common tail of both swaps: supply in, reserves updated, target out. *)
CommitSwap(who, path, amts) ==
  LET first == path[1]
      last  == path[Len(path)]
      bal1  == [balance EXCEPT ![who][first] = @ - amts[1],
                               ![DexAccount][first] = @ + amts[1]]
  IN
  /\ balance[who][first] >= amts[1]
  /\ bal1[DexAccount][last] >= amts[Len(amts)]
  /\ pool' = SwapByPath(pool, path, amts)
  /\ balance' = [bal1 EXCEPT ![DexAccount][last] = @ - amts[Len(amts)],
                             ![who][last] = @ + amts[Len(amts)]]
  /\ UNCHANGED <<status, escrow, consumers, shares, now>>

DoSwapWithExactSupply(who, path, supplyAmount, minTargetAmount, limit) ==
  LET amts == TargetAmounts(path, supplyAmount, limit) IN
  /\ amts # <<>>
  /\ amts[Len(amts)] >= minTargetAmount
  /\ CommitSwap(who, path, amts)

DoSwapWithExactTarget(who, path, targetAmount, maxSupplyAmount, limit) ==
  LET amts == SupplyAmounts(path, targetAmount, limit) IN
  /\ amts # <<>>
  /\ amts[1] <= maxSupplyAmount
  /\ CommitSwap(who, path, amts)

-----------------------------------------------------------------------------
(* A new block.                                                            *)
AdvanceBlock ==
  /\ now < MaxBlock
  /\ now' = now + 1
  /\ UNCHANGED <<status, pool, escrow, consumers, balance, shares>>

Next ==
  \/ \E a, b \in Tokens :
       \/ \E prm \in PairParams : NewTradingPair(a, b, prm)
       \/ EnableTradingPair(a, b)
       \/ DisableEnabledPair(a, b)
       \/ DisablePreparingPair(a, b)
  \/ \E who \in Accounts, a, b \in Tokens, x, y \in Amounts :
       AddLiquidity(who, a, b, x, y)
  \/ \E who \in Accounts, a, b \in Tokens, s \in Amounts :
       DoRemoveLiquidity(who, a, b, s)
  \/ \E who \in Accounts, path \in Paths, x, bound \in Amounts, limit \in PriceImpactLimits :
       \/ DoSwapWithExactSupply(who, path, x, bound, limit)
       \/ DoSwapWithExactTarget(who, path, x, bound, limit)
  \/ AdvanceBlock

Spec == Init /\ [][Next]_vars

-----------------------------------------------------------------------------
(* Properties.                                                             *)

Balance2 == Nat \X Nat

TypeOK ==
  /\ \A p \in Pairs :
       /\ status[p].kind \in {"Disabled", "Preparing", "Enabled"}
       /\ {status[p].min, status[p].target, status[p].acc} \subseteq Balance2
       /\ status[p].notBefore \in Nat
  /\ pool \in [Pairs -> Balance2]
  /\ \A p \in Pairs : DOMAIN escrow[p] \subseteq Accounts
                      /\ \A x \in DOMAIN escrow[p] : escrow[p][x] \in Balance2
  /\ consumers \in [Accounts -> Nat]
  /\ balance \in [Holders -> [Tokens -> Nat]]
  /\ shares \in [Pairs -> [Accounts -> Nat]]
  /\ now \in 0..MaxBlock

(* What the pallet account owes in token t: the reserves of every pair     *)
(* holding t and every escrowed contribution of t.                         *)
Owed(t) ==
  LET side(p) == IF p[1] = t THEN 1 ELSE 2
      holding == {p \in Pairs : t \in {p[1], p[2]}}
  IN SumFunction([p \in holding |-> pool[p][side(p)]])
     + SumFunction([p \in holding |->
         SumFunction([x \in DOMAIN escrow[p] |-> escrow[p][x][side(p)]])])

(* Solvency: the pallet account always holds at least what the reserves    *)
(* and the bootstrap escrows say it holds, whatever interleaving of        *)
(* contributions, conversions, refunds, liquidity changes and multi-hop    *)
(* swaps (_swap_by_path, do_add_liquidity, do_remove_liquidity) came first.*)
Solvency == \A t \in Tokens : balance[DexAccount][t] >= Owed(t)

(* Bootstrap fairness of convert_to_enabled_if_possible: at the step that *)
(* turns a Preparing pair Enabled, every contributor is minted shares      *)
(* worth at most the token-1 value of its whole contribution at the        *)
(* initial price accumulated_1 / accumulated_0, and it loses less than one *)
(* share plus c0 / Accuracy to the floor-rounded price and                 *)
(* saturating_mul_int.  The contribution of the converting caller is read  *)
(* off the ledger, since its escrow entry is drained in the same step.     *)
BootstrapShareFair ==
  [][\A p \in Pairs :
       status[p].kind = "Preparing" /\ status'[p].kind = "Enabled" =>
         LET side    == {1, 2}
             paid(x, i) == balance[x][p[i]] - balance'[x][p[i]]
             acc     == [i \in side |-> status[p].acc[i] - paid(DexAccount, i)]
             contrib(x) == [i \in side |->
                 (IF x \in DOMAIN escrow[p] THEN escrow[p][x][i] ELSE 0) + paid(x, i)]
             fairNum(x) == contrib(x)[1] * acc[2] + contrib(x)[2] * acc[1]
             minted(x)  == shares'[p][x] - shares[p][x]
         IN \A x \in Accounts :
              /\ minted(x) * acc[1] <= fairNum(x)
              /\ Accuracy * fairNum(x)
                   < Accuracy * acc[1] * (minted(x) + 1) + contrib(x)[1] * acc[1]]_vars

(* Escrow bookkeeping of do_add_preparing, convert_to_enabled_if_possible  *)
(* and disable_trading_pair: escrow entries exist only while the pair is   *)
(* Preparing, and then the pair's accumulated_amount is their sum.         *)
EscrowConsistent ==
  \A p \in Pairs :
    IF status[p].kind = "Preparing"
    THEN \A t \in {1, 2} :
           status[p].acc[t] = SumFunction([x \in DOMAIN escrow[p] |-> escrow[p][x][t]])
    ELSE escrow[p] = NoEscrow

(* The consumer reference taken by do_add_preparing on an account's first  *)
(* contribution to a pair is given back exactly once, on conversion or on  *)
(* refund: an account's count is the number of pairs it has escrow in.     *)
ConsumerRefCount ==
  \A x \in Accounts :
    consumers[x] = Cardinality({p \in Pairs : x \in DOMAIN escrow[p]})

(* No operation lowers the value of one liquidity share: while shares are  *)
(* outstanding before and after a step, reserve_0 * reserve_1 / issuance^2 *)
(* never decreases.  Swaps keep the constant product (fee and floor        *)
(* rounding in the pool's favour, get_supply_amount rounding up), and      *)
(* do_add_liquidity / do_remove_liquidity round their fixed-point shares   *)
(* and amounts against the caller.                                         *)
ShareValueNonDecreasing ==
  [][\A p \in Pairs :
       LET s0 == Issuance(p)
           s1 == SumFunction(shares'[p])
       IN (s0 > 0 /\ s1 > 0) =>
            pool'[p][1] * pool'[p][2] * s0 * s0 >= pool[p][1] * pool[p][2] * s1 * s1]_vars

(* Spec section 3 and 8: a pool is never half empty, reserve_0 = 0 exactly *)
(* when reserve_1 = 0.  convert_to_enabled_if_possible seeds the reserves  *)
(* from the accumulated contributions.                                     *)
NoPartialPool == \A p \in Pairs : (pool[p][1] = 0) = (pool[p][2] = 0)

(* Refinement: the registry and the share issuance of every pair behave as *)
(* PairLifecycle describes, under the mapping of a pair to its status tag  *)
(* and to whether any DEXShare(p) is issued.  Every other step of Dex      *)
(* (swaps, contributions that do not convert, liquidity moves that keep    *)
(* issuance positive, blocks) is a stuttering step of the abstraction.     *)
Lifecycle == INSTANCE PairLifecycle WITH
  kind      <- [p \in Pairs |-> status[p].kind],
  hasShares <- [p \in Pairs |-> Issuance(p) > 0]

LifecycleRefined == Lifecycle!Spec

=============================================================================
