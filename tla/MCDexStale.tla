----------------------------- MODULE MCDexStale -----------------------------
(***************************************************************************)
(* Model-checking instance of Dex with a runtime whose TradingPathLimit is *)
(* 5: long enough for a route such as 0 -> 1 -> 2 -> 0 -> 1 to cross the   *)
(* pair (0, 1) twice in the same direction.                                *)
(***************************************************************************)
EXTENDS Dex

MCStalePairParams == {}

(* The two five-token routes that cross a pair twice in the same          *)
(* direction; the pools are built up by add_liquidity.                     *)
MCStalePaths == {<<0, 1, 2, 0, 1>>, <<1, 0, 2, 1, 0>>}

MCStalePriceImpactLimits == {Accuracy}
(* The chain starts from the default genesis.                              *)
MCStaleGenesis == {DefaultGenesis}

=============================================================================
