---------------------------- MODULE MCDexRouting ----------------------------
(***************************************************************************)
(* Model-checking instance of Dex for the router: three tokens, so three   *)
(* trading pairs and multi-hop paths, one liquidity provider and trader.   *)
(* Bootstrapping is left to MCDex: pairs are enabled directly, which keeps *)
(* the state space on the swaps.                                           *)
(***************************************************************************)
EXTENDS Dex

MCRoutingPairParams == {}

(* Every route of length 2 .. TradingPathLimit + 1 over the three tokens: *)
(* two-hop routes 0 -> 1 -> 2, routes that revisit a token or a pair, and *)
(* the over-long routes that TradingPathLimit rejects.                     *)
MCRoutingPaths == UNION {[1..n -> Tokens] : n \in 2..(TradingPathLimit + 1)}

MCRoutingPriceImpactLimits == {Accuracy}
(* The default genesis, and the dex mock's: all three pairs enabled and    *)
(* seeded at 1:2 by one account (initialize_added_liquidity_pools).        *)
MCRoutingGenesis ==
  LET pairs == << <<0, 1>>, <<0, 2>>, <<1, 2>> >>
  IN {DefaultGenesis,
      [preparing |-> <<>>,
       enabled   |-> pairs,
       liquidity |-> << <<CHOOSE a \in Accounts : TRUE,
                          [i \in 1..3 |-> <<pairs[i], <<1, 2>> >>]>> >>]}

=============================================================================
