------------------------------- MODULE MCDex -------------------------------
(***************************************************************************)
(* Model-checking instance of Dex: one trading pair of tokens 0 and 1, two *)
(* signed callers, the mock runtime's fee (1/100) and path limit (3).      *)
(***************************************************************************)
EXTENDS Dex

(* new_trading_pair arguments: asymmetric minima and targets, so that a    *)
(* swap of the (a, b) argument order into canonical order shows.           *)
MCPairParams ==
  {[minA |-> 1, minB |-> 2, targetA |-> 2, targetB |-> 3, notBefore |-> 1]}

(* Every route of length 2 .. TradingPathLimit + 1 over the tokens, so     *)
(* that over-long paths and repeated pairs are offered too.                *)
MCPaths == UNION {[1..n -> Tokens] : n \in 2..(TradingPathLimit + 1)}

(* The default genesis, and one shaped like the node's chain_spec: the     *)
(* pair listed as preparing and as enabled, and seeded at 1:2 by one account.*)
MCGenesis ==
  {DefaultGenesis,
   [preparing |-> << [pair |-> <<0, 1>>, min |-> <<1, 2>>, target |-> <<2, 3>>,
                      notBefore |-> 1] >>,
    enabled   |-> << <<0, 1>> >>,
    liquidity |-> << <<CHOOSE a \in Accounts : TRUE, << << <<0, 1>>, <<1, 2>> >> >> >> >>]}

MCPriceImpactLimits == {Accuracy \div 2, Accuracy}

=============================================================================
