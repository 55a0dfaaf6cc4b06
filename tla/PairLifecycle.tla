--------------------------- MODULE PairLifecycle ---------------------------
(***************************************************************************)
(* What the trading-pair registry promises (spec section 4.1), per pair:   *)
(* a lifecycle Disabled -> Preparing -> Enabled -> Disabled, with the      *)
(* shortcut Disabled -> Enabled and the cancellation Preparing ->          *)
(* Disabled, and the pair's liquidity shares: none exist while the pair is *)
(* Preparing, a bootstrap is only started when none are outstanding, they  *)
(* appear at conversion or by adding liquidity to an Enabled pair, and     *)
(* holders may redeem them in any state.  The genesis configuration may   *)
(* start a pair in any state, with shares only if it is Enabled.          *)
(***************************************************************************)
CONSTANT Pairs

VARIABLES kind, hasShares

Kinds == {"Disabled", "Preparing", "Enabled"}

(* At genesis a pair may be configured in any state; only an Enabled one   *)
(* may have been seeded with liquidity.                                    *)
Init ==
  /\ kind \in [Pairs -> Kinds]
  /\ hasShares \in [Pairs -> BOOLEAN]
  /\ \A p \in Pairs : hasShares[p] => kind[p] = "Enabled"

Create(p) ==
  /\ kind[p] = "Disabled" /\ ~hasShares[p]
  /\ kind' = [kind EXCEPT ![p] = "Preparing"]
  /\ UNCHANGED hasShares

Enable(p) ==
  /\ kind[p] = "Disabled"
  /\ kind' = [kind EXCEPT ![p] = "Enabled"]
  /\ UNCHANGED hasShares

(* The bootstrap converts into a live pool and issues its first shares.   *)
Convert(p) ==
  /\ kind[p] = "Preparing"
  /\ kind' = [kind EXCEPT ![p] = "Enabled"]
  /\ hasShares' = [hasShares EXCEPT ![p] = TRUE]

Cancel(p) ==
  /\ kind[p] = "Preparing"
  /\ kind' = [kind EXCEPT ![p] = "Disabled"]
  /\ UNCHANGED hasShares

Disable(p) ==
  /\ kind[p] = "Enabled"
  /\ kind' = [kind EXCEPT ![p] = "Disabled"]
  /\ UNCHANGED hasShares

Mint(p) ==
  /\ kind[p] = "Enabled"
  /\ hasShares' = [hasShares EXCEPT ![p] = TRUE]
  /\ UNCHANGED kind

Redeem(p) ==
  /\ hasShares[p]
  /\ hasShares' = [hasShares EXCEPT ![p] = FALSE]
  /\ UNCHANGED kind

Next == \E p \in Pairs :
          Create(p) \/ Enable(p) \/ Convert(p) \/ Cancel(p) \/ Disable(p)
          \/ Mint(p) \/ Redeem(p)

Spec == Init /\ [][Next]_<<kind, hasShares>>
=============================================================================
