--------------------------- MODULE MCVaultAssets ----------------------------
(***************************************************************************)
(* An instance of VaultAssets for TLC: the deposit token and the reward    *)
(* token of the vault are assets as well.                                  *)
(***************************************************************************)
EXTENDS VaultAssets, TLC

CONSTANTS D, R

AssetsConfigs ==
  [deposit_token : {D}, reward_token : {R}, vesting_period : {0, 2},
   target_deposits : {0}, utilization_multipliers : {<<>>}]

AssetsInitial == (D :> (0 :> 0 @@ 1 :> 2 @@ 2 :> 0)) @@ (R :> (0 :> 0 @@ 1 :> 1 @@ 2 :> 3))
TokenSet == {D, R}
TokenList == <<D, R>>
=============================================================================
