---------------------------- MODULE VaultAssets -----------------------------
(***************************************************************************)
(* The whole vault contract: the single-asset vault of module Vault and,   *)
(* beside it, the multi-asset operations.  Every asset has its own total,  *)
(* reward index and positions, but all rewards are paid in the one reward  *)
(* token, and all the tokens are held at the one contract address: an      *)
(* asset may be the deposit token or the reward token of the vault.        *)
(***************************************************************************)
EXTENDS Vault

CONSTANT AssetList      \* the tokens `add_asset` is called with, each once

ASSUME AssetsAssumption ==
  /\ AssetList \in Seq(Tokens)
  /\ \A i, j \in 1..Len(AssetList) : AssetList[i] = AssetList[j] => i = j

Assets == {AssetList[i] : i \in 1..Len(AssetList)}

VARIABLES
  supported_assets,
  asset_total_deposits, asset_reward_index,     \* per asset
  asset_balance, asset_position                 \* per asset and user

assetVars == <<supported_assets, asset_total_deposits, asset_reward_index,
               asset_balance, asset_position>>
baseVars == <<adminVars, user_position, fundVars, reward_index, timestamp>>
allVars == <<vars, assetVars>>

-----------------------------------------------------------------------------
\* The position of u in asset t, brought up to date.
AssetSettled(t, u) ==
  Accrue(asset_position[t][u], asset_balance[t][u], asset_reward_index[t])

AssetSettlementFits(t, u) ==
  AccrualFits(asset_position[t][u], asset_balance[t][u], asset_reward_index[t])

PendingAssetRewards(t, u) == AssetSettled(t, u).accrued_rewards
VestedAssetRewards(t, u) == CalculateVested(AssetSettled(t, u))

AssetsInit ==
  /\ Init
  /\ supported_assets = {}
  /\ asset_total_deposits = [t \in Tokens |-> 0]
  /\ asset_reward_index = [t \in Tokens |-> 0]
  /\ asset_balance = [t \in Tokens |-> [u \in Accounts |-> 0]]
  /\ asset_position = [t \in Tokens |-> [u \in Accounts |-> NoPosition]]

\* Mutant: adding an asset again resets its totals.
AddAssetResetting(t) ==
  /\ Initialized
  /\ supported_assets' = supported_assets \cup {t}
  /\ asset_total_deposits' = [asset_total_deposits EXCEPT ![t] = 0]
  /\ asset_reward_index' = [asset_reward_index EXCEPT ![t] = 0]
  /\ UNCHANGED <<asset_balance, asset_position, vars>>

\* Adding an asset a second time leaves its state alone.
AddAsset(t) ==
  /\ Initialized
  /\ supported_assets' = supported_assets \cup {t}
  /\ IF t \in supported_assets
     THEN UNCHANGED <<asset_total_deposits, asset_reward_index>>
     ELSE /\ asset_total_deposits' = [asset_total_deposits EXCEPT ![t] = 0]
          /\ asset_reward_index' = [asset_reward_index EXCEPT ![t] = 0]
  /\ UNCHANGED <<asset_balance, asset_position, vars>>

\* The balance and the total of t after u moves `amount` in (or out, if it is
\* negative), with u's position settled first.
MoveAsset(t, u, amount) ==
  /\ asset_position' = [asset_position EXCEPT ![t][u] = AssetSettled(t, u)]
  /\ asset_balance' = [asset_balance EXCEPT ![t][u] = @ + amount]
  /\ asset_total_deposits' = [asset_total_deposits EXCEPT ![t] = @ + amount]
  /\ UNCHANGED <<supported_assets, asset_reward_index, baseVars>>

DepositAsset(t, u, amount) ==
  /\ Active /\ amount > 0 /\ t \in supported_assets
  /\ AssetSettlementFits(t, u)
  /\ Fits(asset_total_deposits[t] + amount)
  /\ Transfer(t, u, Contract, amount)
  /\ MoveAsset(t, u, amount)

CanWithdrawAsset(t, u, amount) ==
  /\ Active /\ amount > 0 /\ t \in supported_assets
  /\ AssetSettlementFits(t, u)
  /\ asset_balance[t][u] >= amount
  /\ token_balance[t][Contract] >= amount

WithdrawAsset(t, u, amount) ==
  /\ CanWithdrawAsset(t, u, amount)
  /\ Transfer(t, Contract, u, amount)
  /\ MoveAsset(t, u, -amount)

\* No multiplier is applied here, and the pause flag is not consulted.
DistributeRewardsForAsset(t, amount) ==
  /\ Initialized
  /\ amount > 0 /\ amount >= MIN_REWARD_DISTRIBUTION
  /\ t \in supported_assets
  /\ IncrementFits(amount, asset_total_deposits[t], asset_reward_index[t])
  /\ Transfer(config.reward_token, admin, Contract, amount)
  /\ asset_reward_index' = [asset_reward_index EXCEPT ![t] =
                              @ + IndexIncrement(amount, asset_total_deposits[t])]
  /\ UNCHANGED <<supported_assets, asset_total_deposits, asset_balance,
                 asset_position, baseVars>>

\* Mutant: the claim is paid without being deducted from the position.
ClaimRewardsForAssetKeeping(t, u) ==
  /\ Active /\ t \in supported_assets
  /\ AssetSettlementFits(t, u)
  /\ VestingFits(AssetSettled(t, u))
  /\ asset_position' = [asset_position EXCEPT ![t][u] = AssetSettled(t, u)]
  /\ IF VestedAssetRewards(t, u) > 0
     THEN Transfer(config.reward_token, Contract, u, VestedAssetRewards(t, u))
     ELSE UNCHANGED token_balance
  /\ UNCHANGED <<supported_assets, asset_total_deposits, asset_reward_index,
                 asset_balance, baseVars>>

ClaimRewardsForAsset(t, u) ==
  /\ Active /\ t \in supported_assets
  /\ AssetSettlementFits(t, u)
  /\ VestingFits(AssetSettled(t, u))
  /\ asset_position' = [asset_position EXCEPT ![t][u] = Claimed(AssetSettled(t, u))]
  /\ IF VestedAssetRewards(t, u) > 0
     THEN Transfer(config.reward_token, Contract, u, VestedAssetRewards(t, u))
     ELSE UNCHANGED token_balance
  /\ UNCHANGED <<supported_assets, asset_total_deposits, asset_reward_index,
                 asset_balance, baseVars>>

AssetsNext ==
  \/ Next /\ UNCHANGED assetVars
  \/ \E t \in Assets : AddAsset(t)
  \/ \E t \in Assets, u \in Accounts, amount \in Amounts : DepositAsset(t, u, amount)
  \/ \E t \in Assets, u \in Accounts, amount \in Amounts : WithdrawAsset(t, u, amount)
  \/ \E t \in Assets, amount \in RewardAmounts : DistributeRewardsForAsset(t, amount)
  \/ \E t \in Assets, u \in Accounts : ClaimRewardsForAsset(t, u)

AssetsSpec == AssetsInit /\ [][AssetsNext]_allVars

-----------------------------------------------------------------------------
(***************************************************************************)
(* Properties.                                                             *)
(***************************************************************************)
AssetOwed(t, u) == PRECISION_FACTOR * asset_position[t][u].accrued_rewards
  + asset_balance[t][u] * (asset_reward_index[t] - asset_position[t][u].reward_index)

TotalAssetOwed(t) == Sum([u \in Accounts |-> AssetOwed(t, u)], NumUsers)

\* What all the assets owe in rewards together.
AllAssetsOwed ==
  Sum([i \in 1..Len(AssetList) |-> TotalAssetOwed(AssetList[i])], Len(AssetList))

\* What the contract must hold of token t: the vault's deposits if t is the
\* deposit token, the deposits of asset t, and every reward still to be paid,
\* by the vault and by all the assets, if t is the reward token.
Claims(t) ==
  PRECISION_FACTOR * asset_total_deposits[t]
    + (IF t = config.deposit_token THEN PRECISION_FACTOR * total_deposits ELSE 0)
    + (IF t = config.reward_token THEN TotalOwed + AllAssetsOwed ELSE 0)

\* Every asset's total is the sum of its users' balances and, as long as no
\* multiplier exceeds 1.0x, what the contract holds of a token covers every
\* claim on it, even when an asset is itself the deposit or the reward token:
\* nobody's claim is ever paid out of somebody else's deposit
\* (`store_asset_deposit`, `store_asset_withdraw`, `claim_rewards_for_asset`).
HoldingsCoverClaims ==
  /\ \A t \in Tokens : asset_total_deposits[t] = Sum(asset_balance[t], NumUsers)
  /\ Initialized /\ NoBoost =>
       \A t \in Tokens : PRECISION_FACTOR * token_balance[t][Contract] >= Claims(t)

\* A user's pending rewards in an asset rise only when that asset's index does,
\* and fall only by what is paid out to that user in reward tokens, whatever
\* happens in the vault and in the other assets.
AssetRewardAccounting ==
  [][\A t \in Tokens, u \in Accounts :
       /\ PendingAssetRewards(t, u)' > PendingAssetRewards(t, u) =>
            asset_reward_index'[t] > asset_reward_index[t]
       /\ PendingAssetRewards(t, u)' < PendingAssetRewards(t, u) =>
            token_balance'[config.reward_token][u]
              = token_balance[config.reward_token][u]
                  + PendingAssetRewards(t, u) - PendingAssetRewards(t, u)']_allVars

\* A user can take out the whole balance of an asset, and claim what has
\* vested, whenever the contract is not paused: the claims of the vault's users
\* and of the other assets never leave too little.
AssetExit ==
  Active /\ NoBoost /\ SuppliesFit =>
    \A t \in supported_assets, u \in Accounts :
      /\ asset_balance[t][u] > 0 => CanWithdrawAsset(t, u, asset_balance[t][u])
      /\ token_balance[config.reward_token][Contract] >= VestedAssetRewards(t, u)
=============================================================================
