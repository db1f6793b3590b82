------------------------------ MODULE MCVault -------------------------------
(***************************************************************************)
(* Instances of Vault for TLC.  Basis points are halves (BASIS_POINTS = 2) *)
(* and the reward index has two units per reward token, so that the        *)
(* rounding of both is visible on small amounts.                           *)
(***************************************************************************)
EXTENDS Vault, TLC

CONSTANTS D, R          \* the deposit and the reward token

Curve(points) ==
  [i \in 1..Len(points) |->
     [utilization_bps |-> points[i][1], multiplier_bps |-> points[i][2]]]

Setup(vesting, target, points) ==
  [deposit_token |-> D, reward_token |-> R, vesting_period |-> vesting,
   target_deposits |-> target, utilization_multipliers |-> Curve(points)]

\* A valid configuration, and two that `initialize` refuses: equal tokens and
\* a curve that is not sorted.
FundsConfigs == {Setup(0, 0, <<>>),
                 [Setup(0, 0, <<>>) EXCEPT !.reward_token = D],
                 Setup(0, 0, << <<2, 1>>, <<1, 1>> >>)}

\* Half the rewards up to full utilization and all of them above it.
RewardsConfigs == {Setup(0, 2, << <<2, 1>>, <<3, 2>> >>), Setup(2, 0, <<>>)}

FundsBalances == (D :> <<2, 2>>) @@ (R :> <<0, 0>>)
ExpiryBalances == (D :> <<6>>) @@ (R :> <<0>>)
RewardsBalances == (D :> <<2, 1>>) @@ (R :> <<0, 4>>)

\* Accounts start with these holdings, and the contract with nothing.
WithContract(b) == [t \in DOMAIN b |-> [h \in Holders |-> IF h = 0 THEN 0 ELSE b[t][h]]]
FundsInitial == WithContract(FundsBalances)
ExpiryInitial == WithContract(ExpiryBalances)
RewardsInitial == WithContract(RewardsBalances)
TokenSet == {D, R}
=============================================================================
