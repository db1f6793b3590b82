----------------------------- MODULE MCVesting ------------------------------
(***************************************************************************)
(* The vault with the time of the last distribution remembered, to state   *)
(* when its test suite expects rewards to have vested.                     *)
(***************************************************************************)
EXTENDS MCVault

VARIABLE distributed_at

VestingConfigs == {Setup(2, 0, <<>>)}

VestingInit == Init /\ distributed_at = 0

VestingNext ==
  /\ Next
  /\ distributed_at' = IF reward_index' > reward_index THEN timestamp
                                                       ELSE distributed_at

VestingSpec == VestingInit /\ [][VestingNext]_<<vars, distributed_at>>

\* Once the vesting period has passed since the last distribution, everything
\* a user has pending is vested: `test_vesting` distributes at time 1000 and
\* expects `vested_rewards` to be the full amount at 1000 + vesting_period + 1.
VestsWithinPeriod ==
  Initialized /\ timestamp > distributed_at + config.vesting_period =>
    \A u \in Accounts : VestedRewards(u) = PendingRewards(u)
=============================================================================
